-------------------------- MODULE BenchmarkProofs --------------------------
(***************************************************************************)
(* Proofs about Benchmark, for files of any size and any number of calls   *)
(* of start and stop.                                                      *)
(*                                                                         *)
(* The ingestor keeps two accounts of its thread: running_, which only its *)
(* owner writes, and whether the std::thread can be joined.  start() reads *)
(* the first and relies on the second.  OwnerInStep says how they go       *)
(* together at each place the owner can be, ThreadInStep what the thread   *)
(* has found out before it reports that it is done.                        *)
(*                                                                         *)
(* The parser keeps one place in the file.  ParserInStep says that this is *)
(* always where a line starts, LineAt where that is.                       *)
(***************************************************************************)
EXTENDS Benchmark, SequenceTheorems, WellFoundedInduction, TLAPS

IsSequence(s) == \E S : s \in Seq(S)

OwnerInStep ==
  /\ client \in {"parsing", "destroyed"} => ~running /\ thread = "none"
  /\ client = "idle" /\ ~running => thread = "none"
  /\ client \in {"starting", "spawning"} => running /\ thread = "none"
  /\ client = "spawning" => ~completed
  /\ client = "polling" => running
  /\ client \in {"joining", "destroying"} => ~running

ThreadInStep ==
  /\ completed => thread \in {"none", "end"}
  /\ thread = "body" => processed < Len(messages)
  /\ thread = "completing" \/ completed => messages_processed = processed
  /\ thread \in {"ended", "completing"} => processed = Len(messages) \/ ~running

\* What the book was given since the thread was started.
FedInOrder ==
  /\ processed <= Len(given)
  /\ \A k \in 1..processed : given[Len(given) - processed + k] = k

CompletedInFull ==
  completed /\ processed < Len(messages) => ~running \/ client \in {"starting", "spawning"}

IInv ==
  /\ IsSequence(stream) /\ IsSequence(messages) /\ given \in Seq(Nat)
  /\ TypeOK /\ client # "terminated"
  /\ OwnerInStep /\ ThreadInStep /\ FedInOrder /\ CompletedInFull


(* Sequences *)

LEMMA EmptyIsSequence == IsSequence(<< >>)
  BY EmptySeq DEF IsSequence

\* A sequence of any elements stays one when any element is appended.
LEMMA AppendIsSequence ==
  ASSUME NEW s, NEW e, IsSequence(s)
  PROVE  IsSequence(Append(s, e))
<1>1. PICK S : s \in Seq(S)
  BY DEF IsSequence
<1>2. s \in Seq(S \cup {e})
  BY <1>1, SeqMonotonic
<1>3. Append(s, e) \in Seq(S \cup {e})
  BY <1>2, AppendProperties
<1> QED BY <1>3 DEF IsSequence

LEMMA LengthOfSequence ==
  ASSUME NEW s, IsSequence(s)
  PROVE  Len(s) \in Nat /\ DOMAIN s = 1..Len(s)
<1>1. PICK S : s \in Seq(S)
  BY DEF IsSequence
<1> QED BY <1>1, LenProperties

\* What two sequences are together.
Both(a, b, c) ==
  /\ Len(a) \in Nat /\ Len(b) \in Nat /\ Len(c) = Len(a) + Len(b)
  /\ \A i \in 1..Len(a) : c[i] = a[i]
  /\ \A i \in 1..Len(b) : c[Len(a) + i] = b[i]

LEMMA ConcatFacts ==
  ASSUME NEW T, NEW a \in Seq(T), NEW b \in Seq(T)
  PROVE  Both(a, b, a \o b)
<1>1. Len(a) \in Nat /\ Len(b) \in Nat /\ Len(a \o b) = Len(a) + Len(b)
  BY LenProperties, ConcatProperties
<1>2. ASSUME NEW i \in 1..Len(a) PROVE (a \o b)[i] = a[i]
  BY <1>1
<1>3. ASSUME NEW i \in 1..Len(b) PROVE (a \o b)[Len(a) + i] = b[i]
  <2>1. Len(a) + i \in 1..(Len(a) + Len(b)) /\ ~(Len(a) + i <= Len(a))
        /\ (Len(a) + i) - Len(a) = i
    BY <1>1
  <2>2. (a \o b)[Len(a) + i] = b[(Len(a) + i) - Len(a)]
    BY Zenon, <2>1, ConcatProperties
  <2> QED BY Zenon, <2>1, <2>2
<1> QED BY Zenon, <1>1, <1>2, <1>3 DEF Both

\* A sequence with one element more.
OneMore(s, e, c) ==
  /\ IsSequence(c) /\ Len(c) = Len(s) + 1
  /\ c[Len(s) + 1] = e /\ \A i \in 1..Len(s) : c[i] = s[i]

LEMMA AppendFacts ==
  ASSUME NEW s, NEW e, IsSequence(s)
  PROVE  OneMore(s, e, Append(s, e))
<1>1. IsSequence(Append(s, e))
  BY Zenon, AppendIsSequence
<1>2. PICK S : s \in Seq(S)
  BY DEF IsSequence
<1> DEFINE T == S \cup {e}
<1>3. s \in Seq(T) /\ e \in T
  BY <1>2, SeqMonotonic
<1> HIDE DEF T
<1>4. /\ Len(Append(s, e)) = Len(s) + 1 /\ Append(s, e)[Len(s) + 1] = e
      /\ \A i \in 1..Len(s) : Append(s, e)[i] = s[i]
  BY <1>3, AppendProperties
<1> QED BY Zenon, <1>1, <1>4 DEF OneMore

\* A part of a sequence.
PartOf(s, m, l, c) == Len(c) = l /\ \A i \in 1..l : c[i] = s[m + i - 1]

LEMMA PartFacts ==
  ASSUME NEW S, NEW s, NEW m \in Int, NEW n \in Int, \A i \in m..n : s[i] \in S,
         n - m + 1 \in Nat
  PROVE  SubSeq(s, m, n) \in Seq(S) /\ PartOf(s, m, n - m + 1, SubSeq(s, m, n))
<1> DEFINE c == SubSeq(s, m, n)
           l == n - m + 1
<1>1. /\ c \in Seq(S) /\ Len(c) = IF m <= n THEN n - m + 1 ELSE 0
      /\ \A i \in 1..(n - m + 1) : c[i] = s[m + i - 1]
  BY SubSeqProperties
<1>2. ~(m <= n) => l = 0
  OBVIOUS
<1> HIDE DEF c
<1>3. Len(c) = l
  BY <1>1, <1>2
<1> QED BY Zenon, <1>1, <1>3 DEF PartOf, c

\* The smallest of a set of numbers.
LEMMA MinIs ==
  ASSUME NEW S \in SUBSET Int, NEW q \in S, \A r \in S : q <= r
  PROVE  Min(S) = q
<1> DEFINE m == Min(S)
<1>1. \E x \in S : \A y \in S : x <= y
  OBVIOUS
<1>2. m \in S /\ \A y \in S : m <= y
  BY Zenon, <1>1 DEF Min
<1> HIDE DEF m
<1>3. m \in Int /\ q \in Int /\ m <= q /\ q <= m
  BY Zenon, <1>2
<1>4. m = q
  BY <1>3
<1> QED BY <1>4 DEF m

\* Places in a part of a sequence.
LEMMA PlaceInPart ==
  ASSUME NEW p \in Nat, NEW m \in Nat
  PROVE  /\ \A i \in 1..m : (p + 1) + i - 1 = p + i /\ p + i \in 1..(p + m)
         /\ \A r \in p..(p + m - 1) : r - p + 1 \in 1..m /\ p + (r - p + 1) - 1 = r
  OBVIOUS

(* Sequences one after the other. *)

\* Induction over the numbers, as a fact about sets.
LEMMA NatIsReached ==
  ASSUME NEW P \in SUBSET Nat, 0 \in P, \A n \in P : n + 1 \in P
  PROVE  P = Nat
<1> DEFINE S == Nat \ P
<1>1. SUFFICES ASSUME S # {} PROVE FALSE
  OBVIOUS
<1>2. PICK m \in S : \A e \in S : ~(<<e, m>> \in OpToRel(<, Nat))
  BY <1>1, NatLessThanWellFounded, WFMin, Zenon
<1>3. \A x \in S : ~(x < m)
  BY <1>2 DEF OpToRel
<1>4. m # 0 /\ m \in Nat
  OBVIOUS
<1>5. m - 1 \in P
  BY <1>3, <1>4
<1>6. (m - 1) + 1 = m
  BY <1>4
<1> QED BY <1>5, <1>6

\* f[k] is what the first k sequences are together.
Joins(s, n, f) ==
  \A k \in 1..n : f[k] = IF k = 1 THEN s[k] ELSE f[k - 1] \o s[k]

\* There is such a function.
LEMMA JoinsExist ==
  ASSUME NEW T, NEW s \in Seq(Seq(T))
  PROVE  \E f : f = [i \in 1..Len(s) |-> IF i = 1 THEN s[i] ELSE f[i - 1] \o s[i]]
<1> DEFINE Upto(n, f) == f = [k \in 1..n |-> f[k]] /\ Joins(s, n, f)
           Exist(n) == n <= Len(s) => \E f : Upto(n, f)
           P == {n \in Nat : Exist(n)}
<1>1. Len(s) \in Nat
  OBVIOUS
<1>2. 0 \in P
  <2>1. Upto(0, [k \in 1..0 |-> k])
    BY DEF Joins
  <2> HIDE DEF Upto
  <2> QED BY <2>1
<1>3. ASSUME NEW n \in Nat, NEW f, Upto(n, f) PROVE \E g : Upto(n + 1, g)
  <2> DEFINE new == IF n = 0 THEN s[1] ELSE f[n] \o s[n + 1]
             g == [k \in 1..(n + 1) |-> IF k = n + 1 THEN new ELSE f[k]]
  <2> HIDE DEF new
  <2>1. g[n + 1] = new /\ \A k \in 1..n : g[k] = f[k]
    OBVIOUS
  <2>2. g = [k \in 1..(n + 1) |-> g[k]]
    OBVIOUS
  <2> HIDE DEF g
  <2>3. ASSUME NEW k \in 1..(n + 1)
        PROVE  g[k] = IF k = 1 THEN s[k] ELSE g[k - 1] \o s[k]
    <3>1. CASE k # n + 1
      <4>1. k \in 1..n /\ (k # 1 => k - 1 \in 1..n)
        BY <3>1
      <4> QED BY <1>3, <2>1, <4>1 DEF Joins
    <3>2. CASE k = n + 1 /\ n = 0
      BY <2>1, <3>2 DEF new
    <3>3. CASE k = n + 1 /\ n # 0
      <4>1. n \in 1..n /\ k # 1 /\ k - 1 = n
        BY <3>3
      <4> QED BY <2>1, <3>3, <4>1 DEF new
    <3> QED BY <3>1, <3>2, <3>3
  <2>4. Upto(n + 1, g)
    BY <2>2, <2>3 DEF Joins
  <2> HIDE DEF Upto
  <2> QED BY <2>4
<1> HIDE DEF Upto
<1>4. \A n \in P : n + 1 \in P
  <2>1. ASSUME NEW n \in Nat, Exist(n) PROVE Exist(n + 1)
    <3>1. SUFFICES ASSUME n + 1 <= Len(s) PROVE \E f : Upto(n + 1, f)
      OBVIOUS
    <3>2. n <= Len(s)
      BY <1>1, <3>1
    <3>3. \E f : Upto(n, f)
      BY <2>1, <3>2
    <3> QED BY Zenon, <1>3, <3>3
  <2> HIDE DEF Exist
  <2> QED BY <2>1
<1>5. P = Nat
  <2>1. P \subseteq Nat
    OBVIOUS
  <2> HIDE DEF P
  <2> QED BY <1>2, <1>4, <2>1, NatIsReached
<1>6. Len(s) \in P
  <2> HIDE DEF P
  <2> QED BY <1>1, <1>5
<1>7. PICK f : Upto(Len(s), f)
  BY <1>1, <1>6
<1>8. f = [k \in 1..Len(s) |-> IF k = 1 THEN s[k] ELSE f[k - 1] \o s[k]]
  <2>1. /\ f = [k \in 1..Len(s) |-> f[k]]
        /\ \A k \in 1..Len(s) : f[k] = IF k = 1 THEN s[k] ELSE f[k - 1] \o s[k]
    BY Zenon, <1>7 DEF Upto, Joins
  <2> QED BY <2>1
<1> QED BY <1>8

\* Each part is a sequence, and those that follow are longer and start with it.
LEMMA JoinFacts ==
  ASSUME NEW T, NEW s \in Seq(Seq(T)), NEW f, Joins(s, Len(s), f)
  PROVE  /\ \A k \in 1..Len(s) : f[k] \in Seq(T) /\ Len(f[k]) \in Nat
         /\ \A k \in 1..Len(s), m \in 1..Len(s) : k <= m =>
              /\ Len(f[k]) <= Len(f[m])
              /\ \A i \in 1..Len(f[k]) : f[m][i] = f[k][i]
<1>1. Len(s) \in Nat /\ \A k \in 1..Len(s) : s[k] \in Seq(T)
  OBVIOUS
<1>2. \A k \in 1..Len(s) : f[k] = IF k = 1 THEN s[k] ELSE f[k - 1] \o s[k]
  BY Zenon DEF Joins
<1>3. \A k \in 1..Len(s) : f[k] \in Seq(T)
  <2> DEFINE P == {n \in Nat : n + 1 <= Len(s) => f[n + 1] \in Seq(T)}
  <2>1. 0 \in P
    BY <1>1, <1>2
  <2>2. ASSUME NEW n \in P PROVE n + 1 \in P
    <3>1. SUFFICES ASSUME n + 2 <= Len(s) PROVE f[n + 2] \in Seq(T)
      OBVIOUS
    <3>2. f[n + 1] \in Seq(T) /\ s[n + 2] \in Seq(T)
      BY <1>1, <3>1
    <3>3. f[n + 2] = f[n + 1] \o s[n + 2]
      <4>1. n + 2 \in 1..Len(s) /\ n + 2 # 1 /\ (n + 2) - 1 = n + 1
        BY <1>1, <3>1
      <4> QED BY <1>2, <4>1
    <3> QED BY <3>2, <3>3, ConcatProperties
  <2>3. P = Nat
    <3>1. P \subseteq Nat
      OBVIOUS
    <3> HIDE DEF P
    <3> QED BY <2>1, <2>2, <3>1, NatIsReached
  <2>4. SUFFICES ASSUME NEW k \in 1..Len(s) PROVE f[k] \in Seq(T)
    OBVIOUS
  <2>5. k - 1 \in P /\ (k - 1) + 1 = k /\ k <= Len(s)
    <3> HIDE DEF P
    <3> QED BY <1>1, <2>3
  <2> QED BY <2>5
<1>4. \A k \in 1..Len(s) : Len(f[k]) \in Nat
  BY <1>3, LenProperties
<1>5. ASSUME NEW k \in 1..Len(s)
      PROVE  \A m \in 1..Len(s) : k <= m =>
               /\ Len(f[k]) <= Len(f[m])
               /\ \A i \in 1..Len(f[k]) : f[m][i] = f[k][i]
  <2> DEFINE Begins(m) == /\ Len(f[k]) <= Len(f[m])
                          /\ \A i \in 1..Len(f[k]) : f[m][i] = f[k][i]
             P == {n \in Nat : k + n <= Len(s) => Begins(k + n)}
  <2>1. 0 \in P
    BY <1>4
  <2>2. ASSUME NEW n \in P PROVE n + 1 \in P
    <3>1. SUFFICES ASSUME k + n + 1 <= Len(s) PROVE Begins(k + n + 1)
      OBVIOUS
    <3> DEFINE m == k + n
    <3>2. m \in 1..Len(s) /\ m + 1 \in 1..Len(s) /\ m + 1 # 1 /\ (m + 1) - 1 = m /\ Begins(m)
      BY <1>1, <3>1
    <3> HIDE DEF m
    <3>3. f[m + 1] = f[m] \o s[m + 1] /\ f[m] \in Seq(T) /\ s[m + 1] \in Seq(T)
      BY <1>1, <1>2, <1>3, <3>2
    <3>4. /\ Len(f[m + 1]) = Len(f[m]) + Len(s[m + 1])
          /\ \A i \in 1..Len(f[m]) : f[m + 1][i] = f[m][i]
          /\ Len(s[m + 1]) \in Nat /\ Len(f[m]) \in Nat /\ Len(f[k]) \in Nat
      <4>1. Both(f[m], s[m + 1], f[m + 1])
        <5>1. Both(f[m], s[m + 1], f[m] \o s[m + 1])
          BY Zenon, <3>3, ConcatFacts
        <5> QED BY Zenon, <3>3, <5>1
      <4> QED BY Zenon, <1>4, <4>1 DEF Both
    <3>5. Begins(m + 1)
      <4>1. Len(f[k]) <= Len(f[m]) /\ \A i \in 1..Len(f[k]) : f[m][i] = f[k][i]
        BY <3>2
      <4> DEFINE x == Len(f[k])
                 y == Len(f[m])
                 z == Len(s[m + 1])
      <4> HIDE DEF x, y, z
      <4>2. x <= y + z /\ \A i \in 1..x : i \in 1..y
        <5>1. x \in Nat /\ y \in Nat /\ z \in Nat /\ x <= y
          BY Zenon, <3>4, <4>1 DEF x, y, z
        <5> QED BY <5>1
      <4>3. Len(f[k]) <= Len(f[m + 1]) /\ \A i \in 1..Len(f[k]) : i \in 1..Len(f[m])
        BY Zenon, <3>4, <4>2 DEF x, y, z
      <4> QED BY Zenon, <3>4, <4>1, <4>3
    <3> QED BY <3>5 DEF m
  <2> HIDE DEF Begins
  <2>3. P = Nat
    <3>1. P \subseteq Nat
      OBVIOUS
    <3> HIDE DEF P
    <3> QED BY <2>1, <2>2, <3>1, NatIsReached
  <2>4. SUFFICES ASSUME NEW m \in 1..Len(s), k <= m PROVE Begins(m)
    BY DEF Begins
  <2>5. m - k \in P /\ k + (m - k) = m /\ m <= Len(s)
    <3> HIDE DEF P
    <3> QED BY <1>1, <2>3, <2>4
  <2> QED BY <2>5
<1> QED BY <1>3, <1>4, <1>5

\* at says where each of the sequences s starts in what they are together.
Laid(s, flat, at) ==
  /\ at[1] = 1 /\ at[Len(s) + 1] = Len(flat) + 1
  /\ \A k \in 1..Len(s) :
       /\ at[k] \in Nat \ {0} /\ at[k + 1] = at[k] + Len(s[k]) /\ at[k + 1] <= Len(flat) + 1
       /\ \A i \in 1..Len(s[k]) : flat[at[k] + i - 1] = s[k][i]

\* Flattened sequences lie one after the other.
LEMMA FlatFacts ==
  ASSUME NEW T, NEW s \in Seq(Seq(T))
  PROVE  Len(FlattenSeq(s)) \in Nat /\ \E at : Laid(s, FlattenSeq(s), at)
<1>1. Len(s) \in Nat /\ \A k \in 1..Len(s) : s[k] \in Seq(T) /\ Len(s[k]) \in Nat
  OBVIOUS
<1>2. CASE Len(s) = 0
  <2>1. FlattenSeq(s) = s
    BY <1>2 DEF FlattenSeq
  <2> DEFINE at == [k \in {1} |-> 1]
  <2>2. Laid(s, s, at)
    BY <1>2 DEF Laid
  <2> QED BY <1>1, <2>1, <2>2
<1>3. CASE Len(s) # 0
  <2> DEFINE f == CHOOSE f : f = [i \in 1..Len(s) |-> IF i = 1 THEN s[i] ELSE f[i - 1] \o s[i]]
  <2>1. FlattenSeq(s) = f[Len(s)]
    BY <1>3 DEF FlattenSeq
  <2>2. f = [i \in 1..Len(s) |-> IF i = 1 THEN s[i] ELSE f[i - 1] \o s[i]]
    BY JoinsExist, Zenon
  <2> HIDE DEF f
  <2>3. Joins(s, Len(s), f)
    BY <2>2 DEF Joins
  <2>4. /\ \A k \in 1..Len(s) : f[k] \in Seq(T) /\ Len(f[k]) \in Nat
        /\ \A k \in 1..Len(s), m \in 1..Len(s) : k <= m =>
             /\ Len(f[k]) <= Len(f[m])
             /\ \A i \in 1..Len(f[k]) : f[m][i] = f[k][i]
    BY <2>3, JoinFacts
  <2> DEFINE n == Len(s)
             flat == f[n]
             at == [k \in 1..(n + 1) |-> IF k = 1 THEN 1 ELSE Len(f[k - 1]) + 1]
  <2>5. at[1] = 1 /\ \A k \in 1..n : at[k + 1] = Len(f[k]) + 1
    BY <1>1
  <2> HIDE DEF at
  <2>6. ASSUME NEW k \in 1..n
        PROVE  /\ at[k] \in Nat \ {0} /\ at[k + 1] = at[k] + Len(s[k]) /\ at[k + 1] <= Len(flat) + 1
               /\ \A i \in 1..Len(s[k]) : flat[at[k] + i - 1] = s[k][i]
    <3>1. n \in 1..n /\ k <= n /\ n \in Nat
      BY <1>1
    <3>2. /\ Len(f[k]) <= Len(flat) /\ Len(f[k]) \in Nat /\ Len(flat) \in Nat
          /\ \A i \in 1..Len(f[k]) : flat[i] = f[k][i]
      BY <2>4, <3>1
    <3>3. CASE k = 1
      <4>1. f[k] = s[k]
        BY <2>3, <3>3 DEF Joins
      <4>2. at[k] = 1 /\ at[k + 1] = Len(f[k]) + 1
        BY <2>5, <3>3
      <4> QED BY <3>2, <4>1, <4>2
    <3>4. CASE k # 1
      <4>1. k - 1 \in 1..n /\ (k - 1) + 1 = k
        BY <3>1, <3>4
      <4>2. f[k] = f[k - 1] \o s[k] /\ f[k - 1] \in Seq(T) /\ s[k] \in Seq(T)
        BY <1>1, <2>3, <2>4, <3>4, <4>1 DEF Joins
      <4>3. /\ Len(f[k]) = Len(f[k - 1]) + Len(s[k]) /\ Len(f[k - 1]) \in Nat /\ Len(s[k]) \in Nat
            /\ \A i \in 1..Len(s[k]) : f[k][Len(f[k - 1]) + i] = s[k][i]
        <5>1. Both(f[k - 1], s[k], f[k - 1] \o s[k])
          BY Zenon, <4>2, ConcatFacts
        <5>2. Both(f[k - 1], s[k], f[k])
          BY Zenon, <4>2, <5>1
        <5> QED BY Zenon, <5>2 DEF Both
      <4>4. at[k] = Len(f[k - 1]) + 1 /\ at[k + 1] = Len(f[k]) + 1
        BY <2>5, <4>1
      <4>5. ASSUME NEW i \in 1..Len(s[k]) PROVE flat[at[k] + i - 1] = s[k][i]
        <5>1. /\ (Len(f[k - 1]) + 1) + i - 1 = Len(f[k - 1]) + i
              /\ Len(f[k - 1]) + i \in 1..(Len(f[k - 1]) + Len(s[k]))
          BY Zenon, <4>3, PlaceInPart
        <5> QED BY Zenon, <3>2, <4>3, <4>4, <5>1
      <4>6. at[k] \in Nat \ {0} /\ at[k + 1] = at[k] + Len(s[k]) /\ at[k + 1] <= Len(flat) + 1
        <5>1. Len(f[k]) <= Len(flat) /\ Len(f[k]) \in Nat /\ Len(flat) \in Nat
          BY <3>2
        <5>2. Len(f[k]) = Len(f[k - 1]) + Len(s[k]) /\ Len(f[k - 1]) \in Nat /\ Len(s[k]) \in Nat
          BY <4>3
        <5> DEFINE x == Len(f[k - 1])
                   y == Len(f[k])
                   z == Len(s[k])
                   w == Len(flat)
                   a == at[k]
                   b == at[k + 1]
        <5>3. /\ x \in Nat /\ y \in Nat /\ z \in Nat /\ w \in Nat
              /\ a = x + 1 /\ b = y + 1 /\ y = x + z /\ y <= w
          BY Zenon, <4>4, <5>1, <5>2
        <5> HIDE DEF x, y, z, w, a, b
        <5>4. a \in Nat \ {0} /\ b = a + z /\ b <= w + 1
          BY <5>3
        <5> QED BY Zenon, <5>4 DEF a, b, z, w
      <4> QED BY Zenon, <4>5, <4>6
    <3> QED BY <3>3, <3>4
  <2>7. n \in 1..n
    BY <1>1, <1>3
  <2>8. at[n + 1] = Len(flat) + 1 /\ Len(flat) \in Nat
    BY <2>4, <2>5, <2>7
  <2>9. Laid(s, flat, at)
    BY Zenon, <2>5, <2>6, <2>8 DEF Laid
  <2> QED BY <2>1, <2>8, <2>9
<1> QED BY <1>2, <1>3

(* The file, line by line. *)

Tokens == (UNION {Range(line) : line \in HeaderLines \cup Lines}) \ {Newline}

LinesTyped == lines \in Seq(Seq(Tokens)) /\ ended \in BOOLEAN

Pieces == [k \in DOMAIN lines |->
             IF k = Len(lines) /\ ~ended THEN lines[k] ELSE Append(lines[k], Newline)]

\* at[k] is the place where line k starts; at the end, where parse() stops.
StartsIn(ls, closed, file, past, at) ==
  /\ at[1] = 1 /\ at[Len(ls) + 1] >= past
  /\ \A k \in 1..Len(ls) :
       /\ at[k] \in Nat \ {0} /\ at[k + 1] = at[k] + Len(ls[k]) + 1
       /\ \A i \in 1..Len(ls[k]) : file[at[k] + i - 1] = ls[k][i]
       /\ IF k = Len(ls) /\ ~closed
          THEN at[k] + Len(ls[k]) = past
          ELSE at[k] + Len(ls[k]) \in 1..Len(file) /\ file[at[k] + Len(ls[k])] = Newline

Starts(at) == StartsIn(lines, ended, File, Past, at)

StartOf(ls, closed, file, past) == CHOOSE at : StartsIn(ls, closed, file, past, at)

LineAt == StartOf(lines, ended, File, Past)

\* What a line may hold is a sequence of tokens.
LEMMA LineTypes == HeaderLines \cup Lines \subseteq Seq(Tokens)
<1>1. SUFFICES ASSUME NEW line \in HeaderLines \cup Lines PROVE line \in Seq(Tokens)
  OBVIOUS
<1>2. line \in Seq(Range(line) \ {Newline})
  BY ParserAssumption
<1>3. Range(line) \ {Newline} \subseteq Tokens
  BY DEF Tokens
<1> QED BY <1>2, <1>3, SeqMonotonic

\* The file is typed, and the lines have places in it.
LEMMA FileFacts ==
  ASSUME LinesTyped
  PROVE  /\ Len(File) \in Nat /\ Past = Len(File) + 1
         /\ Len(lines) \in Nat
         /\ \A k \in 1..Len(lines) : lines[k] \in Seq(Tokens) /\ Len(lines[k]) \in Nat
         /\ Starts(LineAt)
<1> DEFINE T == Tokens \cup {Newline}
<1>1. /\ Len(lines) \in Nat /\ DOMAIN lines = 1..Len(lines)
      /\ \A k \in 1..Len(lines) : lines[k] \in Seq(Tokens) /\ Len(lines[k]) \in Nat
  BY LenProperties DEF LinesTyped
<1>2. \A k \in 1..Len(lines) : lines[k] \in Seq(T) /\ Append(lines[k], Newline) \in Seq(T)
  <2>1. SUFFICES ASSUME NEW k \in 1..Len(lines)
                 PROVE  lines[k] \in Seq(T) /\ Append(lines[k], Newline) \in Seq(T)
    OBVIOUS
  <2>2. lines[k] \in Seq(T)
    BY <1>1, SeqMonotonic
  <2> QED BY <2>2, AppendProperties
<1> HIDE DEF T
<1>3. Pieces \in Seq(Seq(T)) /\ Len(Pieces) = Len(lines)
  <2>1. \A k \in 1..Len(lines) : Pieces[k] \in Seq(T)
    BY Zenon, <1>1, <1>2 DEF Pieces
  <2>2. Pieces = [k \in 1..Len(lines) |-> Pieces[k]]
    BY <1>1 DEF Pieces
  <2>3. Pieces \in [1..Len(lines) -> Seq(T)]
    BY <2>1, <2>2
  <2> QED BY <1>1, <2>3, SeqDef
<1>4. File = FlattenSeq(Pieces)
  BY DEF File, Pieces
<1>5. Len(File) \in Nat /\ \E at : Laid(Pieces, File, at)
  BY <1>3, <1>4, FlatFacts
<1>6. PICK at : Laid(Pieces, File, at)
  BY <1>5
<1>7. Past = Len(File) + 1
  BY DEF Past
<1> DEFINE n == Len(lines)
           open == n # 0 /\ ~ended
           st == [k \in 1..(n + 1) |-> IF k = n + 1 /\ open THEN at[k] + 1 ELSE at[k]]
<1> HIDE DEF open
<1>8. /\ \A k \in 1..n : st[k] = at[k]
      /\ st[n + 1] = IF open THEN at[n + 1] + 1 ELSE at[n + 1]
  BY <1>1
<1> HIDE DEF st
<1>9. /\ at[1] = 1 /\ at[n + 1] = Past
      /\ \A k \in 1..n : at[k] \in Nat \ {0} /\ at[k + 1] = at[k] + Len(Pieces[k]) /\ at[k + 1] <= Past
      /\ \A k \in 1..n : \A i \in 1..Len(Pieces[k]) : File[at[k] + i - 1] = Pieces[k][i]
  BY Zenon, <1>3, <1>6, <1>7 DEF Laid
<1>10. ASSUME NEW k \in 1..n
       PROVE  /\ st[k] \in Nat \ {0} /\ st[k + 1] = st[k] + Len(lines[k]) + 1
              /\ \A i \in 1..Len(lines[k]) : File[st[k] + i - 1] = lines[k][i]
              /\ IF k = Len(lines) /\ ~ended
                 THEN st[k] + Len(lines[k]) = Past
                 ELSE st[k] + Len(lines[k]) \in 1..Len(File) /\ File[st[k] + Len(lines[k])] = Newline
  <2>1. /\ at[k] \in Nat \ {0} /\ at[k + 1] = at[k] + Len(Pieces[k]) /\ at[k + 1] <= Past
        /\ \A i \in 1..Len(Pieces[k]) : File[at[k] + i - 1] = Pieces[k][i]
        /\ st[k] = at[k] /\ n \in Nat /\ Len(lines[k]) \in Nat
    BY <1>1, <1>8, <1>9
  <2>2. CASE k = n /\ ~ended
    <3>1. Pieces[k] = lines[k]
      BY <1>1, <2>2 DEF Pieces
    <3>2. open
      BY <2>1, <2>2 DEF open
    <3>3. at[k + 1] = Past /\ st[k + 1] = at[k + 1] + 1
      BY <1>8, <1>9, <2>2, <3>2
    <3> QED BY <2>1, <2>2, <3>1, <3>3
  <2>3. CASE ~(k = n /\ ~ended)
    <3>1. Pieces[k] = Append(lines[k], Newline)
      BY Zenon, <1>1, <2>3 DEF Pieces
    <3>2. /\ Len(Pieces[k]) = Len(lines[k]) + 1 /\ Pieces[k][Len(lines[k]) + 1] = Newline
          /\ \A i \in 1..Len(lines[k]) : Pieces[k][i] = lines[k][i]
      BY <1>1, <3>1, AppendProperties
    <3>3. st[k + 1] = at[k + 1]
      <4>1. CASE k = n
        BY <1>8, <2>3, <4>1 DEF open
      <4>2. CASE k # n
        <5>1. k + 1 \in 1..n
          BY <2>1, <4>2
        <5> QED BY <1>8, <5>1
      <4> QED BY <4>1, <4>2
    <3>4. File[at[k] + (Len(lines[k]) + 1) - 1] = Newline
      <4>1. Len(lines[k]) + 1 \in 1..Len(Pieces[k])
        BY <2>1, <3>2
      <4> QED BY Zenon, <2>1, <3>2, <4>1
    <3>5. /\ at[k] \in Nat \ {0} /\ at[k + 1] = at[k] + (Len(lines[k]) + 1) /\ at[k + 1] <= Past
          /\ Len(lines[k]) \in Nat /\ Past = Len(File) + 1 /\ Len(File) \in Nat
      BY Zenon, <1>5, <1>7, <2>1, <3>2
    <3> DEFINE p == at[k]
               q == at[k + 1]
               m == Len(lines[k])
               l == Len(File)
    <3>6. /\ p + (m + 1) - 1 = p + m /\ p + m \in 1..l /\ q = p + m + 1
          /\ \A i \in 1..m : i \in 1..(m + 1)
      <4>1. p \in Nat \ {0} /\ q = p + (m + 1) /\ q <= l + 1 /\ m \in Nat /\ l \in Nat
        BY Zenon, <3>5
      <4> HIDE DEF p, q, m, l
      <4> QED BY <4>1
    <3>7. \A i \in 1..Len(lines[k]) : File[st[k] + i - 1] = lines[k][i]
      BY Zenon, <2>1, <3>2, <3>6
    <3>8. st[k + 1] = st[k] + Len(lines[k]) + 1
      BY Zenon, <2>1, <3>3, <3>6
    <3> QED BY Zenon, <2>1, <2>3, <3>4, <3>6, <3>7, <3>8
  <2> QED BY <2>2, <2>3
<1>11. st[1] = 1 /\ st[n + 1] >= Past
  <2>1. CASE n = 0
    BY <1>5, <1>7, <1>8, <1>9, <2>1 DEF open
  <2>2. CASE n # 0
    <3>1. 1 \in 1..n
      BY <1>1, <2>2
    <3> QED BY <1>5, <1>7, <1>8, <1>9, <3>1
  <2> QED BY <2>1, <2>2
<1>12. Starts(st)
  BY Zenon, <1>10, <1>11 DEF Starts, StartsIn
<1>13. Starts(LineAt)
  BY Zenon, <1>12 DEF LineAt, StartOf, Starts
<1> QED BY <1>1, <1>5, <1>7, <1>13

\* memchr and strchr stop at the first token they look for.
LEMMA FoundFacts ==
  ASSUME LinesTyped, NEW token, NEW p \in Nat \ {0}
  PROVE  /\ \A q \in p..Len(File) :
              File[q] = token /\ (\A r \in p..(q - 1) : File[r] # token) => Found(token, p) = q
         /\ (\A q \in p..Len(File) : File[q] # token) => Found(token, p) = 0
<1> DEFINE at == {q \in p..Len(File) : File[q] = token}
<1>1. Len(File) \in Nat
  BY FileFacts
<1>2. ASSUME NEW q \in p..Len(File), File[q] = token, \A r \in p..(q - 1) : File[r] # token
      PROVE  Found(token, p) = q
  <2>1. q \in at /\ at # {}
    BY <1>2
  <2>2. \A r \in at : q <= r
    <3>1. SUFFICES ASSUME NEW r \in p..Len(File), File[r] = token, r < q PROVE FALSE
      BY <1>1, <1>2
    <3>2. r \in p..(q - 1)
      BY <1>1, <3>1
    <3> QED BY <1>2, <3>1, <3>2
  <2>4. Min(at) = q
    <3>1. at \in SUBSET Int
      BY <1>1
    <3> HIDE DEF at
    <3> QED BY Zenon, <2>1, <2>2, <3>1, MinIs
  <2>5. Found(token, p) = IF at = {} THEN 0 ELSE Min(at)
    BY DEF Found
  <2> HIDE DEF at
  <2> QED BY <2>1, <2>4, <2>5
<1>3. ASSUME \A q \in p..Len(File) : File[q] # token PROVE Found(token, p) = 0
  BY <1>3 DEF Found
<1> QED BY <1>2, <1>3

\* The end of a line is found from its start, and behind it the next line starts.
\* Only at an empty last line is the file at its end already.
LEMMA LineFacts ==
  ASSUME LinesTyped, NEW k \in 1..Len(lines)
  PROVE  /\ LineAt[k] \in Nat \ {0} /\ LineAt[k] <= Past
         /\ LineAt[k] = Past <=> k = Len(lines) /\ ~ended /\ Len(lines[k]) = 0
         /\ Found(Newline, LineAt[k]) = IF k = Len(lines) /\ ~ended THEN 0 ELSE LineAt[k + 1] - 1
         /\ NextLine(LineAt[k]) = LineAt[k + 1] /\ LineAt[k + 1] \in Nat \ {0}
<1> DEFINE p == LineAt[k]
           m == Len(lines[k])
           last == k = Len(lines) /\ ~ended
<1>1. /\ Len(File) \in Nat /\ Past = Len(File) + 1
      /\ lines[k] \in Seq(Tokens) /\ m \in Nat
      /\ p \in Nat \ {0} /\ LineAt[k + 1] = p + m + 1
      /\ \A i \in 1..m : File[p + i - 1] = lines[k][i]
      /\ IF last THEN p + m = Past ELSE p + m \in 1..Len(File) /\ File[p + m] = Newline
  BY FileFacts DEF Starts, StartsIn
<1>2. \A r \in p..(p + m - 1) : File[r] # Newline
  <2>1. SUFFICES ASSUME NEW r \in p..(p + m - 1) PROVE File[r] # Newline
    OBVIOUS
  <2>2. r - p + 1 \in 1..m /\ p + (r - p + 1) - 1 = r
    <3>1. p \in Nat /\ m \in Nat
      BY <1>1
    <3> QED BY Zenon, <2>1, <3>1, PlaceInPart
  <2>3. File[r] = lines[k][r - p + 1]
    BY <1>1, <2>2
  <2>4. lines[k][r - p + 1] \in Tokens
    BY <1>1, <2>2, ElementOfSeq
  <2> QED BY <2>3, <2>4 DEF Tokens
<1> HIDE DEF p, m, last
<1>3. Found(Newline, p) = IF last THEN 0 ELSE p + m
  <2>1. CASE last
    <3>1. Len(File) = p + m - 1
      BY <1>1, <2>1
    <3> QED BY <1>1, <1>2, <2>1, <3>1, FoundFacts
  <2>2. CASE ~last
    <3>1. p + m \in p..Len(File) /\ File[p + m] = Newline
      BY <1>1, <2>2
    <3> QED BY <1>1, <1>2, <2>2, <3>1, FoundFacts
  <2> QED BY <2>1, <2>2
<1>4. NextLine(p) = p + m + 1
  BY <1>1, <1>3 DEF NextLine, LineEnd
<1>5. p <= Past /\ (p = Past <=> last /\ m = 0)
  BY <1>1
<1> QED BY <1>1, <1>3, <1>4, <1>5 DEF p, m, last

\* A number that fits stays what it is.
LEMMA Fits ==
  /\ Int32Max \in Nat /\ UInt64Max \in Nat /\ Int32Max <= UInt64Max
  /\ \A x \in 0..Int32Max : Int32(x) = x
  /\ \A p : Parsed(p) \in 0..Int32Max => strtol(p) = Parsed(p)
  /\ \A p : Parsed(p) \in 0..UInt64Max => strtoull(p) = Parsed(p)
<1>1. /\ Int32Max \in Nat /\ Int64Max \in Nat /\ Int32Max <= Int64Max
  BY Zenon, ParserAssumption
<1>2. Modulus \in Nat \ {0} /\ \A x \in 0..Int32Max : x + Int32Max + 1 \in 0..(Modulus - 1)
  BY <1>1 DEF Modulus
<1>3. ASSUME NEW m \in Nat \ {0}, NEW z \in 0..(m - 1) PROVE z % m = z
  OBVIOUS
<1>4. \A z \in 0..(Modulus - 1) : z % Modulus = z
  BY Zenon, <1>2, <1>3
<1>5. ASSUME NEW x \in 0..Int32Max PROVE Int32(x) = x
  <2>1. (x + Int32Max + 1) % Modulus = x + Int32Max + 1
    BY Zenon, <1>2, <1>4
  <2>2. Int32(x) = (x + Int32Max + 1) - (Int32Max + 1)
    BY Zenon, <2>1 DEF Int32
  <2>3. (x + Int32Max + 1) - (Int32Max + 1) = x
    BY <1>1
  <2> QED BY Zenon, <2>2, <2>3
<1>6. UInt64Max \in Nat /\ Int32Max <= UInt64Max
  BY <1>1 DEF UInt64Max
<1>7. ASSUME NEW p, Parsed(p) \in 0..Int32Max PROVE strtol(p) = Parsed(p)
  <2> DEFINE n == Parsed(p)
  <2>1. n \in 0..Int32Max
    BY <1>7
  <2> HIDE DEF n
  <2>2. ~(n > Int64Max) /\ ~(n < -Int64Max - 1)
    BY <1>1, <2>1
  <2> QED BY Zenon, <2>2 DEF n, strtol
<1>8. ASSUME NEW p, Parsed(p) \in 0..UInt64Max PROVE strtoull(p) = Parsed(p)
  <2> DEFINE n == Parsed(p)
  <2>1. n \in 0..UInt64Max
    BY <1>8
  <2> HIDE DEF n
  <2>2. n \in (-UInt64Max)..UInt64Max /\ UInt64Max + 1 \in Nat \ {0} /\ n \in 0..((UInt64Max + 1) - 1)
    BY <1>6, <2>1
  <2>3. n % (UInt64Max + 1) = n
    BY Zenon, <1>3, <2>2
  <2> QED BY Zenon, <2>2, <2>3 DEF n, strtoull
<1> QED BY Zenon, <1>1, <1>5, <1>6, <1>7, <1>8

\* In a well formed line the six fields are found where they are, and read as they
\* stand there.
LEMMA MessageIsRow ==
  ASSUME LinesTyped, NEW k \in 1..Len(lines), WellFormed(lines[k])
  PROVE  Fields(LineAt[k])[5] # 0 /\ Message(LineAt[k]) = Row(lines[k])
<1> DEFINE p == LineAt[k]
           line == lines[k]
<1>1. /\ Len(File) \in Nat /\ Past = Len(File) + 1 /\ p \in Nat \ {0} /\ Len(line) >= 11
      /\ Len(line) \in Nat /\ p + Len(line) <= Past
  <2>1. /\ Len(File) \in Nat /\ Past = Len(File) + 1 /\ p \in Nat \ {0}
        /\ Len(line) \in Nat
        /\ IF k = Len(lines) /\ ~ended THEN p + Len(line) = Past ELSE p + Len(line) \in 1..Len(File)
    BY FileFacts DEF Starts, StartsIn
  <2>2. Len(line) >= 11
    BY DEF WellFormed
  <2> HIDE DEF p, line
  <2> QED BY <2>1, <2>2
<1>a. \A i \in 1..Len(line) : File[p + i - 1] = line[i]
  BY FileFacts DEF Starts, StartsIn
<1>2. /\ line[1] # Comma /\ line[3] # Comma /\ line[5] # Comma /\ line[7] # Comma /\ line[9] # Comma
      /\ line[2] = Comma /\ line[4] = Comma /\ line[6] = Comma /\ line[8] = Comma /\ line[10] = Comma
      /\ line[1][1] = "n" /\ line[7][1] = "n" /\ line[9][1] = "n" /\ line[11][1] = "n"
      /\ line[7][2] \in 0..Int32Max /\ line[9][2] \in 0..Int32Max
      /\ line[1][2] \in 0..UInt64Max /\ line[11][2] \in 0..UInt64Max
  BY DEF WellFormed
<1> HIDE DEF p, line
<1>3. ASSUME NEW i \in 1..11
      PROVE  p + i - 1 \in 1..Len(File) /\ File[p + i - 1] = line[i]
  <2>1. p + i - 1 \in 1..Len(File) /\ i \in 1..Len(line)
    BY <1>1
  <2> QED BY Zenon, <1>a, <2>1
<1>4. ASSUME NEW i \in 1..9, line[i] # Comma, line[i + 1] = Comma
      PROVE  Behind(p + i - 1) = p + i + 1
  <2> DEFINE r == p + i - 1
  <2>1. /\ r \in Nat \ {0} /\ r + 1 = p + (i + 1) - 1
        /\ r \in 1..Len(File) /\ r + 1 \in r..Len(File)
        /\ File[r] = line[i] /\ File[r + 1] = line[i + 1]
    <3>1. i \in 1..11 /\ i + 1 \in 1..11 /\ p + (i + 1) - 1 = r + 1 /\ r \in Nat \ {0}
      BY <1>1
    <3>2. r \in 1..Len(File) /\ File[r] = line[i]
      BY Zenon, <1>3, <3>1
    <3>3. p + (i + 1) - 1 \in 1..Len(File) /\ File[p + (i + 1) - 1] = line[i + 1]
      BY Zenon, <1>3, <3>1
    <3>4. r + 1 \in 1..Len(File) /\ File[r + 1] = line[i + 1]
      BY Zenon, <3>1, <3>3
    <3> HIDE DEF r
    <3>5. r + 1 \in r..Len(File)
      BY <1>1, <3>1, <3>4
    <3> QED BY Zenon, <3>1, <3>2, <3>4, <3>5
  <2>2. p + i + 1 = (r + 1) + 1
    BY <1>1
  <2> HIDE DEF r
  <2>3. \A q \in r..((r + 1) - 1) : File[q] # Comma
    BY <1>4, <2>1
  <2>4. Found(Comma, r) = r + 1
    BY <1>4, <2>1, <2>3, FoundFacts
  <2>5. r # 0 /\ r + 1 # 0
    BY <2>1
  <2>6. Behind(r) = (r + 1) + 1
    BY Zenon, <2>4, <2>5 DEF Behind
  <2> QED BY <2>2, <2>6 DEF r
<1>5. Fields(p) = <<p + 2, p + 4, p + 6, p + 8, p + 10>>
  <2>1. /\ p + 1 - 1 = p /\ p + 1 + 1 = p + 2
        /\ p + 3 - 1 = p + 2 /\ p + 3 + 1 = p + 4
        /\ p + 5 - 1 = p + 4 /\ p + 5 + 1 = p + 6
        /\ p + 7 - 1 = p + 6 /\ p + 7 + 1 = p + 8
        /\ p + 9 - 1 = p + 8 /\ p + 9 + 1 = p + 10
    BY <1>1
  <2>2. /\ Behind(p + 1 - 1) = p + 1 + 1 /\ Behind(p + 3 - 1) = p + 3 + 1
        /\ Behind(p + 5 - 1) = p + 5 + 1 /\ Behind(p + 7 - 1) = p + 7 + 1
        /\ Behind(p + 9 - 1) = p + 9 + 1
    BY <1>2, <1>4
  <2>3. /\ Behind(p) = p + 2 /\ Behind(p + 2) = p + 4 /\ Behind(p + 4) = p + 6
        /\ Behind(p + 6) = p + 8 /\ Behind(p + 8) = p + 10
    BY Zenon, <2>1, <2>2
  <2> QED BY Zenon, <2>3 DEF Fields
<1>6. ASSUME NEW i \in 1..11 PROVE Char(p + i - 1) = line[i]
  <2>1. p + i - 1 \in 1..Len(File) /\ File[p + i - 1] = line[i]
    BY Zenon, <1>3
  <2>2. p + i - 1 < Past
    BY <1>1, <2>1
  <2> QED BY Zenon, <2>1, <2>2 DEF Char
<1>7. ASSUME NEW i \in 1..11, line[i][1] = "n" PROVE Parsed(p + i - 1) = line[i][2]
  <2> DEFINE r == p + i - 1
             digits == {q \in r..Len(File) : File[q] # Newline}
  <2>1. File[r] = line[i] /\ r \in 1..Len(File)
    BY <1>3
  <2>2. line[i] # Newline
    <3>1. Newline[1] = "nl" /\ "nl" # "n"
      BY DEF Newline
    <3> QED BY Zenon, <1>7, <3>1
  <2> HIDE DEF r
  <2>3. r \in digits /\ digits # {} /\ \A q \in digits : r <= q /\ q \in Int
    BY <1>1, <2>1, <2>2
  <2>4. Min(digits) = r
    <3>1. digits \in SUBSET Int
      BY <2>3
    <3> HIDE DEF digits
    <3> QED BY Zenon, <2>3, <3>1, MinIs
  <2>5. Parsed(r) = LET token == IF digits = {} THEN Null ELSE File[Min(digits)]
                    IN  IF token[1] = "n" THEN token[2] ELSE 0
    BY DEF Parsed
  <2> HIDE DEF digits
  <2>6. Parsed(r) = line[i][2]
    BY Zenon, <1>7, <2>1, <2>3, <2>4, <2>5
  <2> QED BY <2>6 DEF r
<1>8. /\ p + 1 - 1 = p /\ p + 3 - 1 = p + 2 /\ p + 5 - 1 = p + 4 /\ p + 7 - 1 = p + 6
      /\ p + 9 - 1 = p + 8 /\ p + 11 - 1 = p + 10 /\ p + 10 # 0
  BY <1>1
<1>9. Char(p + 2) = line[3] /\ Char(p + 4) = line[5]
  <2>1. Char(p + 3 - 1) = line[3] /\ Char(p + 5 - 1) = line[5]
    BY <1>6
  <2> QED BY Zenon, <1>8, <2>1
<1>10. /\ Parsed(p) = line[1][2] /\ Parsed(p + 6) = line[7][2]
       /\ Parsed(p + 8) = line[9][2] /\ Parsed(p + 10) = line[11][2]
  <2>1. /\ Parsed(p + 1 - 1) = line[1][2] /\ Parsed(p + 7 - 1) = line[7][2]
        /\ Parsed(p + 9 - 1) = line[9][2] /\ Parsed(p + 11 - 1) = line[11][2]
    BY <1>2, <1>7
  <2> QED BY Zenon, <1>8, <2>1
<1>11. /\ Int32(line[7][2]) = line[7][2] /\ Int32(line[9][2]) = line[9][2]
       /\ strtol(p + 6) = line[7][2] /\ strtoull(p + 8) = line[9][2]
       /\ strtoull(p) = line[1][2] /\ strtoull(p + 10) = line[11][2]
  <2>1. line[9][2] \in 0..UInt64Max
    <3>1. /\ Int32Max \in Nat /\ UInt64Max \in Nat /\ Int32Max <= UInt64Max
          /\ line[9][2] \in 0..Int32Max
      BY Zenon, <1>2, Fits
    <3> QED BY <3>1
  <2> QED BY Zenon, <1>2, <1>10, <2>1, Fits
<1>12. /\ Fields(p)[1] = p + 2 /\ Fields(p)[2] = p + 4 /\ Fields(p)[3] = p + 6
       /\ Fields(p)[4] = p + 8 /\ Fields(p)[5] = p + 10
  BY <1>5
<1>13. Message(p) = Row(line)
  BY Zenon, <1>9, <1>11, <1>12 DEF Message, Row
<1> QED BY <1>8, <1>12, <1>13 DEF p, line

(* What the parser has done. *)

ParserInStep ==
  LET j == skipped + Len(stream) IN
  /\ parser \in {"opening", "header", "lines", "parsed", "failed", "crashed"}
  /\ skipped \in 0..2 /\ j <= Len(lines)
  /\ current = LineAt[j + 1] /\ (j > 0 => LineAt[j] < Past)
  /\ parser \in {"opening", "header"} => Len(stream) = 0
  /\ skipped < 2 => Len(stream) = 0
  /\ parser \in {"lines", "parsed", "crashed"} =>
       skipped = 2 \/ (Len(lines) <= 2 /\ current >= Past)
  /\ parser = "parsed" => current >= Past
  /\ parser = "crashed" => current < Past /\ Fields(current)[5] = 0
  /\ \A k \in 1..Len(stream) : stream[k] = Message(LineAt[k + 2])

ParserIInv == IsSequence(stream) /\ LinesTyped /\ ParserInStep


\* Nothing that is read off the file changes.
LEMMA SameFile ==
  ASSUME UNCHANGED <<lines, ended>>
  PROVE  /\ LineAt' = LineAt /\ Past' = Past
         /\ \A p : Message(p)' = Message(p) /\ Fields(p)' = Fields(p)
<1>1. File' = File
  BY DEF File
<1>2. Past' = Past
  BY <1>1 DEF Past
<1>3. LineAt' = LineAt
  BY Zenon, <1>1, <1>2 DEF LineAt
<1>4. ASSUME NEW p PROVE Fields(p)' = Fields(p)
  <2>1. ASSUME NEW t, NEW q PROVE Found(t, q)' = Found(t, q)
    <3> DEFINE at == {r \in q..Len(File) : File[r] = t}
    <3>1. at' = at
      BY <1>1
    <3>2. Found(t, q) = IF at = {} THEN 0 ELSE Min(at)
      BY DEF Found
    <3>3. Found(t, q)' = IF at' = {} THEN 0 ELSE Min(at')
      BY DEF Found
    <3> HIDE DEF at
    <3> QED BY Zenon, <3>1, <3>2, <3>3
  <2>2. \A q : Behind(q)' = Behind(q)
    BY Zenon, <2>1 DEF Behind
  <2> QED BY Zenon, <2>2 DEF Fields
<1>5. ASSUME NEW p PROVE Message(p)' = Message(p)
  <2>1. \A q : Char(q)' = Char(q)
    BY Zenon, <1>1, <1>2 DEF Char
  <2>2. ASSUME NEW q PROVE Parsed(q)' = Parsed(q)
    <3> DEFINE digits == {r \in q..Len(File) : File[r] # Newline}
               token == IF digits = {} THEN Null ELSE File[Min(digits)]
    <3>1. digits' = digits
      BY <1>1
    <3> HIDE DEF digits
    <3>2. token' = token
      BY Zenon, <1>1, <3>1
    <3>3. Parsed(q) = IF token[1] = "n" THEN token[2] ELSE 0
      BY Zenon DEF Parsed, digits
    <3>4. Parsed(q)' = IF token'[1] = "n" THEN token'[2] ELSE 0
      BY Zenon DEF Parsed, digits
    <3> HIDE DEF token
    <3> QED BY Zenon, <3>2, <3>3, <3>4
  <2>3. \A q : strtoull(q)' = strtoull(q) /\ strtol(q)' = strtol(q)
    BY Zenon, <2>2 DEF strtoull, strtol
  <2> QED BY Zenon, <1>4, <2>1, <2>3 DEF Message
<1> QED BY <1>2, <1>3, <1>4, <1>5

\* What the constructor and the file leave to parse().
LEMMA ParserBegins == Init => ParserIInv
<1>1. SUFFICES ASSUME Init PROVE ParserIInv
  OBVIOUS
<1>2. LinesTyped
  <2>1. ASSUME NEW n \in Nat, NEW S, S \subseteq HeaderLines \cup Lines, NEW s \in [1..n -> S]
        PROVE  s \in Seq(Seq(Tokens))
    <3>1. s \in Seq(S)
      BY SeqDef
    <3>2. S \subseteq Seq(Tokens)
      BY <2>1, LineTypes
    <3> QED BY <3>1, <3>2, SeqMonotonic
  <2>2. lines \in Seq(Seq(Tokens))
    <3>1. CASE lines \in SeqOf(HeaderLines, 1)
      <4>1. PICK n \in 0..1 : lines \in [1..n -> HeaderLines]
        BY <3>1 DEF SeqOf
      <4>2. n \in Nat /\ HeaderLines \subseteq HeaderLines \cup Lines
        BY <4>1
      <4> QED BY <2>1, <4>1, <4>2
    <3>2. ASSUME NEW h \in TupleOf(HeaderLines, 2), NEW rows \in SeqOf(Lines, MaxRows),
                 lines = h \o rows
          PROVE  lines \in Seq(Seq(Tokens))
      <4>1. PICK n \in 0..MaxRows : rows \in [1..n -> Lines]
        BY <3>2 DEF SeqOf
      <4>2. n \in Nat /\ Lines \subseteq HeaderLines \cup Lines
        BY <4>1, ParserAssumption
      <4>3. rows \in Seq(Seq(Tokens))
        BY <2>1, <4>1, <4>2
      <4>4. h \in [1..2 -> HeaderLines] /\ 2 \in Nat /\ HeaderLines \subseteq HeaderLines \cup Lines
        BY DEF TupleOf
      <4>5. h \in Seq(Seq(Tokens))
        BY <2>1, <4>4
      <4> QED BY <3>2, <4>3, <4>5, ConcatProperties
    <3> QED BY <1>1, <3>1, <3>2 DEF Init
  <2> QED BY <1>1, <2>2 DEF Init, LinesTyped
<1>3. /\ parser = "opening" /\ current = 1 /\ skipped = 0 /\ stream = << >>
  BY <1>1 DEF Init
<1>4. Len(stream) = 0 /\ IsSequence(stream)
  BY <1>3, EmptyIsSequence, EmptySeq
<1>5. LineAt[1] = 1 /\ Len(lines) \in Nat
  BY <1>2, FileFacts DEF Starts, StartsIn
<1>6. ParserInStep
  BY <1>3, <1>4, <1>5 DEF ParserInStep
<1> QED BY <1>2, <1>4, <1>6 DEF ParserIInv

\* Where the parser is, there is a line, as long as it is not at the end.
LEMMA NextLineThere ==
  ASSUME ParserIInv
  PROVE  LET j == skipped + Len(stream) IN
         /\ j \in 0..Len(lines) /\ Len(stream) \in Nat /\ Len(lines) \in Nat
         /\ current \in Nat /\ Past \in Nat /\ current = LineAt[j + 1]
         /\ current < Past => j + 1 \in 1..Len(lines)
         /\ current = Past /\ j < Len(lines) =>
              j + 1 = Len(lines) /\ ~ended /\ Len(lines[j + 1]) = 0
<1> DEFINE j == skipped + Len(stream)
<1>1. Len(stream) \in Nat /\ Len(lines) \in Nat /\ LinesTyped
      /\ Past \in Nat /\ Starts(LineAt)
  BY LengthOfSequence, FileFacts DEF ParserIInv
<1>2. skipped \in 0..2 /\ j <= Len(lines) /\ current = LineAt[j + 1]
  BY DEF ParserIInv, ParserInStep
<1>3. j \in 0..Len(lines)
  BY <1>1, <1>2
<1> HIDE DEF j
<1>4. CASE j = Len(lines)
  <2>1. current >= Past
    BY <1>2, <1>1, <1>4 DEF Starts, StartsIn
  <2>2. current \in Nat
    <3>1. CASE Len(lines) = 0
      BY <1>1, <1>2, <1>4, <3>1 DEF Starts, StartsIn
    <3>2. CASE Len(lines) # 0
      <4>1. Len(lines) \in 1..Len(lines)
        BY <1>1, <3>2
      <4> QED BY <1>1, <1>2, <1>4, <4>1, LineFacts
    <3> QED BY <3>1, <3>2
  <2> QED BY <1>1, <1>2, <1>3, <1>4, <2>1, <2>2 DEF j
<1>5. CASE j # Len(lines)
  <2>1. j + 1 \in 1..Len(lines)
    BY <1>1, <1>3, <1>5
  <2>2. /\ current \in Nat
        /\ current = Past => j + 1 = Len(lines) /\ ~ended /\ Len(lines[j + 1]) = 0
    BY <1>1, <1>2, <2>1, LineFacts
  <2> QED BY <1>1, <1>2, <1>3, <2>1, <2>2 DEF j
<1> QED BY <1>4, <1>5

\* Each step of parse() moves on by a line, or ends a phase.
LEMMA ParserSteps ==
  ASSUME ParserIInv, Next
  PROVE  ParserIInv'
<1> DEFINE j == skipped + Len(stream)
           n == Len(lines)
<1>1. UNCHANGED <<lines, ended>>
  BY DEF Next, Open, SkipHeader, HeaderDone, ParseLine, ParseDone
<1>2. /\ LineAt' = LineAt /\ Past' = Past /\ Len(lines)' = Len(lines)
      /\ \A p : Message(p)' = Message(p) /\ Fields(p)' = Fields(p)
  BY <1>1, SameFile
<1>3. LinesTyped /\ LinesTyped'
  BY Zenon, <1>1 DEF ParserIInv, LinesTyped
<1>4. /\ j \in 0..n /\ Len(stream) \in Nat /\ n \in Nat
      /\ current \in Nat /\ Past \in Nat /\ current = LineAt[j + 1]
      /\ current < Past => j + 1 \in 1..n
      /\ current = Past /\ j < n => j + 1 = n
  BY NextLineThere
<1>5. /\ parser \in {"opening", "header", "lines", "parsed", "failed", "crashed"}
      /\ skipped \in 0..2 /\ (j > 0 => LineAt[j] < Past)
      /\ parser \in {"opening", "header"} => Len(stream) = 0
      /\ skipped < 2 => Len(stream) = 0
      /\ parser \in {"lines", "parsed", "crashed"} => skipped = 2 \/ (n <= 2 /\ current >= Past)
      /\ \A k \in 1..Len(stream) : stream[k] = Message(LineAt[k + 2])
      /\ IsSequence(stream)
  BY DEF ParserIInv, ParserInStep
<1>6. CASE UNCHANGED <<stream, skipped, current>> /\ Open
  <2>1. parser = "opening" /\ parser' \in {"header", "failed"}
    BY <1>6 DEF Open
  <2>2. IsSequence(stream)'
    BY Zenon, <1>5, <1>6 DEF IsSequence
  <2>3. ParserInStep'
    BY <1>2, <1>4, <1>5, <1>6, <2>1 DEF ParserInStep
  <2> QED BY <1>3, <2>2, <2>3 DEF ParserIInv
<1>7. CASE UNCHANGED <<stream, skipped, current>> /\ HeaderDone
  <2>1. parser = "header" /\ parser' = "lines" /\ (skipped = 2 \/ current = Past)
    BY <1>7 DEF HeaderDone
  <2>2. IsSequence(stream)'
    BY Zenon, <1>5, <1>7 DEF IsSequence
  <2>3. skipped # 2 => n <= 2 /\ current >= Past
    BY <1>4, <1>5, <2>1
  <2>4. ParserInStep'
    BY <1>2, <1>4, <1>5, <1>7, <2>1, <2>3 DEF ParserInStep
  <2> QED BY <1>3, <2>2, <2>4 DEF ParserIInv
<1>8. CASE UNCHANGED <<stream, skipped, current>> /\ ParseDone
  <2>1. parser = "lines" /\ parser' = "parsed" /\ current >= Past
    BY <1>8 DEF ParseDone
  <2>2. IsSequence(stream)'
    BY Zenon, <1>5, <1>8 DEF IsSequence
  <2>3. ParserInStep'
    BY <1>2, <1>4, <1>5, <1>8, <2>1 DEF ParserInStep
  <2> QED BY <1>3, <2>2, <2>3 DEF ParserIInv
<1>9. CASE SkipHeader
  <2>1. /\ parser = "header" /\ skipped < 2 /\ current < Past /\ stream' = stream
        /\ IF Found(Newline, current) = 0
           THEN parser' = "failed" /\ UNCHANGED <<current, skipped>>
           ELSE /\ current' = Found(Newline, current) + 1 /\ skipped' = skipped + 1
                /\ parser' = parser
    BY <1>9 DEF SkipHeader
  <2>2. IsSequence(stream)'
    BY Zenon, <1>5, <2>1 DEF IsSequence
  <2>3. CASE Found(Newline, current) = 0
    <3>1. ParserInStep'
      BY <1>2, <1>4, <1>5, <2>1, <2>3 DEF ParserInStep
    <3> QED BY <1>3, <2>2, <3>1 DEF ParserIInv
  <2>4. CASE Found(Newline, current) # 0
    <3>1. j + 1 \in 1..n /\ current = LineAt[j + 1]
      BY <1>4, <2>1
    <3>2. Found(Newline, current) = LineAt[j + 2] - 1 /\ LineAt[j + 2] \in Nat
      <4>1. (j + 1) + 1 = j + 2
        BY <1>4
      <4> QED BY <1>3, <2>4, <3>1, <4>1, LineFacts
    <3>3. current' = LineAt[j + 2] /\ skipped' + Len(stream') = j + 1 /\ Len(stream') = 0
      BY <1>4, <1>5, <2>1, <2>4, <3>2
    <3>4. ParserInStep'
      <4> HIDE DEF j
      <4>1. (j + 1) + 1 = j + 2 /\ j + 1 <= n /\ skipped' \in 0..2 /\ parser' = "header"
        BY <1>4, <1>5, <2>1, <2>4, <3>1
      <4>2. LineAt'[j + 1] < Past'
        BY <1>2, <2>1, <3>1
      <4>3. \A k \in 1..Len(stream') : FALSE
        BY <3>3
      <4> QED BY <1>2, <3>3, <4>1, <4>2, <4>3 DEF ParserInStep
    <3> QED BY <1>3, <2>2, <3>4 DEF ParserIInv
  <2> QED BY <2>3, <2>4
<1>10. CASE ParseLine
  <2>1. /\ parser = "lines" /\ current < Past /\ skipped' = skipped
        /\ IF Fields(current)[5] = 0
           THEN parser' = "crashed" /\ UNCHANGED <<current, stream>>
           ELSE /\ stream' = Append(stream, Message(current))
                /\ current' = NextLine(current)
                /\ parser' = parser
    BY <1>10 DEF ParseLine
  <2>2. skipped = 2
    BY <1>4, <1>5, <2>1
  <2>3. CASE Fields(current)[5] = 0
    <3>1. IsSequence(stream)'
      BY Zenon, <1>5, <2>1, <2>3 DEF IsSequence
    <3>2. ParserInStep'
      BY <1>2, <1>4, <1>5, <2>1, <2>2, <2>3 DEF ParserInStep
    <3> QED BY <1>3, <3>1, <3>2 DEF ParserIInv
  <2>4. CASE Fields(current)[5] # 0
    <3>1. j + 1 \in 1..n /\ current = LineAt[j + 1] /\ j = Len(stream) + 2
      BY <1>4, <2>1, <2>2
    <3>2. NextLine(current) = LineAt[j + 2]
      <4>1. (j + 1) + 1 = j + 2
        BY <1>4
      <4> QED BY <1>3, <3>1, <4>1, LineFacts
    <3>3. /\ IsSequence(stream') /\ Len(stream') = Len(stream) + 1
          /\ \A k \in 1..Len(stream) : stream'[k] = stream[k]
          /\ stream'[Len(stream) + 1] = Message(current)
      <4>1. stream' = Append(stream, Message(current))
        BY <2>1, <2>4
      <4>2. OneMore(stream, Message(current), Append(stream, Message(current)))
        BY Zenon, <1>5, AppendFacts
      <4>3. OneMore(stream, Message(current), stream')
        BY Zenon, <4>1, <4>2
      <4> QED BY Zenon, <4>3 DEF OneMore
    <3>4. current' = LineAt[j + 2] /\ skipped' + Len(stream') = j + 1 /\ parser' = "lines"
      <4>1. current' = LineAt[j + 2] /\ skipped' = skipped /\ parser' = "lines"
        BY Zenon, <2>1, <2>4, <3>2
      <4>2. Len(stream') = Len(stream) + 1
        BY Zenon, <3>3
      <4>3. skipped + (Len(stream) + 1) = j + 1
        BY <1>4, <1>5
      <4> QED BY Zenon, <4>1, <4>2, <4>3
    <3>5. \A k \in 1..Len(stream') : stream'[k] = Message(LineAt[k + 2])
      <4>1. SUFFICES ASSUME NEW k \in 1..(Len(stream) + 1) PROVE stream'[k] = Message(LineAt[k + 2])
        BY <3>3
      <4>2. CASE k = Len(stream) + 1
        <5>1. k + 2 = j + 1
          BY <1>4, <3>1, <4>2
        <5> QED BY Zenon, <3>1, <3>3, <4>2, <5>1
      <4>3. CASE k # Len(stream) + 1
        <5>1. k \in 1..Len(stream)
          BY <1>4, <4>3
        <5> QED BY <1>5, <3>3, <5>1
      <4> QED BY <4>2, <4>3
    <3>6. ParserInStep'
      <4> HIDE DEF j
      <4>1. (j + 1) + 1 = j + 2 /\ j + 1 <= n /\ skipped' = 2 /\ j \in Nat
        BY <1>4, <2>1, <2>2, <3>1
      <4>2. LineAt'[j + 1] < Past'
        BY <1>2, <2>1, <3>1
      <4>3. \A k \in 1..Len(stream') : stream'[k] = (Message(LineAt[k + 2]))'
        BY Zenon, <1>2, <3>5
      <4> QED BY <1>2, <3>4, <4>1, <4>2, <4>3 DEF ParserInStep
    <3> QED BY <1>3, <3>3, <3>6 DEF ParserIInv
  <2> QED BY <2>3, <2>4
<1>11. Open \/ HeaderDone \/ ParseDone => UNCHANGED <<stream, skipped, current>>
  BY DEF Open, HeaderDone, ParseDone
<1> QED BY <1>6, <1>7, <1>8, <1>9, <1>10, <1>11 DEF Next

\* The lines behind the first two, without an empty rest of the file.
Body == SubSeq(lines, 3, Len(lines))
Rows == IF Body # << >> /\ Last(Body) = << >> /\ ~ended THEN Front(Body) ELSE Body

EmptyRest == ~ended /\ Len(lines[Len(lines)]) = 0
RowCount  == IF Len(lines) < 3 THEN 0 ELSE IF EmptyRest THEN Len(lines) - 3 ELSE Len(lines) - 2

LEMMA RowsAre ==
  ASSUME LinesTyped
  PROVE  /\ Len(Rows) = RowCount /\ DOMAIN Rows = 1..RowCount
         /\ \A k \in 1..RowCount : Rows[k] = lines[k + 2]
<1> DEFINE n == Len(lines)
           S == Seq(Tokens)
<1>1. lines \in Seq(S) /\ n \in Nat /\ DOMAIN lines = 1..n
  BY FileFacts, LenProperties DEF LinesTyped
<1>2. \A k \in 1..n : lines[k] \in S
  BY <1>1, ElementOfSeq
<1>3. Body = SubSeq(lines, 3, n)
  BY DEF Body
<1>4. Len(<< >>) = 0 /\ DOMAIN << >> = {}
  BY EmptySeq
<1> HIDE DEF n, S
<1>5. CASE n < 3
  <2>1. Body = << >>
    BY <1>1, <1>3, <1>5, SubSeqEmpty
  <2>2. Rows = << >>
    BY Zenon, <2>1 DEF Rows
  <2>3. RowCount = 0
    BY <1>5 DEF RowCount, n
  <2>4. 1..0 = {}
    OBVIOUS
  <2> QED BY Zenon, <1>4, <2>2, <2>3, <2>4
<1>6. CASE n >= 3
  <2>1. \A i \in 3..n : lines[i] \in S
    BY <1>1, <1>2, <1>6
  <2>2. Body \in Seq(S) /\ Len(Body) = n - 2 /\ \A i \in 1..(n - 2) : Body[i] = lines[i + 2]
    <3>1. 3 \in Int /\ n \in Int /\ n - 2 \in Nat /\ n - 2 = n - 3 + 1
      BY <1>1, <1>6
    <3>2. Body \in Seq(S) /\ Len(Body) = n - 2 /\ \A i \in 1..(n - 2) : Body[i] = lines[3 + i - 1]
      <4>1. Body \in Seq(S) /\ PartOf(lines, 3, n - 3 + 1, Body)
        BY Zenon, <1>3, <2>1, <3>1, PartFacts
      <4> QED BY Zenon, <3>1, <4>1 DEF PartOf
    <3>3. \A i \in 1..(n - 2) : 3 + i - 1 = i + 2
      BY <1>1, <1>6
    <3> QED BY Zenon, <3>2, <3>3
  <2>3. DOMAIN Body = 1..(n - 2)
    BY <2>2, LenProperties
  <2>4. Body # << >> /\ Last(Body) = lines[n]
    <3>1. n - 2 \in 1..(n - 2) /\ (n - 2) + 2 = n /\ n - 2 # 0
      BY <1>1, <1>6
    <3>2. Last(Body) = lines[n]
      BY Zenon, <2>2, <3>1 DEF Last
    <3>3. Body # << >>
      BY Zenon, <1>4, <2>2, <3>1
    <3> QED BY <3>2, <3>3
  <2>5. lines[n] = << >> <=> Len(lines[n]) = 0
    <3>1. n \in 1..n
      BY <1>1, <1>6
    <3>2. lines[n] \in Seq(Tokens)
      BY Zenon, <1>2, <3>1 DEF S
    <3>3. lines[n] # << >> => Len(lines[n]) \in Nat \ {0}
      BY <3>2, EmptySeq
    <3> QED BY <1>4, <3>3
  <2>6. CASE EmptyRest
    <3>1. Rows = SubSeq(Body, 1, n - 3)
      <4>1. lines[n] = << >> /\ ~ended
        BY Zenon, <2>5, <2>6 DEF EmptyRest, n
      <4>2. Rows = Front(Body)
        BY Zenon, <2>4, <4>1 DEF Rows
      <4>3. Len(Body) - 1 = n - 3
        BY <1>1, <2>2
      <4> QED BY Zenon, <4>2, <4>3 DEF Front
    <3>2. /\ Rows \in Seq(S) /\ Len(Rows) = n - 3
          /\ \A k \in 1..(n - 3) : Rows[k] = Body[k]
      <4>1. \A i \in 1..(n - 3) : Body[i] \in S
        BY <1>1, <2>2, <2>3, ElementOfSeq
      <4>2. 1 \in Int /\ n - 3 \in Int /\ n - 3 \in Nat /\ n - 3 = n - 3 - 1 + 1
        BY <1>1, <1>6
      <4>3. /\ Rows \in Seq(S) /\ Len(Rows) = n - 3
            /\ \A i \in 1..(n - 3) : Rows[i] = Body[1 + i - 1]
        <5>1. Rows \in Seq(S) /\ PartOf(Body, 1, n - 3 - 1 + 1, Rows)
          BY Zenon, <3>1, <4>1, <4>2, PartFacts
        <5> QED BY Zenon, <4>2, <5>1 DEF PartOf
      <4>4. \A i \in 1..(n - 3) : 1 + i - 1 = i
        BY <1>1
      <4> QED BY Zenon, <4>3, <4>4
    <3>3. DOMAIN Rows = 1..(n - 3)
      BY <3>2, LenProperties
    <3>4. \A k \in 1..(n - 3) : k \in 1..(n - 2)
      BY <1>1
    <3>5. RowCount = n - 3
      BY <1>1, <1>6, <2>6 DEF RowCount, n
    <3> QED BY Zenon, <2>2, <3>2, <3>3, <3>4, <3>5
  <2>7. CASE ~EmptyRest
    <3>1. Rows = Body
      <4>1. lines[n] # << >> \/ ended
        BY Zenon, <2>5, <2>7 DEF EmptyRest, n
      <4> QED BY Zenon, <2>4, <4>1 DEF Rows
    <3>2. RowCount = n - 2
      BY <1>1, <1>6, <2>7 DEF RowCount, n
    <3> QED BY Zenon, <2>2, <2>3, <3>1, <3>2
  <2> QED BY <2>6, <2>7
<1> QED BY <1>1, <1>5, <1>6

\* A file that was read to its end has given its messages.
LEMMA ParsedIsExact == ParserIInv => ParserExact
<1> SUFFICES ASSUME ParserIInv PROVE ParserExact
  OBVIOUS
<1> DEFINE n == Len(lines)
           l == Len(stream)
           j == skipped + l
           rest == EmptyRest
           rows == Rows
<1>2. LinesTyped
  BY DEF ParserIInv
<1>3. /\ Len(rows) = IF n < 3 THEN 0 ELSE IF rest THEN n - 3 ELSE n - 2
      /\ DOMAIN rows = 1..Len(rows)
      /\ \A k \in 1..Len(rows) : rows[k] = lines[k + 2]
  <2>1. Len(Rows) = RowCount /\ DOMAIN Rows = 1..RowCount
        /\ \A k \in 1..RowCount : Rows[k] = lines[k + 2]
    BY Zenon, <1>2, RowsAre
  <2> QED BY Zenon, <2>1 DEF RowCount
<1>4. /\ j \in 0..n /\ l \in Nat /\ n \in Nat
      /\ current \in Nat /\ Past \in Nat /\ current = LineAt[j + 1]
      /\ current < Past => j + 1 \in 1..n
      /\ current = Past /\ j < n => j + 1 = n /\ ~ended /\ Len(lines[j + 1]) = 0
  BY NextLineThere
<1>5. /\ skipped \in 0..2 /\ (j > 0 => LineAt[j] < Past)
      /\ skipped < 2 => l = 0
      /\ parser \in {"lines", "parsed", "crashed"} => skipped = 2 \/ (n <= 2 /\ current >= Past)
      /\ \A k \in 1..l : stream[k] = Message(LineAt[k + 2])
      /\ parser = "parsed" => current >= Past
      /\ parser = "crashed" => current < Past /\ Fields(current)[5] = 0
  BY DEF ParserIInv, ParserInStep
<1>6. n > 0 => (LineAt[n] = Past <=> rest) /\ LineAt[n] \in Nat /\ LineAt[n] <= Past
  <2>1. SUFFICES ASSUME n > 0 PROVE (LineAt[n] = Past <=> rest) /\ LineAt[n] \in Nat /\ LineAt[n] <= Past
    OBVIOUS
  <2>2. n \in 1..n
    BY <1>4, <2>1
  <2>3. /\ LineAt[n] \in Nat \ {0} /\ LineAt[n] <= Past
        /\ LineAt[n] = Past <=> n = Len(lines) /\ ~ended /\ Len(lines[n]) = 0
    BY Zenon, <1>2, <2>2, LineFacts
  <2> QED BY <2>3 DEF EmptyRest
<1>7. ASSUME parser = "parsed"
      PROVE  /\ Len(stream) = Len(rows)
             /\ \A k \in DOMAIN rows : WellFormed(rows[k]) => stream[k] = Row(rows[k])
  <2>1. l = Len(rows)
    <3>1. CASE skipped = 2 /\ j = n
      <4>1. n > 0 /\ LineAt[n] < Past /\ n = l + 2
        BY <1>4, <1>5, <3>1
      <4>2. ~rest
        BY <1>4, <1>6, <4>1
      <4> QED BY <1>3, <1>4, <4>1, <4>2
    <3>2. CASE skipped = 2 /\ j # n
      <4>1. j < n
        BY <1>4, <3>2
      <4>2. current = Past
        <5>1. LineAt[j + 1] <= Past
          <6>1. j + 1 \in 1..n
            BY <1>4, <4>1
          <6> QED BY Zenon, <1>2, <6>1, LineFacts
        <5> QED BY <1>4, <1>5, <1>7, <5>1
      <4>3. j + 1 = n /\ rest
        BY <1>4, <4>1, <4>2 DEF EmptyRest
      <4> QED BY <1>3, <1>4, <3>2, <4>3
    <3>3. CASE skipped # 2
      <4>1. n <= 2 /\ l = 0
        BY <1>5, <1>7, <3>3
      <4> QED BY <1>3, <1>4, <4>1
    <3> QED BY <3>1, <3>2, <3>3
  <2>2. ASSUME NEW k \in DOMAIN rows, WellFormed(rows[k]) PROVE stream[k] = Row(rows[k])
    <3>1. k \in 1..l /\ rows[k] = lines[k + 2] /\ stream[k] = Message(LineAt[k + 2])
      BY <1>3, <1>5, <2>1
    <3>2. k + 2 \in 1..n
      <4>1. l = 0 \/ l <= n - 2
        BY <1>3, <1>4, <2>1
      <4>2. k \in 1..l /\ l \in Nat /\ n \in Nat
        BY <1>4, <3>1
      <4> HIDE DEF l, n
      <4> QED BY <4>1, <4>2
    <3>3. Message(LineAt[k + 2]) = Row(lines[k + 2])
      BY <1>2, <2>2, <3>1, <3>2, MessageIsRow
    <3> QED BY <3>1, <3>3
  <2> QED BY <2>1, <2>2
<1>8. ASSUME parser = "crashed" PROVE \E k \in DOMAIN rows : ~WellFormed(rows[k])
  <2>1. current < Past /\ Fields(current)[5] = 0 /\ skipped = 2 /\ j + 1 \in 1..n /\ j = l + 2
    BY <1>4, <1>5, <1>8
  <2>2. l + 1 \in 1..Len(rows)
    <3>1. n = l + 3 => ~rest
      <4>1. SUFFICES ASSUME n = l + 3, rest PROVE FALSE
        OBVIOUS
      <4>2. LineAt[n] = current /\ LineAt[n] = Past
        BY <1>4, <1>6, <2>1, <4>1
      <4> QED BY <1>4, <2>1, <4>2
    <3> QED BY <1>3, <1>4, <2>1, <3>1
  <2>3. rows[l + 1] = lines[j + 1]
    <3>1. (l + 1) + 2 = j + 1
      BY <1>4, <2>1
    <3> QED BY <1>3, <2>2, <3>1
  <2>4. ~WellFormed(lines[j + 1])
    <3>1. Fields(LineAt[j + 1])[5] = 0
      BY <1>4, <2>1
    <3> QED BY <1>2, <2>1, <3>1, MessageIsRow
  <2> QED BY <1>3, <2>2, <2>3, <2>4
<1> QED BY Zenon, <1>7, <1>8 DEF ParserExact, Rows, Body


(* The window of the book *)

\* Some integers of an interval have a least and a greatest one.
LEMMA EndsOfPart ==
  ASSUME NEW lo \in Int, NEW hi \in Int, NEW S, S \subseteq lo..hi, S # {}
  PROVE  /\ Min(S) \in S /\ Max(S) \in S
         /\ \A x \in S : Min(S) <= x /\ x <= Max(S)
<1>1. /\ lo..hi = {x \in Int : lo <= x /\ x <= hi}
      /\ \A x \in S : x \in Int /\ x - lo \in Nat /\ hi - x \in Nat
  OBVIOUS
<1>2. ASSUME NEW T, T \subseteq Nat, T # {}
      PROVE  \E m \in T : \A x \in T : m <= x
  <2>1. PICK m \in T : \A x \in T : ~(<<x, m>> \in OpToRel(<, Nat))
    BY <1>2, NatLessThanWellFounded, WFMin, Zenon
  <2>2. \A x \in T : ~(x < m)
    BY <1>2, <2>1 DEF OpToRel
  <2> QED BY <1>2, <2>2
<1>3. PICK a \in S : \A x \in S : a - lo <= x - lo
  <2> DEFINE T == {x - lo : x \in S}
  <2>1. T \subseteq Nat /\ T # {}
    BY <1>1
  <2>2. PICK m \in T : \A x \in T : m <= x
    <3> HIDE DEF T
    <3> QED BY <1>2, <2>1
  <2> QED BY <2>2
<1>4. PICK b \in S : \A x \in S : hi - b <= hi - x
  <2> DEFINE T == {hi - x : x \in S}
  <2>1. T \subseteq Nat /\ T # {}
    BY <1>1
  <2>2. PICK m \in T : \A x \in T : m <= x
    <3> HIDE DEF T
    <3> QED BY <1>2, <2>1
  <2> QED BY <2>2
<1>5. /\ \A x \in S : a <= x
      /\ \A x \in S : b >= x
  BY <1>1, <1>3, <1>4
<1>6. /\ \A x \in S : Min(S) <= x
      /\ \A x \in S : Max(S) >= x
  BY <1>5 DEF Min, Max
<1>7. Max(S) \in S /\ Min(S) \in S
  BY <1>5 DEF Min, Max
<1> QED BY <1>1, <1>6, <1>7

\* The constructor's window holds each price that it considers.
LEMMA WindowHolds ==
  ASSUME NEW msgs, NEW k \in ConsideredIn(msgs)
  PROVE  msgs[k].price \in WindowOf(msgs)
<1> DEFINE pxs == {msgs[j].price : j \in ConsideredIn(msgs)}
<1>1. pxs \subseteq MinConsidered..MaxConsidered /\ msgs[k].price \in pxs
  BY DEF ConsideredIn, Considered
<1>2. MinConsidered \in Int /\ MaxConsidered \in Int
  BY IngestorAssumption DEF IngestorAssumption
<1>3. WindowOf(msgs) = Min(pxs)..Max(pxs)
  BY <1>1 DEF WindowOf
<1> HIDE DEF pxs
<1>4. PICK lo \in Int, hi \in Int : lo = MinConsidered /\ hi = MaxConsidered
  BY <1>2
<1>5. pxs \subseteq lo..hi /\ pxs # {}
  BY <1>1, <1>4
<1>6. /\ Min(pxs) \in pxs /\ Max(pxs) \in pxs
      /\ \A x \in pxs : Min(pxs) <= x /\ x <= Max(pxs)
  BY <1>5, EndsOfPart
<1>7. \A x \in pxs : x \in Int
  BY <1>5
<1>8. msgs[k].price \in Min(pxs)..Max(pxs)
  <2>1. PICK x \in Int, a \in Int, b \in Int :
          /\ x = msgs[k].price /\ a = Min(pxs) /\ b = Max(pxs)
          /\ a <= x /\ x <= b
    BY Zenon, <1>1, <1>6, <1>7
  <2>2. x \in a..b
    BY <2>1
  <2> QED BY <2>1, <2>2
<1> QED BY <1>3, <1>8

\* A file without messages has a window without prices.
LEMMA EmptyWindow == WindowOf(<< >>) = {}
<1>1. DOMAIN << >> = {}
  BY EmptySeq
<1> QED BY <1>1 DEF WindowOf, ConsideredIn

(* The steps *)

LEMMA InitIInv ==
  ASSUME BenchmarkInit
  PROVE  IInv
<1>1. stream = << >> /\ messages = << >> /\ given = << >>
  BY DEF BenchmarkInit, Init
<1>2. Len(messages) = 0 /\ DOMAIN given = {} /\ Len(given) = 0
  BY <1>1, EmptySeq
<1>3. IsSequence(stream) /\ IsSequence(messages) /\ given \in Seq(Nat)
  BY <1>1, EmptyIsSequence, EmptySeq
<1>4. MaxCalls \in Nat
  BY IngestorAssumption
<1>5. processed = 0 /\ 1..processed = {}
  BY DEF BenchmarkInit
<1>6. FedInOrder
  BY <1>2, <1>5 DEF FedInOrder
<1>7. TypeOK
  <2>1. processed \in 0..Len(messages) /\ calls \in 0..MaxCalls
    BY <1>2, <1>4, <1>5 DEF BenchmarkInit
  <2>2. \A k \in DOMAIN given : given[k] \in DOMAIN messages
    BY <1>2
  <2>3. {running, completed} \subseteq BOOLEAN /\ messages_processed \in Nat
    BY DEF BenchmarkInit
  <2>4. thread = "none" /\ client = "parsing"
    BY DEF BenchmarkInit
  <2> QED BY <2>1, <2>2, <2>3, <2>4 DEF TypeOK
<1>8. client # "terminated" /\ OwnerInStep /\ ThreadInStep /\ CompletedInFull
  BY DEF BenchmarkInit, OwnerInStep, ThreadInStep, CompletedInFull
<1> QED BY <1>3, <1>6, <1>7, <1>8 DEF IInv

\* The parser only appends to its own stream.
LEMMA ParseIInv ==
  ASSUME IInv, Parse
  PROVE  IInv'
<1>1. IsSequence(stream)'
  <2>1. CASE ParseLine
    BY <2>1, AppendIsSequence DEF ParseLine, IInv
  <2>2. CASE Open \/ SkipHeader \/ HeaderDone \/ ParseDone
    BY <2>2 DEF Open, SkipHeader, HeaderDone, ParseDone, IInv
  <2> QED BY <2>1, <2>2 DEF Parse, Next
<1> QED BY <1>1 DEF Parse, ingestorVars, IInv, TypeOK, OwnerInStep, ThreadInStep, FedInOrder,
           CompletedInFull, IsSequence

LEMMA CreateIInv ==
  ASSUME IInv, Create
  PROVE  IInv'
<1>1. messages' = stream /\ given' = << >> /\ processed' = 0
  BY DEF Create, Construct
<1>2. Len(messages') \in Nat /\ DOMAIN given' = {} /\ Len(given') = 0
  BY <1>1, LengthOfSequence, EmptySeq DEF IInv
<1>3. IsSequence(stream)' /\ IsSequence(messages)' /\ given' \in Seq(Nat)
  BY <1>1, EmptySeq DEF IInv, Create, parserVars, IsSequence
<1>4. MaxCalls \in Nat
  BY IngestorAssumption
<1>5. 1..processed' = {}
  BY <1>1
<1>6. FedInOrder'
  BY <1>1, <1>2, <1>5 DEF FedInOrder
<1>7. TypeOK'
  <2>1. processed' \in 0..Len(messages') /\ calls' \in 0..MaxCalls
    BY <1>1, <1>2, <1>4 DEF Create, Construct
  <2>2. \A k \in DOMAIN given' : given'[k] \in DOMAIN messages'
    BY <1>2
  <2>3. {running', completed'} \subseteq BOOLEAN /\ messages_processed' \in Nat
    BY DEF Create, Construct
  <2>4. thread' = "none" /\ client' = "idle"
    BY DEF Create, Construct
  <2> QED BY <2>1, <2>2, <2>3, <2>4 DEF TypeOK
<1>8. (client # "terminated" /\ OwnerInStep /\ ThreadInStep /\ CompletedInFull)'
  BY DEF Create, Construct, OwnerInStep, ThreadInStep, CompletedInFull
<1> QED BY <1>3, <1>6, <1>7, <1>8 DEF IInv

\* The owner changes no data, so only its place in its calls and the thread's
\* account are to be looked at.
LEMMA OwnerIInv ==
  ASSUME IInv, UNCHANGED parserVars,
         Start \/ Stop \/ Destroy \/ Poll \/ OwnerStep
  PROVE  IInv'
<1>1. DataUnchanged
  BY DEF Start, Stop, Destroy, StopFor, Poll, OwnerStep, ResetCompleted, Spawn, Join, is_completed
<1>2. /\ IsSequence(stream)' /\ IsSequence(messages)' /\ given' \in Seq(Nat)
      /\ FedInOrder'
  BY <1>1 DEF DataUnchanged, IInv, parserVars, IsSequence, FedInOrder
<1>3. calls' \in 0..MaxCalls
  BY IngestorAssumption DEF Start, Stop, Destroy, StopFor, Poll, OwnerStep, ResetCompleted, Spawn,
     Join, is_completed, IInv, TypeOK
<1>4. TypeOK' /\ (client # "terminated")' /\ OwnerInStep' /\ ThreadInStep' /\ CompletedInFull'
  <2>1. CASE Start
    BY <2>1, <1>1, <1>3 DEF Start, DataUnchanged, IInv, TypeOK, OwnerInStep, ThreadInStep, CompletedInFull
  <2>2. CASE Stop
    BY <2>2, <1>1, <1>3 DEF Stop, StopFor, DataUnchanged, IInv, TypeOK, OwnerInStep, ThreadInStep,
       CompletedInFull
  <2>3. CASE Destroy
    BY <2>3, <1>1, <1>3 DEF Destroy, StopFor, DataUnchanged, IInv, TypeOK, OwnerInStep, ThreadInStep,
       CompletedInFull
  <2>4. CASE Poll
    BY <2>4, <1>1, <1>3 DEF Poll, DataUnchanged, IInv, TypeOK, OwnerInStep, ThreadInStep, CompletedInFull
  <2>5. CASE ResetCompleted
    BY <2>5, <1>1, <1>3 DEF ResetCompleted, DataUnchanged, IInv, TypeOK, OwnerInStep, ThreadInStep,
       CompletedInFull
  <2>6. CASE Spawn
    BY <2>6, <1>1, <1>3 DEF Spawn, DataUnchanged, IInv, TypeOK, OwnerInStep, ThreadInStep,
       CompletedInFull
  <2>7. CASE Join
    BY <2>7, <1>1, <1>3 DEF Join, DataUnchanged, IInv, TypeOK, OwnerInStep, ThreadInStep,
       CompletedInFull
  <2>8. CASE is_completed
    BY <2>8, <1>1, <1>3 DEF is_completed, DataUnchanged, IInv, TypeOK, OwnerInStep, ThreadInStep,
       CompletedInFull
  <2> QED BY <2>1, <2>2, <2>3, <2>4, <2>5, <2>6, <2>7, <2>8 DEF OwnerStep
<1> QED BY <1>2, <1>4 DEF IInv

\* A message given to the book is the next one of the file.
LEMMA ProcessIInv ==
  ASSUME IInv, UNCHANGED parserVars, process_msg
  PROVE  IInv'
<1>1. /\ processed \in Nat /\ processed' = processed + 1
      /\ given' = Append(given, processed + 1) /\ UNCHANGED <<messages, messages_processed>>
  BY DEF IInv, TypeOK, process_msg, OwnerUnchanged
<1>2. /\ given' \in Seq(Nat) /\ Len(given') = Len(given) + 1
      /\ \A i \in 1..Len(given) : given'[i] = given[i]
      /\ given'[Len(given) + 1] = processed + 1
      /\ Len(given) \in Nat /\ DOMAIN given = 1..Len(given) /\ DOMAIN given' = 1..Len(given')
  BY <1>1, AppendProperties, LenProperties DEF IInv
<1>3. Len(messages) \in Nat /\ DOMAIN messages = 1..Len(messages) /\ processed < Len(messages)
  BY LengthOfSequence DEF IInv, ThreadInStep, process_msg
<1>4. \A k \in DOMAIN given' : given'[k] \in DOMAIN messages'
  BY <1>1, <1>2, <1>3 DEF IInv, TypeOK
<1>5. FedInOrder'
  <2>1. processed <= Len(given) /\ processed' <= Len(given')
    BY <1>1, <1>2 DEF IInv, FedInOrder
  <2>2. ASSUME NEW k \in 1..processed'
        PROVE  given'[Len(given') - processed' + k] = k
    <3>1. Len(given') - processed' + k = Len(given) - processed + k
      BY <1>1, <1>2
    <3>2. CASE k = processed + 1
      BY <1>1, <1>2, <3>1, <3>2
    <3>3. CASE k \in 1..processed
      <4>1. Len(given) - processed + k \in 1..Len(given)
        BY <1>1, <1>2, <2>1, <3>3
      <4>2. given[Len(given) - processed + k] = k
        BY <3>3 DEF IInv, FedInOrder
      <4>3. given'[Len(given) - processed + k] = given[Len(given) - processed + k]
        BY <1>2, <4>1
      <4> QED BY <3>1, <4>2, <4>3
    <3>4. k = processed + 1 \/ k \in 1..processed
      BY <1>1
    <3> QED BY <3>2, <3>3, <3>4, Zenon
  <2> QED BY <2>1, <2>2 DEF FedInOrder
<1>6. IsSequence(stream)' /\ IsSequence(messages)'
  BY <1>1 DEF IInv, parserVars, IsSequence
<1>7. ~completed
  BY DEF process_msg, IInv, ThreadInStep
<1> QED BY <1>1, <1>2, <1>3, <1>4, <1>5, <1>6, <1>7 DEF process_msg, OwnerUnchanged, IInv, TypeOK,
           OwnerInStep, ThreadInStep, CompletedInFull

LEMMA ThreadIInv ==
  ASSUME IInv, UNCHANGED parserVars, StartPerfTracking \/ While \/ EndPerfTracking \/ SetCompleted
  PROVE  IInv'
<1>1. UNCHANGED <<messages, given, running, client, calls>>
  BY DEF StartPerfTracking, While, EndPerfTracking, SetCompleted, OwnerUnchanged
<1>2. IsSequence(stream)' /\ IsSequence(messages)' /\ given' \in Seq(Nat)
  BY <1>1 DEF IInv, parserVars, IsSequence
<1>3. Len(messages) \in Nat /\ Len(given) \in Nat
  BY LengthOfSequence, LenProperties DEF IInv
<1>4. CASE StartPerfTracking
  BY <1>1, <1>2, <1>3, <1>4 DEF StartPerfTracking, IInv, TypeOK, OwnerInStep, ThreadInStep, FedInOrder,
     CompletedInFull
<1>5. CASE While
  BY <1>1, <1>2, <1>3, <1>5 DEF While, IInv, TypeOK, OwnerInStep, ThreadInStep, FedInOrder,
     CompletedInFull
<1>6. CASE EndPerfTracking
  BY <1>1, <1>2, <1>3, <1>6 DEF EndPerfTracking, IInv, TypeOK, OwnerInStep, ThreadInStep, FedInOrder,
     CompletedInFull
<1>7. CASE SetCompleted
  BY <1>1, <1>2, <1>3, <1>7 DEF SetCompleted, IInv, TypeOK, OwnerInStep, ThreadInStep, FedInOrder,
     CompletedInFull
<1> QED BY <1>4, <1>5, <1>6, <1>7

LEMMA NextIInv ==
  ASSUME IInv, [BenchmarkNext]_vars
  PROVE  IInv'
<1>1. CASE Parse
  BY <1>1, ParseIInv
<1>2. CASE Create
  BY <1>2, CreateIInv
<1>3. CASE Ingest /\ UNCHANGED parserVars
  BY <1>3, OwnerIInv, ProcessIInv, ThreadIInv DEF Ingest, ThreadStep
<1>4. CASE UNCHANGED vars
  BY <1>4 DEF vars, parserVars, ingestorVars, IInv, TypeOK, OwnerInStep, ThreadInStep, FedInOrder,
     CompletedInFull, IsSequence
<1> QED BY <1>1, <1>2, <1>3, <1>4 DEF BenchmarkNext, Ended

\* The inductive invariant holds throughout.
THEOREM Invariance == Spec => []IInv
<1>1. BenchmarkInit => IInv
  BY InitIInv
<1>2. IInv /\ [BenchmarkNext]_vars => IInv'
  BY NextIInv
<1> QED BY <1>1, <1>2, PTL DEF Spec

\* However its owner calls start and stop, an ingestor never assigns to a
\* std::thread that is joinable (std::terminate).
THEOREM ThreadIsSingle == Spec => []OneIngestorThread
<1>1. IInv => OneIngestorThread
  BY DEF IInv, OneIngestorThread
<1> QED BY <1>1, Invariance, PTL

\* Whoever reads is_completed() as true has before him a final count, and a book
\* that was given that many messages of the file, from the first, in order.
THEOREM CompletionIsFinal == Spec => []CompletedIsFinal
<1>1. IInv => CompletedIsFinal
  BY LengthOfSequence DEF IInv, TypeOK, ThreadInStep, FedInOrder, CompletedInFull, CompletedIsFinal
<1> QED BY <1>1, Invariance, PTL

\* The window is the one that the constructor made of the messages.
THEOREM WindowFits == Spec => [](window = WindowOf(messages))
<1>1. BenchmarkInit => window = WindowOf(messages)
  BY EmptyWindow DEF BenchmarkInit
<1>2. ASSUME window = WindowOf(messages), [BenchmarkNext]_vars
      PROVE  (window = WindowOf(messages))'
  <2>1. CASE Create
    BY <2>1 DEF Create, Construct, WindowOf, ConsideredIn, Considered
  <2>2. CASE UNCHANGED <<messages, window>>
    BY <1>2, <2>2 DEF WindowOf, ConsideredIn, Considered
  <2>3. CASE Start \/ Stop \/ Destroy \/ Poll \/ OwnerStep
    BY <2>2, <2>3 DEF Start, Stop, Destroy, StopFor, Poll, OwnerStep, ResetCompleted, Spawn, Join,
       is_completed, DataUnchanged
  <2>4. CASE ThreadStep
    BY <2>2, <2>4 DEF ThreadStep, StartPerfTracking, While, process_msg, EndPerfTracking,
       SetCompleted, OwnerUnchanged
  <2>5. CASE Parse \/ UNCHANGED vars
    BY <2>2, <2>5 DEF Parse, vars, ingestorVars
  <2> QED BY <1>2, <2>1, <2>3, <2>4, <2>5 DEF BenchmarkNext, Ended, Ingest
<1> QED BY <1>1, <1>2, PTL DEF Spec

\* Every message whose price the filter of process_msg lets pass falls within
\* the window of levels that the constructor made of all messages.
THEOREM WindowAlwaysCovers == Spec => []WindowCoversAccepted
<1>1. ASSUME IInv, window = WindowOf(messages), NEW k \in DOMAIN given,
             messages[given[k]].price \in MinAccepted..MaxAccepted
      PROVE  messages[given[k]].price \in window
  <2>1. given[k] \in DOMAIN messages
    BY <1>1 DEF IInv, TypeOK
  <2>2. messages[given[k]].price \in MinConsidered..MaxConsidered
    BY <1>1, IngestorAssumption DEF IngestorAssumption
  <2>3. given[k] \in ConsideredIn(messages)
    BY <2>1, <2>2 DEF ConsideredIn, Considered
  <2> QED BY <1>1, <2>3, WindowHolds
<1>2. IInv /\ window = WindowOf(messages) => WindowCoversAccepted
  BY <1>1 DEF WindowCoversAccepted
<1> QED BY <1>2, Invariance, WindowFits, PTL
\* The parser's invariant: it has passed whole lines, and given the message at the
\* start of each one behind the header.
THEOREM ParserInductive == Spec => []ParserIInv
<1>1. BenchmarkInit => ParserIInv
  BY ParserBegins DEF BenchmarkInit
<1>2. ASSUME ParserIInv, [BenchmarkNext]_vars PROVE ParserIInv'
  <2>1. CASE Parse
    BY <1>2, <2>1, ParserSteps DEF Parse
  <2>2. CASE UNCHANGED parserVars
    <3>1. UNCHANGED <<lines, ended, parser, current, skipped, stream>>
      BY Zenon, <2>2 DEF parserVars
    <3>2. /\ LineAt' = LineAt /\ Past' = Past
          /\ \A p : Message(p)' = Message(p) /\ Fields(p)' = Fields(p)
      BY <3>1, SameFile
    <3>3. IsSequence(stream)' /\ LinesTyped'
      BY Zenon, <1>2, <3>1 DEF ParserIInv, IsSequence, LinesTyped
    <3>4. ParserInStep'
      BY Zenon, <1>2, <3>1, <3>2 DEF ParserIInv, ParserInStep
    <3> QED BY Zenon, <3>3, <3>4 DEF ParserIInv
  <2> QED BY <1>2, <2>1, <2>2 DEF BenchmarkNext, Create, Ended, vars
<1> QED BY <1>1, <1>2, PTL DEF Spec

\* Whatever a file's lines hold, one that is read to its end has given a message
\* per line behind the header, and every well formed line its own; only a line
\* that is not well formed can crash the program.
THEOREM ParserAlwaysExact == Spec => []ParserExact
<1> QED BY ParserInductive, ParsedIsExact, PTL
=============================================================================
