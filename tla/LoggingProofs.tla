-------------------------- MODULE LoggingProofs --------------------------
(***************************************************************************)
(* Proofs about LockFreeQueue, for one producer and one consumer and a     *)
(* ring of any size, and about AsyncLogger, for queues, batches, a buffer  *)
(* and lines of any size.                                                  *)
(*                                                                         *)
(* The properties of the queue are not inductive: what the code checks     *)
(* before a compare-exchange (the queue is not full, the node is ready)    *)
(* must be known to hold still when the exchange succeeds.  IInv says so   *)
(* (ProducerInStep, ConsumerInStep), and which nodes are published and     *)
(* hold an object at any moment (FlagsExact, StorageExact): those between  *)
(* head_ and tail_, but for the one node each thread is working on.        *)
(* ConstructedItem adds what the implementation of the bounded FIFO needs  *)
(* to know of the objects themselves.                                      *)
(***************************************************************************)
EXTENDS LockFreeQueueRefinement, AsyncLogger, FiniteSetTheorems, SequenceTheorems,
        TLAPS


\* i is one of the nodes from h up to t, round the ring.
Between(h, t, i) == IF h <= t THEN h <= i /\ i < t ELSE h <= i \/ i < t

\* Node i is claimed by the producer, or holds an item not yet published.
Filling(i)    == \E p \in Producers : pc[p] \in {"construct", "publish"} /\ curr[p] = i
Publishing(i) == \E p \in Producers : pc[p] = "publish" /\ curr[p] = i

\* Node i is taken by the consumer, or emptied and its flag not yet cleared.
Emptying(i) == \E c \in Consumers : pc[c] \in {"extract", "clear"} /\ curr[c] = i
Clearing(i) == \E c \in Consumers : pc[c] = "clear" /\ curr[c] = i

ProducerInStep ==
  \A p \in Producers :
    /\ pc[p] \in {"full?", "free?", "claim"} => curr[p] = tail
    /\ pc[p] \in {"free?", "claim"} => Succ(tail) # head
    /\ pc[p] \in {"construct", "publish"} => tail = Succ(curr[p]) /\ head # tail

ConsumerInStep ==
  \A c \in Consumers :
    /\ pc[c] \in {"empty?", "ready?", "advance", "compare"} => curr[c] = head
    /\ pc[c] \in {"ready?", "advance"} => head # tail
    /\ pc[c] = "advance" => written[head]
    /\ pc[c] \in {"extract", "clear"} => head = Succ(curr[c])

FlagsExact ==
  alive => \A i \in Nodes :
             written[i] <=> (Between(head, tail, i) /\ ~Filling(i)) \/ Emptying(i)

StorageExact ==
  alive => \A i \in Nodes :
             storage[i] = Raw <=> (~written[i] /\ ~Publishing(i)) \/ Clearing(i)

QueueDestroyed ==
  ~alive => /\ \A t \in Threads : pc[t] = "idle"
            /\ \A i \in Nodes : storage[i] = Raw

IInv ==
  /\ TypeOK
  /\ ProducerInStep /\ ConsumerInStep
  /\ FlagsExact /\ StorageExact /\ QueueDestroyed

(* The ring *)

\* Stepping round the ring never stands still and reaches a node from one
\* node only.
LEMMA SuccFacts ==
  /\ \A i \in Nodes : Succ(i) \in Nodes /\ Succ(i) # i
  /\ \A i, j \in Nodes : Succ(i) = Succ(j) => i = j
BY QueueAssumption DEF QueueAssumption, Nodes, Succ

\* Advancing tail_ adds the node it leaves, advancing head_ removes it; the
\* node before head_ is outside, the one before tail_ inside.
LEMMA RingFacts ==
  ASSUME NEW h \in Nodes, NEW t \in Nodes, NEW i \in Nodes
  PROVE  /\ ~Between(h, t, t)
         /\ Succ(i) = h => ~Between(h, t, i)
         /\ h # t => Between(h, t, h)
         /\ h # t /\ Succ(i) = t => Between(h, t, i)
         /\ Succ(t) # h => (Between(h, Succ(t), i) <=> Between(h, t, i) \/ i = t)
         /\ h # t => (Between(Succ(h), t, i) <=> Between(h, t, i) /\ i # h)
BY QueueAssumption DEF QueueAssumption, Nodes, Succ, Between

(* Steps *)

\* What a thread does before its compare-exchange succeeds, or between calls,
\* changes nothing another thread reads.
Hands == {"construct", "publish", "extract", "clear"}

Quiet(t) ==
  /\ UNCHANGED <<shared, alive>>
  /\ pc[t] \notin Hands /\ pc'[t] \notin Hands
  /\ \A u \in Threads : u # t => pc'[u] = pc[u] /\ curr'[u] = curr[u]

\* A quiet step leaves flags and storage as exact as they were.
LEMMA QuietFrame ==
  ASSUME FlagsExact, StorageExact, NEW t \in Threads, Quiet(t)
  PROVE  FlagsExact' /\ StorageExact'
<1>1. /\ \A p \in Producers : \/ pc'[p] = pc[p] /\ curr'[p] = curr[p]
                              \/ pc[p] \notin Hands /\ pc'[p] \notin Hands
      /\ \A c \in Consumers : \/ pc'[c] = pc[c] /\ curr'[c] = curr[c]
                              \/ pc[c] \notin Hands /\ pc'[c] \notin Hands
      /\ UNCHANGED <<head, tail, written, storage, alive>>
  BY DEF Quiet, Threads, shared
<1>2. \A i \in Nodes :
        /\ (Filling(i)' <=> Filling(i)) /\ (Publishing(i)' <=> Publishing(i))
        /\ (Emptying(i)' <=> Emptying(i)) /\ (Clearing(i)' <=> Clearing(i))
  BY <1>1 DEF Filling, Publishing, Emptying, Clearing, Hands
<1>3. FlagsExact'
  BY <1>1, <1>2 DEF FlagsExact
<1>4. StorageExact'
  BY <1>1, <1>2 DEF StorageExact
<1> QED
  BY <1>3, <1>4

\* Every step of either thread, and the destructor, keeps them in step.
LEMMA StepPreserves == SPSC /\ IInv /\ [Next]_vars => IInv'
<1> SUFFICES ASSUME SPSC, IInv, [Next]_vars PROVE IInv'
  OBVIOUS
<1>0. /\ TypeOK /\ ProducerInStep /\ ConsumerInStep
      /\ FlagsExact /\ StorageExact /\ QueueDestroyed
      /\ Producers \cap Consumers = {} /\ SIZE \in Nat /\ SIZE >= 2 /\ Raw \notin Items
  BY QueueAssumption DEF IInv, QueueAssumption
<1>1. CASE UNCHANGED vars
  BY <1>0, <1>1 DEF vars, shared, local, IInv, TypeOK, ProducerInStep, ConsumerInStep,
     FlagsExact, StorageExact, QueueDestroyed, Filling, Publishing, Emptying, Clearing
<1>2. \A i \in Nodes : /\ ~(Filling(i) /\ Emptying(i))
                       /\ Publishing(i) => Filling(i)
                       /\ Clearing(i) => Emptying(i)
  BY <1>0 DEF Filling, Publishing, Emptying, Clearing, ProducerInStep, ConsumerInStep
<1>3. ASSUME NEW p \in Producers, NEW x \in Items, Enqueue(p, x) PROVE IInv'
  <2>1. /\ p \in Threads /\ (\A u \in Producers : u = p) /\ p \notin Consumers
    BY <1>0 DEF Threads, SPSC
  <2>2. /\ pc'[p] = "load tail"
        /\ pc' = [pc EXCEPT ![p] = pc'[p]]
        /\ \A u \in Threads : u # p => pc'[u] = pc[u] /\ curr'[u] = curr[u]
    BY <1>0, <1>3, <2>1 DEF Enqueue, Goto, Return, TypeOK
  <2>3. pc'[p] \in ProducerLines
    BY <2>2 DEF ProducerLines
  <2>4. TypeOK'
    BY <1>0, <1>3, <2>1, <2>2, <2>3, SuccFacts DEF Enqueue, Return, shared, TypeOK, Threads
  <2>5. Quiet(p)
    BY <1>3, <2>2 DEF Quiet, Hands, Enqueue
  <2>6. FlagsExact' /\ StorageExact'
    BY <1>0, <2>1, <2>5, QuietFrame
  <2>7. ProducerInStep'
    <3>1. curr'[p] = curr[p] /\ UNCHANGED <<head, tail, written>>
      BY <1>0, <1>3, <2>1 DEF Enqueue, shared, TypeOK
    <3> QED
      BY <1>0, <1>3, <2>1, <2>2, <3>1 DEF Enqueue, ProducerInStep
  <2>8. ConsumerInStep'
    <3>1. UNCHANGED <<head, tail, written>>
      BY <1>3 DEF Enqueue, shared
    <3> QED
      BY <1>0, <2>1, <2>2, <3>1 DEF ConsumerInStep, Threads
  <2>9. QueueDestroyed'
    BY <1>0, <1>3, <2>1, <2>2 DEF Enqueue, QueueDestroyed, shared, Threads
  <2> QED
    BY <2>4, <2>5, <2>6, <2>7, <2>8, <2>9 DEF IInv
<1>4. ASSUME NEW p \in Producers, LoadTail(p) PROVE IInv'
  <2>1. /\ p \in Threads /\ (\A u \in Producers : u = p) /\ p \notin Consumers
    BY <1>0 DEF Threads, SPSC
  <2>2. /\ pc'[p] = "full?"
        /\ pc' = [pc EXCEPT ![p] = pc'[p]]
        /\ \A u \in Threads : u # p => pc'[u] = pc[u] /\ curr'[u] = curr[u]
    BY <1>0, <1>4, <2>1 DEF LoadTail, Goto, Return, TypeOK
  <2>3. pc'[p] \in ProducerLines
    BY <2>2 DEF ProducerLines
  <2>4. TypeOK'
    BY <1>0, <1>4, <2>1, <2>2, <2>3, SuccFacts DEF LoadTail, Return, shared, TypeOK, Threads
  <2>5. Quiet(p)
    BY <1>4, <2>2 DEF Quiet, Hands, LoadTail
  <2>6. FlagsExact' /\ StorageExact'
    BY <1>0, <2>1, <2>5, QuietFrame
  <2>7. ProducerInStep'
    <3>1. curr'[p] = tail /\ UNCHANGED <<head, tail, written>>
      BY <1>0, <1>4, <2>1 DEF LoadTail, shared, TypeOK
    <3> QED
      BY <1>0, <1>4, <2>1, <2>2, <3>1 DEF LoadTail, ProducerInStep
  <2>8. ConsumerInStep'
    <3>1. UNCHANGED <<head, tail, written>>
      BY <1>4 DEF LoadTail, shared
    <3> QED
      BY <1>0, <2>1, <2>2, <3>1 DEF ConsumerInStep, Threads
  <2>9. QueueDestroyed'
    BY <1>0, <1>4, <2>1, <2>2 DEF LoadTail, QueueDestroyed, shared, Threads
  <2> QED
    BY <2>4, <2>5, <2>6, <2>7, <2>8, <2>9 DEF IInv
<1>5. ASSUME NEW p \in Producers, CheckFull(p) PROVE IInv'
  <2>1. /\ p \in Threads /\ (\A u \in Producers : u = p) /\ p \notin Consumers
    BY <1>0 DEF Threads, SPSC
  <2>2. /\ pc'[p] = "idle" \/ pc'[p] = "free?"
        /\ pc' = [pc EXCEPT ![p] = pc'[p]]
        /\ \A u \in Threads : u # p => pc'[u] = pc[u] /\ curr'[u] = curr[u]
    BY <1>0, <1>5, <2>1 DEF CheckFull, Goto, Return, TypeOK
  <2>3. pc'[p] \in ProducerLines
    BY <2>2 DEF ProducerLines
  <2>4. TypeOK'
    BY <1>0, <1>5, <2>1, <2>2, <2>3, SuccFacts
    DEF CheckFull, Return, shared, TypeOK, Threads
  <2>5. Quiet(p)
    BY <1>5, <2>2 DEF Quiet, Hands, CheckFull
  <2>6. FlagsExact' /\ StorageExact'
    BY <1>0, <2>1, <2>5, QuietFrame
  <2>7. ProducerInStep'
    <3>1. curr'[p] = curr[p] /\ UNCHANGED <<head, tail, written>>
      BY <1>0, <1>5, <2>1 DEF CheckFull, shared, TypeOK
    <3>2. curr[p] = tail
      BY <1>0, <1>5 DEF CheckFull, ProducerInStep
    <3>3. pc'[p] = "free?" => Succ(tail) # head
      BY <1>0, <1>5, <2>1, <3>2 DEF CheckFull, Goto, Return, TypeOK
    <3> QED
      BY <1>0, <2>1, <2>2, <3>1, <3>2, <3>3 DEF ProducerInStep
  <2>8. ConsumerInStep'
    <3>1. UNCHANGED <<head, tail, written>>
      BY <1>5 DEF CheckFull, shared
    <3> QED
      BY <1>0, <2>1, <2>2, <3>1 DEF ConsumerInStep, Threads
  <2>9. QueueDestroyed'
    BY <1>0, <1>5, <2>1, <2>2 DEF CheckFull, QueueDestroyed, shared, Threads
  <2> QED
    BY <2>4, <2>5, <2>6, <2>7, <2>8, <2>9 DEF IInv
<1>6. ASSUME NEW p \in Producers, CheckFree(p) PROVE IInv'
  <2>1. /\ p \in Threads /\ (\A u \in Producers : u = p) /\ p \notin Consumers
    BY <1>0 DEF Threads, SPSC
  <2>2. /\ pc'[p] = "load tail" \/ pc'[p] = "claim"
        /\ pc' = [pc EXCEPT ![p] = pc'[p]]
        /\ \A u \in Threads : u # p => pc'[u] = pc[u] /\ curr'[u] = curr[u]
    BY <1>0, <1>6, <2>1 DEF CheckFree, Goto, Return, TypeOK
  <2>3. pc'[p] \in ProducerLines
    BY <2>2 DEF ProducerLines
  <2>4. TypeOK'
    BY <1>0, <1>6, <2>1, <2>2, <2>3, SuccFacts
    DEF CheckFree, Return, shared, TypeOK, Threads
  <2>5. Quiet(p)
    BY <1>6, <2>2 DEF Quiet, Hands, CheckFree
  <2>6. FlagsExact' /\ StorageExact'
    BY <1>0, <2>1, <2>5, QuietFrame
  <2>7. ProducerInStep'
    <3>1. curr'[p] = curr[p] /\ UNCHANGED <<head, tail, written>>
      BY <1>0, <1>6, <2>1 DEF CheckFree, shared, TypeOK
    <3> QED
      BY <1>0, <1>6, <2>1, <2>2, <3>1 DEF CheckFree, ProducerInStep
  <2>8. ConsumerInStep'
    <3>1. UNCHANGED <<head, tail, written>>
      BY <1>6 DEF CheckFree, shared
    <3> QED
      BY <1>0, <2>1, <2>2, <3>1 DEF ConsumerInStep, Threads
  <2>9. QueueDestroyed'
    BY <1>0, <1>6, <2>1, <2>2 DEF CheckFree, QueueDestroyed, shared, Threads
  <2> QED
    BY <2>4, <2>5, <2>6, <2>7, <2>8, <2>9 DEF IInv
<1>7. ASSUME NEW p \in Producers, ClaimTailFails(p) PROVE IInv'
  <2>1. /\ p \in Threads /\ (\A u \in Producers : u = p) /\ p \notin Consumers
    BY <1>0 DEF Threads, SPSC
  <2>2. /\ pc'[p] = "load tail"
        /\ pc' = [pc EXCEPT ![p] = pc'[p]]
        /\ \A u \in Threads : u # p => pc'[u] = pc[u] /\ curr'[u] = curr[u]
    BY <1>0, <1>7, <2>1 DEF ClaimTailFails, Goto, Return, TypeOK
  <2>3. pc'[p] \in ProducerLines
    BY <2>2 DEF ProducerLines
  <2>4. TypeOK'
    BY <1>0, <1>7, <2>1, <2>2, <2>3, SuccFacts
    DEF ClaimTailFails, Return, shared, TypeOK, Threads
  <2>5. Quiet(p)
    BY <1>7, <2>2 DEF Quiet, Hands, ClaimTailFails
  <2>6. FlagsExact' /\ StorageExact'
    BY <1>0, <2>1, <2>5, QuietFrame
  <2>7. ProducerInStep'
    <3>1. curr'[p] = curr[p] /\ UNCHANGED <<head, tail, written>>
      BY <1>0, <1>7, <2>1 DEF ClaimTailFails, shared, TypeOK
    <3> QED
      BY <1>0, <1>7, <2>1, <2>2, <3>1 DEF ClaimTailFails, ProducerInStep
  <2>8. ConsumerInStep'
    <3>1. UNCHANGED <<head, tail, written>>
      BY <1>7 DEF ClaimTailFails, shared
    <3> QED
      BY <1>0, <2>1, <2>2, <3>1 DEF ConsumerInStep, Threads
  <2>9. QueueDestroyed'
    BY <1>0, <1>7, <2>1, <2>2 DEF ClaimTailFails, QueueDestroyed, shared, Threads
  <2> QED
    BY <2>4, <2>5, <2>6, <2>7, <2>8, <2>9 DEF IInv
<1>8. ASSUME NEW c \in Consumers, Dequeue(c) PROVE IInv'
  <2>1. /\ c \in Threads /\ (\A u \in Consumers : u = c) /\ c \notin Producers
    BY <1>0 DEF Threads, SPSC
  <2>2. /\ pc'[c] = "load head"
        /\ pc' = [pc EXCEPT ![c] = pc'[c]]
        /\ \A u \in Threads : u # c => pc'[u] = pc[u] /\ curr'[u] = curr[u]
    BY <1>0, <1>8, <2>1 DEF Dequeue, Goto, Return, TypeOK
  <2>3. pc'[c] \in ConsumerLines
    BY <2>2 DEF ConsumerLines
  <2>4. TypeOK'
    BY <1>0, <1>8, <2>1, <2>2, <2>3, SuccFacts DEF Dequeue, Return, shared, TypeOK, Threads
  <2>5. Quiet(c)
    BY <1>8, <2>2 DEF Quiet, Hands, Dequeue
  <2>6. FlagsExact' /\ StorageExact'
    BY <1>0, <2>1, <2>5, QuietFrame
  <2>7. ConsumerInStep'
    <3>1. curr'[c] = curr[c] /\ UNCHANGED <<head, tail, written>>
      BY <1>0, <1>8, <2>1 DEF Dequeue, shared, TypeOK
    <3> QED
      BY <1>0, <1>8, <2>1, <2>2, <3>1 DEF Dequeue, ConsumerInStep
  <2>8. ProducerInStep'
    <3>1. UNCHANGED <<head, tail, written>>
      BY <1>8 DEF Dequeue, shared
    <3> QED
      BY <1>0, <2>1, <2>2, <3>1 DEF ProducerInStep, Threads
  <2>9. QueueDestroyed'
    BY <1>0, <1>8, <2>1, <2>2 DEF Dequeue, QueueDestroyed, shared, Threads
  <2> QED
    BY <2>4, <2>5, <2>6, <2>7, <2>8, <2>9 DEF IInv
<1>9. ASSUME NEW c \in Consumers, LoadHead(c) PROVE IInv'
  <2>1. /\ c \in Threads /\ (\A u \in Consumers : u = c) /\ c \notin Producers
    BY <1>0 DEF Threads, SPSC
  <2>2. /\ pc'[c] = "empty?"
        /\ pc' = [pc EXCEPT ![c] = pc'[c]]
        /\ \A u \in Threads : u # c => pc'[u] = pc[u] /\ curr'[u] = curr[u]
    BY <1>0, <1>9, <2>1 DEF LoadHead, Goto, Return, TypeOK
  <2>3. pc'[c] \in ConsumerLines
    BY <2>2 DEF ConsumerLines
  <2>4. TypeOK'
    BY <1>0, <1>9, <2>1, <2>2, <2>3, SuccFacts DEF LoadHead, Return, shared, TypeOK, Threads
  <2>5. Quiet(c)
    BY <1>9, <2>2 DEF Quiet, Hands, LoadHead
  <2>6. FlagsExact' /\ StorageExact'
    BY <1>0, <2>1, <2>5, QuietFrame
  <2>7. ConsumerInStep'
    <3>1. curr'[c] = head /\ UNCHANGED <<head, tail, written>>
      BY <1>0, <1>9, <2>1 DEF LoadHead, shared, TypeOK
    <3> QED
      BY <1>0, <1>9, <2>1, <2>2, <3>1 DEF LoadHead, ConsumerInStep
  <2>8. ProducerInStep'
    <3>1. UNCHANGED <<head, tail, written>>
      BY <1>9 DEF LoadHead, shared
    <3> QED
      BY <1>0, <2>1, <2>2, <3>1 DEF ProducerInStep, Threads
  <2>9. QueueDestroyed'
    BY <1>0, <1>9, <2>1, <2>2 DEF LoadHead, QueueDestroyed, shared, Threads
  <2> QED
    BY <2>4, <2>5, <2>6, <2>7, <2>8, <2>9 DEF IInv
<1>10. ASSUME NEW c \in Consumers, CheckEmpty(c) PROVE IInv'
  <2>1. /\ c \in Threads /\ (\A u \in Consumers : u = c) /\ c \notin Producers
    BY <1>0 DEF Threads, SPSC
  <2>2. /\ pc'[c] = "idle" \/ pc'[c] = "ready?"
        /\ pc' = [pc EXCEPT ![c] = pc'[c]]
        /\ \A u \in Threads : u # c => pc'[u] = pc[u] /\ curr'[u] = curr[u]
    BY <1>0, <1>10, <2>1 DEF CheckEmpty, Goto, Return, TypeOK
  <2>3. pc'[c] \in ConsumerLines
    BY <2>2 DEF ConsumerLines
  <2>4. TypeOK'
    BY <1>0, <1>10, <2>1, <2>2, <2>3, SuccFacts
    DEF CheckEmpty, Return, shared, TypeOK, Threads
  <2>5. Quiet(c)
    BY <1>10, <2>2 DEF Quiet, Hands, CheckEmpty
  <2>6. FlagsExact' /\ StorageExact'
    BY <1>0, <2>1, <2>5, QuietFrame
  <2>7. ConsumerInStep'
    <3>1. curr'[c] = curr[c] /\ UNCHANGED <<head, tail, written>>
      BY <1>0, <1>10, <2>1 DEF CheckEmpty, shared, TypeOK
    <3>2. curr[c] = head
      BY <1>0, <1>10 DEF CheckEmpty, ConsumerInStep
    <3>3. pc'[c] = "ready?" => head # tail
      BY <1>0, <1>10, <2>1, <3>2 DEF CheckEmpty, Goto, Return, TypeOK
    <3> QED
      BY <1>0, <2>1, <2>2, <3>1, <3>2, <3>3 DEF ConsumerInStep
  <2>8. ProducerInStep'
    <3>1. UNCHANGED <<head, tail, written>>
      BY <1>10 DEF CheckEmpty, shared
    <3> QED
      BY <1>0, <2>1, <2>2, <3>1 DEF ProducerInStep, Threads
  <2>9. QueueDestroyed'
    BY <1>0, <1>10, <2>1, <2>2 DEF CheckEmpty, QueueDestroyed, shared, Threads
  <2> QED
    BY <2>4, <2>5, <2>6, <2>7, <2>8, <2>9 DEF IInv
<1>11. ASSUME NEW c \in Consumers, CheckReady(c) PROVE IInv'
  <2>1. /\ c \in Threads /\ (\A u \in Consumers : u = c) /\ c \notin Producers
    BY <1>0 DEF Threads, SPSC
  <2>2. /\ pc'[c] = "load head" \/ pc'[c] = "advance"
        /\ pc' = [pc EXCEPT ![c] = pc'[c]]
        /\ \A u \in Threads : u # c => pc'[u] = pc[u] /\ curr'[u] = curr[u]
    BY <1>0, <1>11, <2>1 DEF CheckReady, Goto, Return, TypeOK
  <2>3. pc'[c] \in ConsumerLines
    BY <2>2 DEF ConsumerLines
  <2>4. TypeOK'
    BY <1>0, <1>11, <2>1, <2>2, <2>3, SuccFacts
    DEF CheckReady, Return, shared, TypeOK, Threads
  <2>5. Quiet(c)
    BY <1>11, <2>2 DEF Quiet, Hands, CheckReady
  <2>6. FlagsExact' /\ StorageExact'
    BY <1>0, <2>1, <2>5, QuietFrame
  <2>7. ConsumerInStep'
    <3>1. curr'[c] = curr[c] /\ UNCHANGED <<head, tail, written>>
      BY <1>0, <1>11, <2>1 DEF CheckReady, shared, TypeOK
    <3>2. curr[c] = head /\ head # tail
      BY <1>0, <1>11 DEF CheckReady, ConsumerInStep
    <3>3. head # tail /\ (pc'[c] = "advance" => written[head])
      BY <1>0, <1>11, <2>1, <3>2 DEF CheckReady, Goto, Return, TypeOK
    <3> QED
      BY <1>0, <2>1, <2>2, <3>1, <3>2, <3>3 DEF ConsumerInStep
  <2>8. ProducerInStep'
    <3>1. UNCHANGED <<head, tail, written>>
      BY <1>11 DEF CheckReady, shared
    <3> QED
      BY <1>0, <2>1, <2>2, <3>1 DEF ProducerInStep, Threads
  <2>9. QueueDestroyed'
    BY <1>0, <1>11, <2>1, <2>2 DEF CheckReady, QueueDestroyed, shared, Threads
  <2> QED
    BY <2>4, <2>5, <2>6, <2>7, <2>8, <2>9 DEF IInv
<1>12. ASSUME NEW c \in Consumers, ClaimHeadFails(c) PROVE IInv'
  <2>1. /\ c \in Threads /\ (\A u \in Consumers : u = c) /\ c \notin Producers
    BY <1>0 DEF Threads, SPSC
  <2>2. /\ pc'[c] = "load head"
        /\ pc' = [pc EXCEPT ![c] = pc'[c]]
        /\ \A u \in Threads : u # c => pc'[u] = pc[u] /\ curr'[u] = curr[u]
    BY <1>0, <1>12, <2>1 DEF ClaimHeadFails, Goto, Return, TypeOK
  <2>3. pc'[c] \in ConsumerLines
    BY <2>2 DEF ConsumerLines
  <2>4. TypeOK'
    BY <1>0, <1>12, <2>1, <2>2, <2>3, SuccFacts
    DEF ClaimHeadFails, Return, shared, TypeOK, Threads
  <2>5. Quiet(c)
    BY <1>12, <2>2 DEF Quiet, Hands, ClaimHeadFails
  <2>6. FlagsExact' /\ StorageExact'
    BY <1>0, <2>1, <2>5, QuietFrame
  <2>7. ConsumerInStep'
    <3>1. curr'[c] = curr[c] /\ UNCHANGED <<head, tail, written>>
      BY <1>0, <1>12, <2>1 DEF ClaimHeadFails, shared, TypeOK
    <3> QED
      BY <1>0, <1>12, <2>1, <2>2, <3>1 DEF ClaimHeadFails, ConsumerInStep
  <2>8. ProducerInStep'
    <3>1. UNCHANGED <<head, tail, written>>
      BY <1>12 DEF ClaimHeadFails, shared
    <3> QED
      BY <1>0, <2>1, <2>2, <3>1 DEF ProducerInStep, Threads
  <2>9. QueueDestroyed'
    BY <1>0, <1>12, <2>1, <2>2 DEF ClaimHeadFails, QueueDestroyed, shared, Threads
  <2> QED
    BY <2>4, <2>5, <2>6, <2>7, <2>8, <2>9 DEF IInv
<1>13. ASSUME NEW c \in Consumers, Empty(c) PROVE IInv'
  <2>1. /\ c \in Threads /\ (\A u \in Consumers : u = c) /\ c \notin Producers
    BY <1>0 DEF Threads, SPSC
  <2>2. /\ pc'[c] = "compare"
        /\ pc' = [pc EXCEPT ![c] = pc'[c]]
        /\ \A u \in Threads : u # c => pc'[u] = pc[u] /\ curr'[u] = curr[u]
    BY <1>0, <1>13, <2>1 DEF Empty, Goto, Return, TypeOK
  <2>3. pc'[c] \in ConsumerLines
    BY <2>2 DEF ConsumerLines
  <2>4. TypeOK'
    BY <1>0, <1>13, <2>1, <2>2, <2>3, SuccFacts DEF Empty, Return, shared, TypeOK, Threads
  <2>5. Quiet(c)
    BY <1>13, <2>2 DEF Quiet, Hands, Empty
  <2>6. FlagsExact' /\ StorageExact'
    BY <1>0, <2>1, <2>5, QuietFrame
  <2>7. ConsumerInStep'
    <3>1. curr'[c] = head /\ UNCHANGED <<head, tail, written>>
      BY <1>0, <1>13, <2>1 DEF Empty, shared, TypeOK
    <3> QED
      BY <1>0, <1>13, <2>1, <2>2, <3>1 DEF Empty, ConsumerInStep
  <2>8. ProducerInStep'
    <3>1. UNCHANGED <<head, tail, written>>
      BY <1>13 DEF Empty, shared
    <3> QED
      BY <1>0, <2>1, <2>2, <3>1 DEF ProducerInStep, Threads
  <2>9. QueueDestroyed'
    BY <1>0, <1>13, <2>1, <2>2 DEF Empty, QueueDestroyed, shared, Threads
  <2> QED
    BY <2>4, <2>5, <2>6, <2>7, <2>8, <2>9 DEF IInv
<1>14. ASSUME NEW c \in Consumers, Compare(c) PROVE IInv'
  <2>1. /\ c \in Threads /\ (\A u \in Consumers : u = c) /\ c \notin Producers
    BY <1>0 DEF Threads, SPSC
  <2>2. /\ pc'[c] = "idle"
        /\ pc' = [pc EXCEPT ![c] = pc'[c]]
        /\ \A u \in Threads : u # c => pc'[u] = pc[u] /\ curr'[u] = curr[u]
    BY <1>0, <1>14, <2>1 DEF Compare, Goto, Return, TypeOK
  <2>3. pc'[c] \in ConsumerLines
    BY <2>2 DEF ConsumerLines
  <2>4. TypeOK'
    BY <1>0, <1>14, <2>1, <2>2, <2>3, SuccFacts DEF Compare, Return, shared, TypeOK, Threads
  <2>5. Quiet(c)
    BY <1>14, <2>2 DEF Quiet, Hands, Compare
  <2>6. FlagsExact' /\ StorageExact'
    BY <1>0, <2>1, <2>5, QuietFrame
  <2>7. ConsumerInStep'
    <3>1. curr'[c] = curr[c] /\ UNCHANGED <<head, tail, written>>
      BY <1>0, <1>14, <2>1 DEF Compare, shared, TypeOK
    <3> QED
      BY <1>0, <1>14, <2>1, <2>2, <3>1 DEF Compare, ConsumerInStep
  <2>8. ProducerInStep'
    <3>1. UNCHANGED <<head, tail, written>>
      BY <1>14 DEF Compare, shared
    <3> QED
      BY <1>0, <2>1, <2>2, <3>1 DEF ProducerInStep, Threads
  <2>9. QueueDestroyed'
    BY <1>0, <1>14, <2>1, <2>2 DEF Compare, QueueDestroyed, shared, Threads
  <2> QED
    BY <2>4, <2>5, <2>6, <2>7, <2>8, <2>9 DEF IInv
<1>15. ASSUME NEW p \in Producers, ClaimTail(p) PROVE IInv'
  <2>1. /\ p \in Threads /\ (\A u \in Producers : u = p) /\ p \notin Consumers
    BY <1>0 DEF Threads, SPSC
  <2>2. /\ pc'[p] = "construct"
        /\ pc' = [pc EXCEPT ![p] = pc'[p]]
        /\ \A u \in Threads : u # p => pc'[u] = pc[u] /\ curr'[u] = curr[u]
    BY <1>0, <1>15, <2>1 DEF ClaimTail, Goto, Return, TypeOK
  <2>3. pc'[p] \in ProducerLines
    BY <2>2 DEF ProducerLines
  <2>4. TypeOK'
    BY <1>0, <1>15, <2>1, <2>2, <2>3, SuccFacts
    DEF ClaimTail, Return, shared, TypeOK, Threads
  <2>5. /\ curr[p] = tail
        /\ Succ(tail) # head
        /\ tail' = Succ(tail)
        /\ UNCHANGED <<head, written, storage>>
        /\ curr'[p] = curr[p]
        /\ curr[p] \in Nodes
        /\ head \in Nodes
        /\ tail \in Nodes
        /\ UNCHANGED alive
    BY <1>0, <1>15, <2>1 DEF ClaimTail, ProducerInStep, TypeOK
  <2>6. \A i \in Nodes : /\ ~Filling(i)
                         /\ (Filling(i)' <=> i = tail)
                         /\ ~Publishing(i)
                         /\ ~Publishing(i)'
    BY <1>15, <2>1, <2>2, <2>5 DEF ClaimTail, Filling, Publishing, Emptying, Clearing
  <2>7. \A i \in Nodes : /\ (Emptying(i)' <=> Emptying(i))
                         /\ (Clearing(i)' <=> Clearing(i))
    BY <1>0, <2>1, <2>2 DEF Filling, Publishing, Emptying, Clearing, Threads
  <2>8. written \in [Nodes -> BOOLEAN] /\ storage \in [Nodes -> Items \cup {Raw}]
    BY <1>0 DEF TypeOK
  <2>9. FlagsExact'
    BY <1>0, <2>5, <2>6, <2>7, <2>8, SuccFacts, RingFacts DEF FlagsExact
  <2>10. StorageExact'
    BY <1>0, <1>2, <2>5, <2>6, <2>7, <2>8 DEF StorageExact
  <2>11. ProducerInStep'
    BY <1>0, <2>1, <2>2, <2>5 DEF ProducerInStep
  <2>12. ConsumerInStep'
    BY <1>0, <1>2, <2>1, <2>2, <2>5, <2>6, <2>7, <2>8, SuccFacts
    DEF ConsumerInStep, Threads, FlagsExact, Filling, TypeOK
  <2>13. QueueDestroyed'
    BY <1>0, <1>15, <2>1, <2>2 DEF ClaimTail, QueueDestroyed, shared, Threads
  <2> QED
    BY <2>4, <2>9, <2>10, <2>11, <2>12, <2>13 DEF IInv
<1>16. ASSUME NEW p \in Producers, Construct(p) PROVE IInv'
  <2>1. /\ p \in Threads /\ (\A u \in Producers : u = p) /\ p \notin Consumers
    BY <1>0 DEF Threads, SPSC
  <2>2. /\ pc'[p] = "publish"
        /\ pc' = [pc EXCEPT ![p] = pc'[p]]
        /\ \A u \in Threads : u # p => pc'[u] = pc[u] /\ curr'[u] = curr[u]
    BY <1>0, <1>16, <2>1 DEF Construct, Goto, Return, TypeOK
  <2>3. pc'[p] \in ProducerLines
    BY <2>2 DEF ProducerLines
  <2>4. TypeOK'
    BY <1>0, <1>16, <2>1, <2>2, <2>3, SuccFacts
    DEF Construct, Return, shared, TypeOK, Threads
  <2>5. /\ tail = Succ(curr[p])
        /\ head # tail
        /\ storage' = [storage EXCEPT ![curr[p]] = item[p]]
        /\ item[p] # Raw
        /\ UNCHANGED <<head, tail, written>>
        /\ curr'[p] = curr[p]
        /\ curr[p] \in Nodes
        /\ head \in Nodes
        /\ tail \in Nodes
        /\ UNCHANGED alive
    BY <1>0, <1>16, <2>1 DEF Construct, ProducerInStep, TypeOK
  <2>6. \A i \in Nodes : /\ (Filling(i) <=> i = curr[p])
                         /\ (Filling(i)' <=> i = curr[p])
                         /\ ~Publishing(i)
                         /\ (Publishing(i)' <=> i = curr[p])
    BY <1>16, <2>1, <2>2, <2>5 DEF Construct, Filling, Publishing, Emptying, Clearing
  <2>7. \A i \in Nodes : /\ (Emptying(i)' <=> Emptying(i))
                         /\ (Clearing(i)' <=> Clearing(i))
    BY <1>0, <2>1, <2>2 DEF Filling, Publishing, Emptying, Clearing, Threads
  <2>8. written \in [Nodes -> BOOLEAN] /\ storage \in [Nodes -> Items \cup {Raw}]
    BY <1>0 DEF TypeOK
  <2>9. FlagsExact'
    BY <1>0, <2>5, <2>6, <2>7, <2>8, SuccFacts, RingFacts DEF FlagsExact
  <2>10. StorageExact'
    <3> SUFFICES ASSUME alive, NEW i \in Nodes
                 PROVE  storage'[i] = Raw <=> (~written'[i] /\ ~Publishing(i)') \/ Clearing(i)'
      BY <2>5 DEF StorageExact
    <3>1. storage[i] = Raw <=> (~written[i] /\ ~Publishing(i)) \/ Clearing(i)
      BY <1>0 DEF StorageExact
    <3>2. CASE i = curr[p]
      <4>1. /\ ~Filling(i) \/ ~Emptying(i)
            /\ Publishing(i) => Filling(i)
            /\ Clearing(i) => Emptying(i)
        BY <1>2
      <4>2. storage'[i] # Raw
        BY <2>5, <2>8, <3>2
      <4>3. Filling(i) /\ Publishing(i)' /\ (Clearing(i)' <=> Clearing(i))
        BY <2>6, <2>7, <3>2
      <4> QED
        BY <4>1, <4>2, <4>3
    <3>3. CASE i # curr[p]
      BY <2>5, <2>6, <2>7, <2>8, <3>1, <3>3
    <3> QED
      BY <3>2, <3>3
  <2>11. ProducerInStep'
    BY <1>0, <2>1, <2>2, <2>5 DEF ProducerInStep
  <2>12. ConsumerInStep'
    BY <1>0, <1>2, <2>1, <2>2, <2>5, <2>6, <2>7, <2>8, SuccFacts
    DEF ConsumerInStep, Threads, FlagsExact, Filling, TypeOK
  <2>13. QueueDestroyed'
    BY <1>0, <1>16, <2>1, <2>2 DEF Construct, QueueDestroyed, shared, Threads
  <2> QED
    BY <2>4, <2>9, <2>10, <2>11, <2>12, <2>13 DEF IInv
<1>17. ASSUME NEW p \in Producers, Publish(p) PROVE IInv'
  <2>1. /\ p \in Threads /\ (\A u \in Producers : u = p) /\ p \notin Consumers
    BY <1>0 DEF Threads, SPSC
  <2>2. /\ pc'[p] = "idle"
        /\ pc' = [pc EXCEPT ![p] = pc'[p]]
        /\ \A u \in Threads : u # p => pc'[u] = pc[u] /\ curr'[u] = curr[u]
    BY <1>0, <1>17, <2>1 DEF Publish, Goto, Return, TypeOK
  <2>3. pc'[p] \in ProducerLines
    BY <2>2 DEF ProducerLines
  <2>4. TypeOK'
    BY <1>0, <1>17, <2>1, <2>2, <2>3, SuccFacts DEF Publish, Return, shared, TypeOK, Threads
  <2>5. /\ tail = Succ(curr[p])
        /\ head # tail
        /\ written' = [written EXCEPT ![curr[p]] = TRUE]
        /\ UNCHANGED <<head, tail, storage>>
        /\ curr'[p] = curr[p]
        /\ curr[p] \in Nodes
        /\ head \in Nodes
        /\ tail \in Nodes
        /\ UNCHANGED alive
    BY <1>0, <1>17, <2>1 DEF Publish, ProducerInStep, TypeOK
  <2>6. \A i \in Nodes : /\ (Filling(i) <=> i = curr[p])
                         /\ ~Filling(i)'
                         /\ (Publishing(i) <=> i = curr[p])
                         /\ ~Publishing(i)'
    BY <1>17, <2>1, <2>2, <2>5 DEF Publish, Filling, Publishing, Emptying, Clearing
  <2>7. \A i \in Nodes : /\ (Emptying(i)' <=> Emptying(i))
                         /\ (Clearing(i)' <=> Clearing(i))
    BY <1>0, <2>1, <2>2 DEF Filling, Publishing, Emptying, Clearing, Threads
  <2>8. written \in [Nodes -> BOOLEAN] /\ storage \in [Nodes -> Items \cup {Raw}]
    BY <1>0 DEF TypeOK
  <2>9. FlagsExact'
    BY <1>0, <2>5, <2>6, <2>7, <2>8, SuccFacts, RingFacts DEF FlagsExact
  <2>10. StorageExact'
    BY <1>0, <1>2, <2>5, <2>6, <2>7, <2>8 DEF StorageExact
  <2>11. ProducerInStep'
    BY <1>0, <2>1, <2>2, <2>5 DEF ProducerInStep
  <2>12. ConsumerInStep'
    BY <1>0, <1>2, <2>1, <2>2, <2>5, <2>6, <2>7, <2>8, SuccFacts
    DEF ConsumerInStep, Threads, FlagsExact, Filling, TypeOK
  <2>13. QueueDestroyed'
    BY <1>0, <1>17, <2>1, <2>2 DEF Publish, QueueDestroyed, shared, Threads
  <2> QED
    BY <2>4, <2>9, <2>10, <2>11, <2>12, <2>13 DEF IInv
<1>18. ASSUME NEW c \in Consumers, ClaimHead(c) PROVE IInv'
  <2>1. /\ c \in Threads /\ (\A u \in Consumers : u = c) /\ c \notin Producers
    BY <1>0 DEF Threads, SPSC
  <2>2. /\ pc'[c] = "extract"
        /\ pc' = [pc EXCEPT ![c] = pc'[c]]
        /\ \A u \in Threads : u # c => pc'[u] = pc[u] /\ curr'[u] = curr[u]
    BY <1>0, <1>18, <2>1 DEF ClaimHead, Goto, Return, TypeOK
  <2>3. pc'[c] \in ConsumerLines
    BY <2>2 DEF ConsumerLines
  <2>4. TypeOK'
    BY <1>0, <1>18, <2>1, <2>2, <2>3, SuccFacts
    DEF ClaimHead, Return, shared, TypeOK, Threads
  <2>5. /\ curr[c] = head /\ head # tail /\ written[head] /\ head' = Succ(head)
        /\ UNCHANGED <<tail, written, storage>>
        /\ curr'[c] = curr[c]
        /\ curr[c] \in Nodes
        /\ head \in Nodes
        /\ tail \in Nodes
        /\ UNCHANGED alive
    BY <1>0, <1>18, <2>1 DEF ClaimHead, ConsumerInStep, TypeOK
  <2>6. \A i \in Nodes : /\ ~Emptying(i)
                         /\ (Emptying(i)' <=> i = head)
                         /\ ~Clearing(i)
                         /\ ~Clearing(i)'
    BY <1>18, <2>1, <2>2, <2>5 DEF ClaimHead, Filling, Publishing, Emptying, Clearing
  <2>7. \A i \in Nodes : /\ (Filling(i)' <=> Filling(i))
                         /\ (Publishing(i)' <=> Publishing(i))
    BY <1>0, <2>1, <2>2 DEF Filling, Publishing, Emptying, Clearing, Threads
  <2>8. written \in [Nodes -> BOOLEAN] /\ storage \in [Nodes -> Items \cup {Raw}]
    BY <1>0 DEF TypeOK
  <2>9. FlagsExact'
    BY <1>0, <2>5, <2>6, <2>7, <2>8, SuccFacts, RingFacts DEF FlagsExact
  <2>10. StorageExact'
    BY <1>0, <1>2, <2>5, <2>6, <2>7, <2>8 DEF StorageExact
  <2>11. ConsumerInStep'
    BY <1>0, <2>1, <2>2, <2>5 DEF ConsumerInStep
  <2>12. ProducerInStep'
    <3>1. alive
      BY <1>0, <1>18, <2>1 DEF ClaimHead, QueueDestroyed
    <3>2. ~Filling(head)
      BY <1>0, <2>5, <2>6, <3>1 DEF FlagsExact
    <3>3. \A q \in Producers : pc[q] \in {"construct", "publish"} => curr[q] # head
      BY <3>2 DEF Filling
    <3>4. \A q \in Producers : pc'[q] = pc[q] /\ curr'[q] = curr[q] /\ curr[q] \in Nodes
      BY <1>0, <2>1, <2>2 DEF Threads, TypeOK
    <3> QED
      BY <1>0, <2>5, <3>3, <3>4, SuccFacts DEF ProducerInStep
  <2>13. QueueDestroyed'
    BY <1>0, <1>18, <2>1, <2>2 DEF ClaimHead, QueueDestroyed, shared, Threads
  <2> QED
    BY <2>4, <2>9, <2>10, <2>11, <2>12, <2>13 DEF IInv
<1>19. ASSUME NEW c \in Consumers, Extract(c) PROVE IInv'
  <2>1. /\ c \in Threads /\ (\A u \in Consumers : u = c) /\ c \notin Producers
    BY <1>0 DEF Threads, SPSC
  <2>2. /\ pc'[c] = "clear"
        /\ pc' = [pc EXCEPT ![c] = pc'[c]]
        /\ \A u \in Threads : u # c => pc'[u] = pc[u] /\ curr'[u] = curr[u]
    BY <1>0, <1>19, <2>1 DEF Extract, Goto, Return, TypeOK
  <2>3. pc'[c] \in ConsumerLines
    BY <2>2 DEF ConsumerLines
  <2>4. TypeOK'
    BY <1>0, <1>19, <2>1, <2>2, <2>3, SuccFacts DEF Extract, Return, shared, TypeOK, Threads
  <2>5. /\ head = Succ(curr[c]) /\ storage' = [storage EXCEPT ![curr[c]] = Raw]
        /\ UNCHANGED <<head, tail, written>>
        /\ curr'[c] = curr[c]
        /\ curr[c] \in Nodes
        /\ head \in Nodes
        /\ tail \in Nodes
        /\ UNCHANGED alive
    BY <1>0, <1>19, <2>1 DEF Extract, ConsumerInStep, TypeOK
  <2>6. \A i \in Nodes : /\ (Emptying(i) <=> i = curr[c])
                         /\ (Emptying(i)' <=> i = curr[c])
                         /\ ~Clearing(i)
                         /\ (Clearing(i)' <=> i = curr[c])
    BY <1>19, <2>1, <2>2, <2>5 DEF Extract, Filling, Publishing, Emptying, Clearing
  <2>7. \A i \in Nodes : /\ (Filling(i)' <=> Filling(i))
                         /\ (Publishing(i)' <=> Publishing(i))
    BY <1>0, <2>1, <2>2 DEF Filling, Publishing, Emptying, Clearing, Threads
  <2>8. written \in [Nodes -> BOOLEAN] /\ storage \in [Nodes -> Items \cup {Raw}]
    BY <1>0 DEF TypeOK
  <2>9. FlagsExact'
    BY <1>0, <2>5, <2>6, <2>7, <2>8, SuccFacts, RingFacts DEF FlagsExact
  <2>10. StorageExact'
    BY <1>0, <1>2, <2>5, <2>6, <2>7, <2>8 DEF StorageExact
  <2>11. ConsumerInStep'
    BY <1>0, <2>1, <2>2, <2>5 DEF ConsumerInStep
  <2>12. ProducerInStep'
    BY <1>0, <1>2, <2>1, <2>2, <2>5, <2>6, <2>7, <2>8, SuccFacts
    DEF ProducerInStep, Threads, FlagsExact, Filling, TypeOK
  <2>13. QueueDestroyed'
    BY <1>0, <1>19, <2>1, <2>2 DEF Extract, QueueDestroyed, shared, Threads
  <2> QED
    BY <2>4, <2>9, <2>10, <2>11, <2>12, <2>13 DEF IInv
<1>20. ASSUME NEW c \in Consumers, Clear(c) PROVE IInv'
  <2>1. /\ c \in Threads /\ (\A u \in Consumers : u = c) /\ c \notin Producers
    BY <1>0 DEF Threads, SPSC
  <2>2. /\ pc'[c] = "idle"
        /\ pc' = [pc EXCEPT ![c] = pc'[c]]
        /\ \A u \in Threads : u # c => pc'[u] = pc[u] /\ curr'[u] = curr[u]
    BY <1>0, <1>20, <2>1 DEF Clear, Goto, Return, TypeOK
  <2>3. pc'[c] \in ConsumerLines
    BY <2>2 DEF ConsumerLines
  <2>4. TypeOK'
    BY <1>0, <1>20, <2>1, <2>2, <2>3, SuccFacts DEF Clear, Return, shared, TypeOK, Threads
  <2>5. /\ head = Succ(curr[c]) /\ written' = [written EXCEPT ![curr[c]] = FALSE]
        /\ UNCHANGED <<head, tail, storage>>
        /\ curr'[c] = curr[c]
        /\ curr[c] \in Nodes
        /\ head \in Nodes
        /\ tail \in Nodes
        /\ UNCHANGED alive
    BY <1>0, <1>20, <2>1 DEF Clear, ConsumerInStep, TypeOK
  <2>6. \A i \in Nodes : /\ (Emptying(i) <=> i = curr[c])
                         /\ ~Emptying(i)'
                         /\ (Clearing(i) <=> i = curr[c])
                         /\ ~Clearing(i)'
    BY <1>20, <2>1, <2>2, <2>5 DEF Clear, Filling, Publishing, Emptying, Clearing
  <2>7. \A i \in Nodes : /\ (Filling(i)' <=> Filling(i))
                         /\ (Publishing(i)' <=> Publishing(i))
    BY <1>0, <2>1, <2>2 DEF Filling, Publishing, Emptying, Clearing, Threads
  <2>8. written \in [Nodes -> BOOLEAN] /\ storage \in [Nodes -> Items \cup {Raw}]
    BY <1>0 DEF TypeOK
  <2>9. FlagsExact'
    BY <1>0, <2>5, <2>6, <2>7, <2>8, SuccFacts, RingFacts DEF FlagsExact
  <2>10. StorageExact'
    <3> SUFFICES ASSUME alive, NEW i \in Nodes
                 PROVE  storage'[i] = Raw <=> (~written'[i] /\ ~Publishing(i)') \/ Clearing(i)'
      BY <2>5 DEF StorageExact
    <3>1. storage[i] = Raw <=> (~written[i] /\ ~Publishing(i)) \/ Clearing(i)
      BY <1>0 DEF StorageExact
    <3>2. CASE i = curr[c]
      <4>1. /\ ~Filling(i) \/ ~Emptying(i)
            /\ Publishing(i) => Filling(i)
            /\ Clearing(i) => Emptying(i)
        BY <1>2
      <4>2. storage'[i] = storage[i] /\ ~written'[i]
        BY <2>5, <2>8, <3>2
      <4>3. Emptying(i) /\ Clearing(i) /\ (Publishing(i)' <=> Publishing(i))
        BY <2>6, <2>7, <3>2
      <4> QED
        BY <3>1, <4>1, <4>2, <4>3
    <3>3. CASE i # curr[c]
      BY <2>5, <2>6, <2>7, <2>8, <3>1, <3>3
    <3> QED
      BY <3>2, <3>3
  <2>11. ConsumerInStep'
    BY <1>0, <2>1, <2>2, <2>5 DEF ConsumerInStep
  <2>12. ProducerInStep'
    BY <1>0, <1>2, <2>1, <2>2, <2>5, <2>6, <2>7, <2>8, SuccFacts
    DEF ProducerInStep, Threads, FlagsExact, Filling, TypeOK
  <2>13. QueueDestroyed'
    BY <1>0, <1>20, <2>1, <2>2 DEF Clear, QueueDestroyed, shared, Threads
  <2> QED
    BY <2>4, <2>9, <2>10, <2>11, <2>12, <2>13 DEF IInv
<1>21. CASE Destroy
  BY <1>0, <1>21
  DEF Destroy, IInv, TypeOK, ProducerInStep, ConsumerInStep, FlagsExact, StorageExact,
      QueueDestroyed, Publishing, Clearing, Threads, local
<1> QED
  BY <1>1, <1>2, <1>3, <1>4, <1>5, <1>6, <1>7, <1>8, <1>9,
     <1>10, <1>11, <1>12, <1>13, <1>14, <1>15, <1>16,
     <1>17, <1>18, <1>19, <1>20, <1>21
  DEF Next, EnqueueStep, DequeueStep, Terminated

\* A new queue is empty, its nodes raw and unpublished.
LEMMA InitHolds == Items # {} /\ Init => IInv
<1> SUFFICES ASSUME Items # {}, Init PROVE IInv
  OBVIOUS
<1>1. SIZE \in Nat /\ SIZE >= 2
  BY QueueAssumption DEF QueueAssumption
<1>2. (CHOOSE x \in Items : TRUE) \in Items
  OBVIOUS
<1>3. TypeOK
  BY <1>1, <1>2 DEF Init, TypeOK, Nodes, Threads, ProducerLines, ConsumerLines
<1>4. \A i \in Nodes : /\ ~Between(0, 0, i)
                       /\ ~Filling(i) /\ ~Publishing(i) /\ ~Emptying(i) /\ ~Clearing(i)
  BY <1>1 DEF Init, Nodes, Threads, Between, Filling, Emptying, Publishing, Clearing
<1>5. FlagsExact /\ StorageExact
  BY <1>4 DEF Init, FlagsExact, StorageExact
<1>6. ProducerInStep /\ ConsumerInStep /\ QueueDestroyed
  BY DEF Init, ProducerInStep, ConsumerInStep, QueueDestroyed, Threads
<1> QED
  BY <1>3, <1>5, <1>6 DEF IInv

\* One producer and one consumer keep in step for ever, whatever the size of
\* the ring.
THEOREM Inductive ==
  ASSUME SPSC, Items # {} PROVE Spec => []IInv
<1>1. Init => IInv
  BY InitHolds
<1>2. IInv /\ [Next]_vars => IInv'
  BY StepPreserves
<1> QED
  BY <1>1, <1>2, PTL DEF Spec

\* The state of the queue is well typed.
THEOREM TypeCorrect ==
  ASSUME SPSC, Items # {} PROVE Spec => []TypeOK
<1>1. IInv => TypeOK
  BY DEF IInv
<1> QED
  BY <1>1, Inductive, PTL

\* With one producer and one consumer no two threads ever access one node's
\* storage, and objects are constructed and moved out where they should be.
THEOREM SlotsAlwaysExclusive ==
  ASSUME SPSC, Items # {} PROVE Spec => []SlotsExclusive
<1>1. IInv => SlotsExclusive
  <2> SUFFICES ASSUME IInv, NEW t \in Threads, NEW i \in Nodes, Accesses(t, i)
               PROVE  /\ \A u \in Threads : Accesses(u, i) => u = t
                      /\ storage[i] = Raw <=> pc[t] = "construct"
    BY DEF SlotsExclusive
  <2>1. alive
    BY DEF IInv, QueueDestroyed, Accesses
  <2>2. \A u \in Threads : /\ Accesses(u, i) => \/ u \in Producers /\ pc[u] = "construct"
                                                \/ u \in Consumers /\ pc[u] = "extract"
                           /\ u \in Producers => pc[u] # "extract"
                           /\ u \in Consumers => pc[u] # "construct"
    BY DEF IInv, TypeOK, Accesses, Threads, ProducerLines, ConsumerLines
  <2>3. ~(Filling(i) /\ Emptying(i))
    BY DEF IInv, Filling, Emptying, ProducerInStep, ConsumerInStep
  <2>4. \A u \in Threads : Accesses(u, i) =>
          (u \in Producers => Filling(i)) /\ (u \in Consumers => Emptying(i))
    BY <2>2 DEF Accesses, Filling, Emptying
  <2>5. \A u \in Threads : Accesses(u, i) => u = t
    BY <2>2, <2>3, <2>4 DEF SPSC
  <2>6. CASE t \in Producers
    <3>1. Filling(i) /\ ~Publishing(i) /\ ~Emptying(i) /\ ~Clearing(i)
      BY <2>2, <2>3, <2>4, <2>6 DEF SPSC, Publishing, Emptying, Clearing, Accesses
    <3>2. storage[i] = Raw
      BY <2>1, <3>1 DEF IInv, FlagsExact, StorageExact
    <3> QED
      BY <2>2, <2>5, <2>6, <3>2
  <2>7. CASE t \in Consumers
    <3>1. Emptying(i) /\ ~Clearing(i)
      BY <2>2, <2>4, <2>7 DEF SPSC, Clearing, Accesses
    <3>2. storage[i] # Raw
      BY <2>1, <3>1 DEF IInv, FlagsExact, StorageExact
    <3> QED
      BY <2>2, <2>5, <2>7, <3>2
  <2> QED
    BY <2>5, <2>6, <2>7 DEF Threads
<1> QED
  BY <1>1, Inductive, PTL

\* However the destructor finds the queue, it leaves no object behind.
THEOREM NothingEverLeftBehind ==
  ASSUME SPSC, Items # {} PROVE Spec => []NothingLeftBehind
<1>1. IInv => NothingLeftBehind
  BY DEF IInv, QueueDestroyed, NothingLeftBehind
<1> QED
  BY <1>1, Inductive, PTL

\* A claim never turns a queue that is being filled into an empty one: the
\* comparison with head_ an enqueue made earlier is still good when it claims.
THEOREM TailNeverMeets ==
  ASSUME SPSC, Items # {} PROVE Spec => TailNeverMeetsHead
<1>1. IInv /\ [Next]_vars => (tail' # tail => tail' # head)
  <2> SUFFICES ASSUME IInv, [Next]_vars, tail' # tail PROVE tail' # head
    OBVIOUS
  <2>1. PICK p \in Producers : ClaimTail(p)
    BY DEF Next, vars, shared, local, EnqueueStep, DequeueStep, Enqueue, LoadTail,
        CheckFull,
       CheckFree, ClaimTailFails, Construct, Publish, Dequeue, LoadHead, CheckEmpty,
       CheckReady, ClaimHead, ClaimHeadFails, Extract, Clear, Empty, Compare, Destroy,
       Terminated
  <2> QED
    BY <2>1 DEF ClaimTail, IInv, ProducerInStep
<1> QED
  BY <1>1, Inductive, PTL DEF Spec, TailNeverMeetsHead
-----------------------------------------------------------------------------
(* The bounded FIFO *)

\* What is published stays what enqueue was called with until it is flagged.
ConstructedItem ==
  \A p \in Producers : pc[p] = "publish" => storage[curr[p]] = item[p]

Values == Items \cup {Raw}

\* A function on 1..n is a sequence of length n.
LEMMA FunctionIsSequence ==
  ASSUME NEW S, NEW n \in Nat, NEW f \in [1..n -> S]
  PROVE  f \in Seq(S) /\ Len(f) = n
<1>1. f \in Seq(S)
  BY SeqDef
<1>2. Len(f) \in Nat /\ DOMAIN f = 1..Len(f) /\ DOMAIN f = 1..n
  BY <1>1, LenProperties
<1>3. Len(f) = n
  <2>1. CASE n = 0
    BY <1>2, <2>1
  <2>2. CASE n > 0
    <3>1. n \in 1..Len(f) /\ Len(f) >= 1
      BY <1>2, <2>2
    <3>2. Len(f) \in 1..n
      BY <1>2, <3>1
    <3> QED BY <1>2, <3>1, <3>2
  <2> QED BY <2>1, <2>2
<1> QED BY <1>1, <1>3

\* The places of the items are nodes between head_ and tail_.
LEMMA PlaceFacts ==
  ASSUME TypeOK
  PROVE  /\ Count \in 0..(SIZE - 1)
         /\ Count = 0 <=> head = tail
         /\ Count = SIZE - 1 <=> Succ(tail) = head
         /\ \A k \in 1..Count : Place(k) \in Nodes /\ Between(head, tail, Place(k))
         /\ Count > 0 => Place(1) = head
BY QueueAssumption DEF TypeOK, Nodes, Count, Place, Between, Succ

LEMMA ContentFacts ==
  ASSUME SPSC, TypeOK, NEW i \in Nodes
  PROVE  /\ Content[i] \in Values
         /\ ~Filling(i) => Content[i] = storage[i]
         /\ \A p \in Producers :
              pc[p] \in {"construct", "publish"} /\ curr[p] = i => Content[i] = item[p]
<1>1. ~Filling(i) => Claimant(i) = {}
  BY DEF Filling, Claimant
<1>2. \A p \in Producers : pc[p] \in {"construct", "publish"} /\ curr[p] = i => Claimant(i) = {p}
  BY DEF Claimant, SPSC
<1>3. Claimant(i) = {} => Content[i] = storage[i]
  BY DEF Content
<1>4. \A p \in Producers : Claimant(i) = {p} => Content[i] = item[p]
  BY DEF Content
<1> QED BY <1>1, <1>2, <1>3, <1>4 DEF TypeOK, Values, Filling

LEMMA QueueFacts ==
  ASSUME SPSC, TypeOK, alive
  PROVE  /\ FifoQueue \in Seq(Values) /\ Len(FifoQueue) = Count
         /\ \A k \in 1..Count : FifoQueue[k] = Content[Place(k)]
<1>1. FifoQueue = [k \in 1..Count |-> Content[Place(k)]]
  BY DEF FifoQueue
<1>2. Count \in Nat
  BY PlaceFacts, QueueAssumption
<1>3. \A k \in 1..Count : Content[Place(k)] \in Values
  BY PlaceFacts, ContentFacts
<1>4. FifoQueue \in [1..Count -> Values]
  BY <1>1, <1>3
<1> QED BY <1>1, <1>2, <1>4, FunctionIsSequence

\* Nodes that no item is in are out of sight.
LEMMA SameQueue ==
  ASSUME TypeOK, UNCHANGED <<head, tail, alive>>,
         \A i \in Nodes : Between(head, tail, i) => Content'[i] = Content[i]
  PROVE  FifoQueue' = FifoQueue
<1>1. Count' = Count /\ \A k \in 1..Count : Place(k)' = Place(k)
  BY DEF Count, Place
<1>2. \A k \in 1..Count : Content'[Place(k)] = Content[Place(k)]
  BY PlaceFacts
<1> QED BY <1>1, <1>2 DEF FifoQueue

\* A step that claims or gives up no node changes no item that is in the queue,
LEMMA QuietQueue ==
  ASSUME SPSC, TypeOK, NEW t \in Threads, Quiet(t),
         \A p \in Producers : pc[p] \in {"construct", "publish"} => item'[p] = item[p]
  PROVE  FifoQueue' = FifoQueue
<1>1. UNCHANGED <<head, tail, alive, storage>>
  BY DEF Quiet, shared
<1>2. \A p \in Producers : \/ pc'[p] = pc[p] /\ curr'[p] = curr[p]
                           \/ pc[p] \notin Hands /\ pc'[p] \notin Hands
  BY DEF Quiet, Threads
<1>3. \A i \in Nodes : Claimant(i)' = Claimant(i)
  BY <1>2 DEF Claimant, Hands
<1>4. \A i \in Nodes : Content'[i] = Content[i]
  <2> SUFFICES ASSUME NEW i \in Nodes PROVE Content'[i] = Content[i]
    OBVIOUS
  <2>1. CASE Claimant(i) = {}
    BY <1>1, <1>3, <2>1 DEF Content
  <2>2. CASE Claimant(i) # {}
    <3>1. PICK p \in Producers : pc[p] \in {"construct", "publish"} /\ Claimant(i) = {p}
      BY <2>2 DEF Claimant, SPSC
    <3> QED BY <1>3, <3>1 DEF Content
  <2> QED BY <2>1, <2>2
<1> QED BY <1>1, <1>4, SameQueue

\* and of the results at most that of the thread that takes it.
LEMMA QuietResult ==
  ASSUME TypeOK, TypeOK', NEW t \in Threads, Quiet(t),
         \A u \in Threads : u # t => res'[u] = res[u]
  PROVE  /\ FifoResult' = [FifoResult EXCEPT ![t] = res'[t]]
         /\ res'[t] = res[t] => FifoResult' = FifoResult
<1>1. UNCHANGED storage
  BY DEF Quiet, shared
<1>2. FifoResult[t] = res[t] /\ FifoResult'[t] = res'[t]
  BY DEF FifoResult, Quiet, Hands
<1>3. \A u \in Threads : u # t => FifoResult'[u] = FifoResult[u]
  BY <1>1 DEF FifoResult, Quiet
<1>4. DOMAIN FifoResult = Threads /\ DOMAIN FifoResult' = Threads
  BY DEF FifoResult
<1>5. /\ FifoResult = [u \in Threads |-> FifoResult[u]]
      /\ FifoResult' = [u \in Threads |-> FifoResult'[u]]
  BY DEF FifoResult
<1>6. FifoResult' = [FifoResult EXCEPT ![t] = res'[t]]
  BY <1>2, <1>3, <1>4, <1>5
<1>7. ASSUME res'[t] = res[t] PROVE FifoResult' = FifoResult
  <2>1. \A u \in Threads : FifoResult'[u] = FifoResult[u]
    BY <1>2, <1>3, <1>7
  <2> QED BY <1>5, <2>1
<1> QED BY <1>6, <1>7

LEMMA ConstructedStep ==
  ASSUME SPSC, IInv, ConstructedItem, [Next]_vars
  PROVE  ConstructedItem'
<1> SUFFICES ASSUME NEW p \in Producers, pc'[p] = "publish"
             PROVE  storage'[curr'[p]] = item'[p]
  BY DEF ConstructedItem
<1>0. p \in Threads /\ TypeOK /\ (\A q \in Producers : q = p) /\ Producers \cap Consumers = {}
  BY QueueAssumption DEF IInv, Threads, SPSC
<1>1. CASE pc[p] = "publish" /\ storage'[curr[p]] = storage[curr[p]] /\ curr'[p] = curr[p]
           /\ item'[p] = item[p]
  BY <1>1 DEF ConstructedItem
<1>2. CASE Construct(p)
  BY <1>0, <1>2 DEF Construct, TypeOK
<1>3. ASSUME NEW c \in Consumers, Extract(c)
      PROVE  pc[p] = "publish" /\ storage'[curr[p]] = storage[curr[p]] /\ curr'[p] = curr[p]
             /\ item'[p] = item[p]
  <2>1. pc[p] = "publish" /\ curr' = curr /\ item' = item
    BY <1>0, <1>3 DEF Extract, Goto, TypeOK
  <2>2. curr[c] # curr[p]
    BY <1>0, <1>3, <2>1 DEF Extract, IInv, ProducerInStep, ConsumerInStep
  <2> QED BY <1>0, <1>3, <2>1, <2>2 DEF Extract, TypeOK
<1>4. CASE UNCHANGED vars
  BY <1>1, <1>4 DEF vars, shared, local
<1>5. CASE Destroy
  BY <1>0, <1>5 DEF Destroy, local
<1>6. CASE \E x \in Items : Enqueue(p, x)
  BY <1>0, <1>6 DEF Enqueue, Goto, TypeOK
<1>7. CASE \/ LoadTail(p) \/ CheckFull(p) \/ CheckFree(p)
           \/ ClaimTail(p) \/ ClaimTailFails(p) \/ Publish(p)
  BY <1>0, <1>7 DEF LoadTail, CheckFull, CheckFree, ClaimTail, ClaimTailFails, Publish,
     Goto, Return, TypeOK
<1>8. ASSUME NEW c \in Consumers,
             Dequeue(c) \/ LoadHead(c) \/ CheckEmpty(c) \/ CheckReady(c) \/ ClaimHead(c)
             \/ ClaimHeadFails(c) \/ Clear(c) \/ Compare(c) \/ Empty(c)
      PROVE  pc[p] = "publish" /\ storage'[curr[p]] = storage[curr[p]] /\ curr'[p] = curr[p]
             /\ item'[p] = item[p]
  <2>1. p # c
    BY <1>0
  <2> QED
    BY <1>0, <1>8, <2>1 DEF Dequeue, LoadHead, CheckEmpty, CheckReady, ClaimHead, ClaimHeadFails,
       Clear, Compare, Empty, Goto, Return, TypeOK, shared
<1> QED
  BY <1>0, <1>1, <1>2, <1>3, <1>4, <1>5, <1>6, <1>7, <1>8
  DEF Next, EnqueueStep, DequeueStep, Terminated

(* The steps of the FIFO *)

\* Before its compare-exchange a call is not there yet.
LEMMA CallsBegin ==
  ASSUME SPSC, IInv, IInv', NEW t \in Threads,
         \/ t \in Producers /\ (\/ \E x \in Items : Enqueue(t, x)
                                \/ LoadTail(t) \/ CheckFree(t) \/ ClaimTailFails(t))
         \/ t \in Consumers /\ (\/ Dequeue(t) \/ LoadHead(t) \/ CheckReady(t)
                                \/ ClaimHeadFails(t) \/ Empty(t))
  PROVE  UNCHANGED <<FifoQueue, FifoResult>>
<1>1. TypeOK /\ TypeOK'
  BY DEF IInv
<1>2. /\ Quiet(t) /\ res' = res
      /\ \A p \in Producers : pc[p] \in {"construct", "publish"} => item'[p] = item[p]
  BY <1>1 DEF Enqueue, LoadTail, CheckFree, ClaimTailFails, Dequeue, LoadHead, CheckReady,
     ClaimHeadFails, Empty, Goto, Quiet, Hands, TypeOK
<1> QED BY <1>1, <1>2, QuietQueue, QuietResult

LEMMA ReturnIsQuiet ==
  ASSUME TypeOK, NEW t \in Threads, NEW v, pc[t] \notin Hands, Return(t, v),
         UNCHANGED <<shared, curr, item, alive>>
  PROVE  Quiet(t) /\ res'[t] = v /\ \A u \in Threads : u # t => res'[u] = res[u]
BY DEF Return, Goto, Quiet, Hands, TypeOK

LEMMA RejectStep ==
  ASSUME SPSC, IInv, IInv', NEW p \in Producers, CheckFull(p)
  PROVE  Fifo!Reject(p) \/ UNCHANGED <<FifoQueue, FifoResult>>
<1>1. TypeOK /\ TypeOK' /\ p \in Threads /\ alive
  BY DEF IInv, Threads, QueueDestroyed, CheckFull
<1>2. CASE Succ(curr[p]) = head
  <2>1. Quiet(p) /\ res'[p] = FALSE /\ \A u \in Threads : u # p => res'[u] = res[u]
    BY <1>1, <1>2, ReturnIsQuiet DEF CheckFull, Hands
  <2>2. FifoQueue' = FifoQueue
    BY <1>1, <2>1, QuietQueue DEF CheckFull
  <2>3. FifoResult' = [FifoResult EXCEPT ![p] = FALSE]
    BY <1>1, <2>1, QuietResult
  <2>4. Len(FifoQueue) = SIZE - 1
    BY <1>1, <1>2, QueueFacts, PlaceFacts DEF CheckFull, IInv, ProducerInStep
  <2> QED BY <2>2, <2>3, <2>4 DEF Fifo!Reject
<1>3. CASE Succ(curr[p]) # head
  <2>1. Quiet(p) /\ res' = res /\ item' = item
    BY <1>1, <1>3 DEF CheckFull, Goto, Quiet, Hands, TypeOK
  <2> QED BY <1>1, <2>1, QuietQueue, QuietResult
<1> QED BY <1>2, <1>3

LEMMA MissStep ==
  ASSUME SPSC, IInv, IInv', NEW c \in Consumers, CheckEmpty(c)
  PROVE  Fifo!Miss(c) \/ UNCHANGED <<FifoQueue, FifoResult>>
<1>1. TypeOK /\ TypeOK' /\ c \in Threads /\ alive
  BY DEF IInv, Threads, QueueDestroyed, CheckEmpty
<1>2. CASE curr[c] = tail
  <2>1. Quiet(c) /\ res'[c] = NullOpt /\ \A u \in Threads : u # c => res'[u] = res[u]
    BY <1>1, <1>2, ReturnIsQuiet DEF CheckEmpty, Hands
  <2>2. FifoQueue' = FifoQueue
    BY <1>1, <2>1, QuietQueue DEF CheckEmpty
  <2>3. FifoResult' = [FifoResult EXCEPT ![c] = NullOpt]
    BY <1>1, <2>1, QuietResult
  <2>4. Count = 0
    BY <1>1, <1>2, PlaceFacts DEF CheckEmpty, IInv, ConsumerInStep
  <2>5. FifoQueue = << >>
    BY <1>1, <2>4, QueueFacts, EmptySeq
  <2> QED BY <2>2, <2>3, <2>5 DEF Fifo!Miss
<1>3. CASE curr[c] # tail
  <2>1. Quiet(c) /\ res' = res /\ item' = item
    BY <1>1, <1>3 DEF CheckEmpty, Goto, Quiet, Hands, TypeOK
  <2> QED BY <1>1, <2>1, QuietQueue, QuietResult
<1> QED BY <1>2, <1>3

LEMMA IsEmptyStep ==
  ASSUME SPSC, IInv, IInv', NEW c \in Consumers, Compare(c)
  PROVE  Fifo!IsEmpty(c)
<1>1. TypeOK /\ TypeOK' /\ c \in Threads /\ alive
  BY DEF IInv, Threads, QueueDestroyed, Compare
<1>2. Quiet(c) /\ res'[c] = (curr[c] = tail) /\ \A u \in Threads : u # c => res'[u] = res[u]
  BY <1>1, ReturnIsQuiet DEF Compare, Hands
<1>3. FifoQueue' = FifoQueue
  BY <1>1, <1>2, QuietQueue DEF Compare
<1>4. FifoResult' = [FifoResult EXCEPT ![c] = (curr[c] = tail)]
  BY <1>1, <1>2, QuietResult
<1>5. curr[c] = tail <=> Count = 0
  BY <1>1, PlaceFacts DEF Compare, IInv, ConsumerInStep
<1>6. Count = 0 <=> FifoQueue = << >>
  BY <1>1, QueueFacts, EmptySeq
<1>7. (curr[c] = tail) = (FifoQueue = << >>)
  BY <1>5, <1>6
<1> QED BY <1>3, <1>4, <1>7 DEF Fifo!IsEmpty

\* A thread's claim on a node is told by its own line and node alone.
LEMMA SameContent ==
  ASSUME SPSC, TypeOK, NEW i \in Nodes,
         \A p \in Producers : p \in Claimant(i)' <=> p \in Claimant(i),
         \A p \in Claimant(i) : item'[p] = item[p],
         storage'[i] = storage[i] \/ Claimant(i) # {}
  PROVE  Content'[i] = Content[i]
<1>1. Claimant(i)' = Claimant(i)
  BY DEF Claimant
<1>2. CASE Claimant(i) = {}
  BY <1>1, <1>2 DEF Content
<1>3. CASE Claimant(i) # {}
  <2>1. PICK p \in Producers : Claimant(i) = {p}
    BY <1>3 DEF Claimant, SPSC
  <2> QED BY <1>1, <2>1 DEF Content
<1> QED BY <1>2, <1>3

\* One more item is in the last of the places.
LEMMA PutStep ==
  ASSUME SPSC, IInv, IInv', NEW p \in Producers, ClaimTail(p)
  PROVE  Fifo!Put(p, item[p]) /\ item[p] \in Items
<1>1. /\ TypeOK /\ TypeOK' /\ p \in Threads /\ p \notin Consumers /\ alive /\ alive'
      /\ \A q \in Producers : q = p
  BY QueueAssumption DEF IInv, Threads, QueueDestroyed, ClaimTail, SPSC
<1>2. /\ curr[p] = tail /\ tail' = Succ(tail) /\ Succ(tail) # head
      /\ tail \in Nodes /\ head \in Nodes
      /\ UNCHANGED <<head, storage, curr, item, res>>
  BY <1>1 DEF ClaimTail, IInv, ProducerInStep, TypeOK
<1>3. pc[p] = "claim" /\ pc'[p] = "construct" /\ \A u \in Threads : u # p => pc'[u] = pc[u]
  BY <1>1 DEF ClaimTail, Goto, TypeOK
<1>4. Count' = Count + 1 /\ Place(Count + 1) = tail /\ Count < SIZE - 1 /\ Count \in Nat
  BY <1>2, QueueAssumption DEF Count, Place, Succ, Nodes
<1>5. \A k \in 1..Count' : Place(k)' = Place(k)
  BY <1>2 DEF Place
<1>6. Content'[tail] = item[p]
  <2>1. \A i \in Nodes : i = tail => Claimant(i)' = {p}
    BY <1>1, <1>2, <1>3 DEF Claimant
  <2> QED BY <1>2, <2>1 DEF Content
<1>7. \A i \in Nodes : i # tail => Content'[i] = Content[i]
  <2> SUFFICES ASSUME NEW i \in Nodes, i # tail PROVE Content'[i] = Content[i]
    OBVIOUS
  <2>1. Claimant(i) = {} /\ Claimant(i)' = {}
    BY <1>1, <1>2, <1>3 DEF Claimant
  <2> QED BY <1>2, <2>1 DEF Content
<1>8. \A k \in 1..Count : Place(k) \in Nodes /\ Place(k) # tail
  BY <1>1, <1>2, PlaceFacts, RingFacts
<1>9. FifoQueue' = [k \in 1..(Count + 1) |-> Content'[Place(k)]]
  BY <1>1, <1>4, <1>5 DEF FifoQueue
<1>10. \A k \in 1..(Count + 1) : k \in 1..Count \/ k = Count + 1
  BY <1>4
<1>11. /\ FifoQueue \in Seq(Values) /\ Len(FifoQueue) = Count
       /\ \A k \in 1..Count : FifoQueue[k] = Content[Place(k)]
  BY <1>1, QueueFacts
<1>12. item[p] \in Items /\ item[p] \in Values
  BY <1>1 DEF TypeOK, Values
<1>13. \A k \in 1..(Count + 1) :
         Content'[Place(k)] = IF k = Count + 1 THEN item[p] ELSE FifoQueue[k]
  BY <1>4, <1>6, <1>7, <1>8, <1>10, <1>11
<1>14. FifoQueue' \in Seq(Values) /\ Len(FifoQueue') = Count + 1
  <2>1. \A k \in 1..(Count + 1) : Content'[Place(k)] \in Values
    BY <1>1, <1>4, <1>8, <1>10, <1>11, <1>12, <1>13, ContentFacts
  <2>2. FifoQueue' \in [1..(Count + 1) -> Values]
    BY <1>9, <2>1
  <2> QED BY <1>4, <2>2, FunctionIsSequence
<1>15. /\ Append(FifoQueue, item[p]) \in Seq(Values) /\ Len(Append(FifoQueue, item[p])) = Count + 1
       /\ \A k \in 1..Count : Append(FifoQueue, item[p])[k] = FifoQueue[k]
       /\ Append(FifoQueue, item[p])[Count + 1] = item[p]
  BY <1>11, <1>12, AppendProperties
<1>16. \A k \in 1..(Count + 1) : FifoQueue'[k] = Append(FifoQueue, item[p])[k]
  BY <1>9, <1>10, <1>13, <1>15
<1>17. FifoQueue' = Append(FifoQueue, item[p])
  BY <1>14, <1>15, <1>16, SeqEqual
<1>18. FifoResult' = [FifoResult EXCEPT ![p] = TRUE]
  <2>1. \A u \in Threads : u # p => FifoResult'[u] = FifoResult[u]
    BY <1>2, <1>3 DEF FifoResult
  <2>2. FifoResult'[p] = TRUE
    BY <1>1, <1>3 DEF FifoResult
  <2>3. /\ FifoResult' = [u \in Threads |-> FifoResult'[u]]
        /\ FifoResult = [u \in Threads |-> FifoResult[u]]
    BY DEF FifoResult
  <2> QED BY <1>1, <2>1, <2>2, <2>3
<1> QED BY <1>4, <1>11, <1>12, <1>17, <1>18 DEF Fifo!Put

\* The first item goes; the places of the others move up by one.
LEMMA TakeStep ==
  ASSUME SPSC, IInv, IInv', NEW c \in Consumers, ClaimHead(c)
  PROVE  Fifo!Take(c)
<1>1. /\ TypeOK /\ TypeOK' /\ c \in Threads /\ c \notin Producers /\ alive /\ alive'
  BY QueueAssumption DEF IInv, Threads, QueueDestroyed, ClaimHead
<1>2. /\ curr[c] = head /\ head' = Succ(head) /\ tail \in Nodes /\ head \in Nodes /\ head # tail
      /\ UNCHANGED <<tail, storage, curr, item, res>> /\ written[head]
  BY <1>1 DEF ClaimHead, IInv, ConsumerInStep, TypeOK
<1>3. pc[c] = "advance" /\ pc'[c] = "extract" /\ \A u \in Threads : u # c => pc'[u] = pc[u]
  BY <1>1 DEF ClaimHead, Goto, TypeOK
<1>4. Count \in Nat /\ Count > 0 /\ Count' = Count - 1 /\ Place(1) = head
  BY <1>2, QueueAssumption DEF Count, Place, Succ, Nodes
<1>5. \A k \in 1..(Count - 1) : Place(k)' = Place(k + 1)
  BY <1>2, <1>4, QueueAssumption DEF Count, Place, Succ, Nodes
<1>6. \A i \in Nodes : Content'[i] = Content[i]
  <2>1. \A i \in Nodes : Claimant(i)' = Claimant(i)
    BY <1>1, <1>2, <1>3 DEF Claimant, Threads
  <2> QED BY <1>1, <1>2, <2>1, SameContent
<1>7. \A k \in 1..Count : Place(k) \in Nodes
  BY <1>1, PlaceFacts
<1>8. /\ FifoQueue \in Seq(Values) /\ Len(FifoQueue) = Count
      /\ \A k \in 1..Count : FifoQueue[k] = Content[Place(k)]
  BY <1>1, QueueFacts
<1>9. \A k \in 1..(Count - 1) : k + 1 \in 1..Count
  BY <1>4
<1>10. FifoQueue' = [k \in 1..(Count - 1) |-> FifoQueue[k + 1]]
  <2>1. FifoQueue' = [k \in 1..(Count - 1) |-> Content'[Place(k)']]
    BY <1>1, <1>4 DEF FifoQueue
  <2>2. \A k \in 1..(Count - 1) : Content'[Place(k)'] = FifoQueue[k + 1]
    BY <1>5, <1>6, <1>7, <1>8, <1>9
  <2> QED BY <2>1, <2>2
<1>11. FifoQueue # << >>
  BY <1>4, <1>8, EmptySeq
<1>12. FifoQueue' = Tail(FifoQueue)
  <2>1. /\ Tail(FifoQueue) \in Seq(Values) /\ Len(Tail(FifoQueue)) = Count - 1
        /\ \A k \in 1..(Count - 1) : Tail(FifoQueue)[k] = FifoQueue[k + 1]
    BY <1>8, <1>11, HeadTailProperties
  <2>2. \A k \in 1..(Count - 1) : FifoQueue[k + 1] \in Values
    BY <1>8, <1>9, <1>7, <1>1, ContentFacts
  <2>3. FifoQueue' \in Seq(Values) /\ Len(FifoQueue') = Count - 1
    <3>1. FifoQueue' \in [1..(Count - 1) -> Values]
      BY <1>10, <2>2
    <3> QED BY <1>4, <3>1, FunctionIsSequence
  <2>4. \A k \in 1..(Count - 1) : FifoQueue'[k] = Tail(FifoQueue)[k]
    BY <1>10, <2>1
  <2> QED BY <2>1, <2>3, <2>4, SeqEqual
<1>13. Head(FifoQueue) = storage[head]
  <2>1. ~Filling(head)
    BY <1>1, <1>2, <1>3, SuccFacts
    DEF IInv, FlagsExact, Emptying, ProducerInStep, Filling, ConsumerInStep
  <2>2. Content[head] = storage[head]
    BY <1>1, <1>2, <2>1, ContentFacts
  <2>3. Head(FifoQueue) = FifoQueue[1]
    BY <1>8, <1>11, HeadTailProperties
  <2> QED BY <1>4, <1>8, <2>2, <2>3
<1>14. FifoResult' = [FifoResult EXCEPT ![c] = storage[head]]
  <2>1. \A u \in Threads : u # c => FifoResult'[u] = FifoResult[u]
    BY <1>2, <1>3 DEF FifoResult
  <2>2. FifoResult'[c] = storage[head]
    BY <1>1, <1>2, <1>3 DEF FifoResult
  <2>3. /\ FifoResult' = [u \in Threads |-> FifoResult'[u]]
        /\ FifoResult = [u \in Threads |-> FifoResult[u]]
    BY DEF FifoResult
  <2> QED BY <1>1, <2>1, <2>2, <2>3
<1> QED BY <1>11, <1>12, <1>13, <1>14 DEF Fifo!Take

\* What follows a compare-exchange is not seen.
LEMMA ProducerFollows ==
  ASSUME SPSC, IInv, ConstructedItem, NEW p \in Producers, Construct(p) \/ Publish(p)
  PROVE  UNCHANGED <<FifoQueue, FifoResult>>
<1>1. /\ TypeOK /\ p \in Threads /\ p \notin Consumers /\ \A q \in Producers : q = p
  BY QueueAssumption DEF IInv, Threads, SPSC
<1>2. /\ UNCHANGED <<head, tail, curr, item, alive>> /\ pc[p] \in {"construct", "publish"}
      /\ curr[p] \in Nodes /\ \A u \in Threads : u # p => pc'[u] = pc[u] /\ res'[u] = res[u]
      /\ \A i \in Nodes : i # curr[p] => storage'[i] = storage[i]
  BY <1>1 DEF Construct, Publish, Goto, Return, TypeOK
<1>3. Claimant(curr[p]) = {p} /\ Content[curr[p]] = item[p]
  BY <1>1, <1>2, ContentFacts DEF Claimant
<1>4. Content'[curr[p]] = item[p]
  <2>1. CASE Construct(p)
    <3>1. Claimant(curr[p])' = {p}
      BY <1>1, <1>2, <2>1 DEF Construct, Goto, Claimant, TypeOK
    <3> QED BY <1>2, <3>1 DEF Content
  <2>2. CASE Publish(p)
    <3>1. Claimant(curr[p])' = {}
      BY <1>1, <1>2, <2>2 DEF Publish, Goto, Return, Claimant, TypeOK
    <3>2. storage'[curr[p]] = item[p]
      BY <2>2 DEF Publish, ConstructedItem
    <3> QED BY <1>2, <3>1, <3>2 DEF Content
  <2> QED BY <2>1, <2>2
<1>5. \A i \in Nodes : i # curr[p] => Content'[i] = Content[i]
  <2> SUFFICES ASSUME NEW i \in Nodes, i # curr[p] PROVE Content'[i] = Content[i]
    OBVIOUS
  <2>1. Claimant(i) = {} /\ Claimant(i)' = {}
    BY <1>1, <1>2 DEF Claimant
  <2> QED BY <1>2, <2>1 DEF Content
<1>6. FifoQueue' = FifoQueue
  BY <1>1, <1>2, <1>3, <1>4, <1>5, SameQueue
<1>7. FifoResult' = FifoResult
  <2>1. FifoResult[p] = TRUE
    BY <1>1, <1>2 DEF FifoResult
  <2>2. FifoResult'[p] = TRUE
    BY <1>1 DEF FifoResult, Construct, Publish, Goto, Return, TypeOK
  <2>3. ASSUME NEW u \in Threads, u # p PROVE FifoResult'[u] = FifoResult[u]
    <3>1. pc[u] = "extract" => storage'[curr[u]] = storage[curr[u]]
      <4>1. pc[u] = "extract" => u \in Consumers /\ curr[u] \in Nodes
        BY <1>1, <2>3 DEF TypeOK, Threads
      <4>2. pc[u] = "extract" => curr[u] # curr[p]
        BY <1>1, <1>2, <4>1 DEF IInv, ProducerInStep, ConsumerInStep
      <4> QED BY <1>2, <4>1, <4>2
    <3> QED BY <1>2, <2>3, <3>1 DEF FifoResult
  <2> QED BY <2>1, <2>2, <2>3 DEF FifoResult
<1> QED BY <1>6, <1>7

LEMMA ConsumerFollows ==
  ASSUME SPSC, IInv, NEW c \in Consumers, Extract(c) \/ Clear(c)
  PROVE  UNCHANGED <<FifoQueue, FifoResult>>
<1>1. /\ TypeOK /\ c \in Threads /\ c \notin Producers
  BY QueueAssumption DEF IInv, Threads
<1>2. /\ UNCHANGED <<head, tail, curr, item, alive>>
      /\ Succ(curr[c]) = head /\ head \in Nodes /\ tail \in Nodes
      /\ curr[c] \in Nodes /\ \A u \in Threads : u # c => pc'[u] = pc[u] /\ res'[u] = res[u]
      /\ \A i \in Nodes : i # curr[c] => storage'[i] = storage[i]
  BY <1>1 DEF Extract, Clear, Goto, TypeOK, IInv, ConsumerInStep
<1>3. \A i \in Nodes : Claimant(i)' = Claimant(i)
  BY <1>1, <1>2 DEF Claimant, Threads
<1>4. \A i \in Nodes : Between(head, tail, i) => i # curr[c]
  BY <1>2, RingFacts
<1>5. \A i \in Nodes : Between(head, tail, i) => Content'[i] = Content[i]
  BY <1>1, <1>2, <1>3, <1>4, SameContent
<1>6. FifoQueue' = FifoQueue
  BY <1>1, <1>2, <1>5, SameQueue
<1>7. FifoResult' = FifoResult
  <2>1. FifoResult'[c] = FifoResult[c]
    BY <1>1 DEF FifoResult, Extract, Clear, Goto, TypeOK
  <2>2. ASSUME NEW u \in Threads, u # c PROVE FifoResult'[u] = FifoResult[u]
    <3>1. pc[u] # "extract"
      BY <1>1, <2>2 DEF IInv, TypeOK, SPSC, Threads, ProducerLines
    <3> QED BY <1>2, <2>2, <3>1 DEF FifoResult
  <2> QED BY <2>1, <2>2 DEF FifoResult
<1> QED BY <1>6, <1>7

LEMMA DropStep ==
  ASSUME IInv, Destroy
  PROVE  Fifo!Drop
<1>1. FifoQueue' = << >>
  BY DEF Destroy, FifoQueue
<1>2. \A t \in Threads : FifoResult'[t] = FifoResult[t]
  BY DEF Destroy, local, FifoResult
<1>3. FifoResult' = FifoResult
  BY <1>2 DEF FifoResult
<1> QED BY <1>1, <1>3 DEF Fifo!Drop

LEMMA FifoStep ==
  ASSUME SPSC, IInv, IInv', ConstructedItem, [Next]_vars
  PROVE  [Fifo!Next]_(Fifo!vars)
<1>1. ASSUME UNCHANGED vars PROVE UNCHANGED <<FifoQueue, FifoResult>>
  <2>1. /\ \A i : Claimant(i)' = Claimant(i)
        /\ Count' = Count /\ \A k : Place(k)' = Place(k)
    BY <1>1 DEF vars, shared, local, Claimant, Count, Place
  <2>2. \A i \in Nodes : Content'[i] = Content[i]
    BY <1>1, <2>1, SameContent DEF IInv, vars, shared, local, Claimant
  <2>3. FifoQueue' = FifoQueue
    BY <1>1, <2>2, SameQueue DEF IInv, vars, shared
  <2>4. FifoResult' = FifoResult
    BY <1>1 DEF vars, shared, local, FifoResult
  <2> QED BY <2>3, <2>4
<1>2. ASSUME NEW p \in Producers, EnqueueStep(p) \/ \E x \in Items : Enqueue(p, x)
      PROVE  [Fifo!Next]_(Fifo!vars)
  <2>1. p \in Threads
    BY DEF Threads
  <2>2. CASE ClaimTail(p)
    BY <2>2, PutStep DEF Fifo!Next
  <2>3. CASE CheckFull(p)
    BY <2>3, RejectStep DEF Fifo!Next, Fifo!vars
  <2>4. CASE Construct(p) \/ Publish(p)
    BY <2>4, ProducerFollows DEF Fifo!vars
  <2>5. CASE (\E x \in Items : Enqueue(p, x)) \/ LoadTail(p) \/ CheckFree(p) \/ ClaimTailFails(p)
    BY <2>1, <2>5, CallsBegin DEF Fifo!vars
  <2> QED BY <1>2, <2>2, <2>3, <2>4, <2>5 DEF EnqueueStep
<1>3. ASSUME NEW c \in Consumers, DequeueStep(c) \/ Dequeue(c) \/ Empty(c)
      PROVE  [Fifo!Next]_(Fifo!vars)
  <2>1. c \in Threads
    BY DEF Threads
  <2>2. CASE ClaimHead(c)
    BY <2>2, TakeStep DEF Fifo!Next
  <2>3. CASE CheckEmpty(c)
    BY <2>3, MissStep DEF Fifo!Next, Fifo!vars
  <2>4. CASE Compare(c)
    BY <2>4, IsEmptyStep DEF Fifo!Next
  <2>5. CASE Extract(c) \/ Clear(c)
    BY <2>5, ConsumerFollows DEF Fifo!vars
  <2>6. CASE Dequeue(c) \/ LoadHead(c) \/ CheckReady(c) \/ ClaimHeadFails(c) \/ Empty(c)
    BY <2>1, <2>6, CallsBegin DEF Fifo!vars
  <2> QED BY <1>3, <2>2, <2>3, <2>4, <2>5, <2>6 DEF DequeueStep
<1>4. CASE Destroy
  BY <1>4, DropStep DEF Fifo!Next
<1>5. CASE UNCHANGED vars \/ Terminated
  BY <1>1, <1>5 DEF Terminated, Fifo!vars
<1> QED BY <1>2, <1>3, <1>4, <1>5 DEF Next

LEMMA FifoInit ==
  ASSUME Init
  PROVE  Fifo!Init
<1>1. Count = 0
  BY DEF Init, Count
<1>2. alive /\ FifoQueue = [k \in 1..Count |-> Content[Place(k)]]
  BY DEF Init, FifoQueue
<1>3. FifoQueue \in [1..0 -> {}]
  BY <1>1, <1>2
<1>4. FifoQueue = << >>
  BY <1>3, FunctionIsSequence, EmptySeq
<1>5. FifoResult = [t \in Producers \cup Consumers |-> FALSE]
  BY DEF Init, FifoResult, Threads
<1> QED BY <1>4, <1>5 DEF Fifo!Init

\* With one producer and one consumer the ring of any size is the FIFO, with
\* every enqueue and dequeue taking effect at its compare-exchange.
THEOREM AlwaysImplementsFifo ==
  ASSUME SPSC, Items # {} PROVE Spec => ImplementsFifo
<1>1. Init => Fifo!Init /\ ConstructedItem
  BY FifoInit DEF Init, ConstructedItem, Threads
<1>2. IInv /\ ConstructedItem /\ [Next]_vars => ConstructedItem'
  BY ConstructedStep
<1>3. IInv /\ IInv' /\ ConstructedItem /\ [Next]_vars => [Fifo!Next]_(Fifo!vars)
  BY FifoStep
<1> QED BY <1>1, <1>2, <1>3, Inductive, PTL DEF Spec, ImplementsFifo, Fifo!Spec
-----------------------------------------------------------------------------
(* AsyncLogger.  Of each output LoggerIInv says what it has had and what is *)
(* on the way to it: both in order (InOrder) and, if nothing was dropped,   *)
(* without a gap (Gapless).  A row is on the way until it is in the file,   *)
(* from the queue or from the hands of the CSV thread (OnTheWay).  Of the   *)
(* threads it says that none exits while something may still come (Exits).  *)


Logging == {"enqueue csv", "send to db"}

\* The entry at hand of a thread is one that was logged.
AtHand ==
  /\ trader \in Logging => entry["trader"] \in Entries /\ entry["trader"].n = logged
  /\ csv = "write" => entry["csv"] \in Entries

\* An output and what is on the way to it, when top entries were sent its way.
InOrder(out, way, top) ==
  /\ \A i, j \in DOMAIN out : i < j => out[i] < out[j]
  /\ \A i, j \in DOMAIN way : i < j => way[i].n < way[j].n
  /\ \A i \in DOMAIN out, j \in DOMAIN way : out[i] < way[j].n
  /\ \A i \in DOMAIN out : out[i] <= top
  /\ \A j \in DOMAIN way : way[j].n <= top

Gapless(out, way, top) ==
  /\ Len(out) + Len(way) = top
  /\ \A i \in DOMAIN out : out[i] = i
  /\ \A j \in DOMAIN way : way[j].n = Len(out) + j

Reaches(out, way, top) ==
  InOrder(out, way, top) /\ (drops = 0 => Gapless(out, way, top))

OnTheWay == IF csv = "write" THEN <<entry["csv"]>> \o csv_queue ELSE csv_queue
CsvTop   == IF trader = "enqueue csv" THEN logged - 1 ELSE logged
DbTop    == IF trader \in Logging THEN logged - 1 ELSE logged

Outputs ==
  /\ Reaches(printed, console_queue, logged)
  /\ Reaches(rows, OnTheWay, CsvTop)
  /\ Len(db) = DbTop /\ \A i \in DOMAIN db : db[i] = i

\* The threads end after the destructor told them to, their queue empty.
Exits ==
  /\ running <=> trader \in {"idle"} \cup Logging
  /\ console \in {"empty?", "exited"} => ~running
  /\ console = "exited" => console_queue = << >>
  /\ csv \in {"empty?", "flush", "exited"} => ~running
  /\ csv \in {"flush", "exited"} => csv_queue = << >>
  /\ trader \in {"join csv", "destroyed"} => console = "exited"
  /\ trader = "destroyed" => csv = "exited"

\* The pending lines lie back to back from the start of the file.
Placed(buffer, offset, lines) ==
  \E start \in [1..(Len(lines) + 1) -> 0..offset] :
    /\ start[1] = 0 /\ start[Len(lines) + 1] = offset
    /\ \A k \in DOMAIN lines :
         /\ start[k + 1] = start[k] + lines[k].size
         /\ \A j \in 1..lines[k].size : buffer[start[k] + j] = <<lines[k].n, j>>

AtRisk(lines) == {k \in DOMAIN lines : lines[k].n # 0}

Recent ==
  /\ Cardinality(AtRisk(pending)) <= entries_since_flush
  /\ \A k \in AtRisk(pending) : pending[k].minute = last_flush_time

\* A row given to the file has been synced or is pending; none is pending when
\* csv_loop is over.
Kept(out, lines, disk) ==
  \A k \in DOMAIN out : out[k] \in disk \/ \E i \in DOMAIN lines : lines[i].n = out[k]

FlushedAtEnd == csv = "exited" => pending = << >>

LoggerIInv == /\ LoggerTypeOK /\ AtHand /\ Outputs /\ Exits
              /\ Placed(log_buffer, buffer_offset, pending) /\ Recent
              /\ Kept(rows, pending, synced) /\ FlushedAtEnd

(* Sequences *)

LEMMA AppendFacts ==
  ASSUME NEW S, NEW s \in Seq(S), NEW x \in S
  PROVE  /\ Append(s, x) \in Seq(S)
         /\ Len(s) \in Nat /\ Len(Append(s, x)) = Len(s) + 1
         /\ DOMAIN s = 1..Len(s) /\ DOMAIN Append(s, x) = 1..(Len(s) + 1)
         /\ \A k \in 1..Len(s) : Append(s, x)[k] = s[k] /\ s[k] \in S
         /\ Append(s, x)[Len(s) + 1] = x
BY AppendProperties, LenProperties, ElementOfSeq

LEMMA TailFacts ==
  ASSUME NEW S, NEW s \in Seq(S), s # << >>
  PROVE  /\ Tail(s) \in Seq(S) /\ Head(s) \in S /\ Head(s) = s[1]
         /\ Len(s) \in Nat /\ Len(s) > 0 /\ Len(Tail(s)) = Len(s) - 1
         /\ DOMAIN s = 1..Len(s) /\ DOMAIN Tail(s) = 1..(Len(s) - 1)
         /\ \A k \in DOMAIN Tail(s) : Tail(s)[k] = s[k + 1] /\ k + 1 \in DOMAIN s
<1>1. Tail(s) \in Seq(S) /\ Head(s) \in S /\ Head(s) = s[1] /\ Len(s) \in Nat /\ Len(s) > 0
  BY HeadTailProperties, EmptySeq, LenProperties
<1>2. Len(Tail(s)) = Len(s) - 1 /\ \A k \in 1..Len(Tail(s)) : Tail(s)[k] = s[k + 1]
  BY HeadTailProperties
<1>3. DOMAIN s = 1..Len(s) /\ DOMAIN Tail(s) = 1..Len(Tail(s))
  BY <1>1, LenProperties
<1> QED BY <1>1, <1>2, <1>3

\* A sequence with an element in front of it.
LEMMA FrontFacts ==
  ASSUME NEW S, NEW e \in S, NEW q \in Seq(S)
  PROVE  /\ <<e>> \o q \in Seq(S) /\ <<e>> \o q # << >>
         /\ Head(<<e>> \o q) = e /\ Tail(<<e>> \o q) = q
<1>1. <<e>> \in Seq(S) /\ Len(<<e>>) = 1 /\ <<e>>[1] = e
  OBVIOUS
<1> DEFINE s == <<e>> \o q
<1>2. /\ s \in Seq(S) /\ Len(s) = 1 + Len(q) /\ Len(q) \in Nat
      /\ \A i \in 1..(1 + Len(q)) : s[i] = IF i <= 1 THEN e ELSE q[i - 1]
  <2> HIDE <1>1
  <2>1. s \in Seq(S) /\ Len(s) = Len(<<e>>) + Len(q)
        /\ \A i \in 1..(Len(<<e>>) + Len(q)) : s[i] = IF i <= Len(<<e>>) THEN <<e>>[i] ELSE q[i - Len(<<e>>)]
    BY <1>1, ConcatProperties
  <2>2. Len(q) \in Nat
    BY LenProperties
  <2>3. \A i \in 1..(1 + Len(q)) : i <= 1 => i = 1
    BY <2>2
  <2> HIDE DEF s
  <2> QED BY <1>1, <2>1, <2>2, <2>3
<1> HIDE DEF s
<1>3. s # << >>
  BY <1>2, EmptySeq
<1>4. Head(s) = s[1] /\ Tail(s) \in Seq(S) /\ Len(Tail(s)) = Len(q)
      /\ \A i \in 1..Len(q) : Tail(s)[i] = s[i + 1]
  BY <1>2, <1>3, HeadTailProperties
<1>5. \A i \in 1..Len(q) : s[i + 1] = q[i]
  BY <1>2
<1>6. Tail(s) = q
  BY <1>4, <1>5, SeqEqual
<1>7. s[1] = e
  BY <1>2
<1> QED BY <1>2, <1>3, <1>4, <1>6, <1>7 DEF s

LEMMA FrontAppend ==
  ASSUME NEW S, NEW e \in S, NEW q \in Seq(S), NEW x \in S
  PROVE  Append(<<e>> \o q, x) = <<e>> \o Append(q, x)
<1>1. <<e>> \in Seq(S) /\ <<x>> \in Seq(S)
  OBVIOUS
<1>2. (<<e>> \o q) \o <<x>> = <<e>> \o (q \o <<x>>)
  BY <1>1, ConcatAssociative
<1>3. <<e>> \o q \in Seq(S)
  BY FrontFacts
<1>4. Append(<<e>> \o q, x) = (<<e>> \o q) \o <<x>> /\ Append(q, x) = q \o <<x>>
  BY <1>3, AppendIsConcat
<1> QED BY <1>2, <1>4

LEMMA FrontOfTail ==
  ASSUME NEW S, NEW q \in Seq(S), q # << >>
  PROVE  <<Head(q)>> \o Tail(q) = q
<1>1. Len(q) \in Nat /\ Len(q) > 0 /\ Head(q) = q[1] /\ Head(q) \in S
      /\ Tail(q) \in Seq(S) /\ Len(Tail(q)) = Len(q) - 1
      /\ \A k \in 1..(Len(q) - 1) : Tail(q)[k] = q[k + 1]
  BY TailFacts
<1> DEFINE s == <<Head(q)>> \o Tail(q)
<1>2. s \in Seq(S) /\ s # << >> /\ Head(s) = Head(q) /\ Tail(s) = Tail(q)
  BY <1>1, FrontFacts
<1> HIDE DEF s
<1>3. Len(s) \in Nat /\ Len(s) > 0 /\ Head(s) = s[1] /\ Len(Tail(s)) = Len(s) - 1
      /\ \A k \in 1..(Len(s) - 1) : Tail(s)[k] = s[k + 1]
  BY <1>2, TailFacts
<1>4. Len(s) = Len(q) /\ s[1] = q[1]
  <2>1. Len(Tail(s)) = Len(Tail(q))
    BY <1>2
  <2>2. Len(s) - 1 = Len(q) - 1 /\ Len(s) \in Nat /\ Len(q) \in Nat
    BY <1>1, <1>3, <2>1
  <2>3. Len(s) = Len(q)
    BY <2>2
  <2>4. s[1] = q[1]
    BY Zenon, <1>1, <1>2, <1>3
  <2> QED BY <2>3, <2>4
<1>5. \A k \in 1..(Len(q) - 1) : s[k + 1] = q[k + 1]
  BY <1>1, <1>2, <1>3, <1>4
<1>6. \A i \in 1..Len(q) : s[i] = q[i]
  <2>1. ASSUME NEW i \in 1..Len(q), i # 1 PROVE s[i] = q[i]
    <3>1. i - 1 \in 1..(Len(q) - 1) /\ (i - 1) + 1 = i
      BY <1>1, <2>1
    <3> QED BY <1>5, <3>1
  <2> QED BY <1>4, <2>1
<1>7. s = q
  BY <1>2, <1>4, <1>6, SeqEqual
<1> QED BY <1>7 DEF s

(* An output and what is on the way to it *)

LEMMA NumbersAreIntegers ==
  ASSUME NEW out \in Seq(Numbers), NEW way \in Seq(Entries)
  PROVE  /\ \A i \in DOMAIN out : out[i] \in Int
         /\ \A j \in DOMAIN way : way[j].n \in Int
<1>1. \A i \in DOMAIN out : out[i] \in Numbers
  BY ElementOfSeq, LenProperties
<1>2. \A j \in DOMAIN way : way[j] \in Entries
  BY ElementOfSeq, LenProperties
<1>3. Numbers \subseteq Int /\ \A e \in Entries : e.n \in Numbers
  BY DEF Numbers, Entries
<1> QED BY <1>1, <1>2, <1>3

LEMMA InOrderSends ==
  ASSUME NEW out \in Seq(Numbers), NEW way \in Seq(Entries), NEW top \in Int,
         NEW e \in Entries, e.n = top + 1, InOrder(out, way, top)
  PROVE  InOrder(out, Append(way, e), top + 1)
<1> DEFINE n == Len(way)
           w == Append(way, e)
<1>1. /\ n \in Nat /\ DOMAIN way = 1..n /\ DOMAIN w = 1..(n + 1)
      /\ \A k \in 1..n : w[k] = way[k]
      /\ w[n + 1] = e
  BY AppendFacts
<1>2. /\ \A i \in DOMAIN out : out[i] \in Int
      /\ \A j \in 1..n : way[j].n \in Int
  BY <1>1, NumbersAreIntegers
<1> HIDE DEF n, w
<1>3. \A j \in 1..(n + 1) : w[j].n = IF j = n + 1 THEN top + 1 ELSE way[j].n
  BY <1>1
<1>4. 1..(n + 1) = 1..n \cup {n + 1} /\ \A j \in 1..n : j < n + 1 /\ j # n + 1
  BY <1>1
<1>5. /\ \A i, j \in 1..n : i < j => way[i].n < way[j].n
      /\ \A i \in DOMAIN out, j \in 1..n : out[i] < way[j].n
      /\ \A i \in DOMAIN out : out[i] <= top
      /\ \A j \in 1..n : way[j].n <= top
      /\ \A i, j \in DOMAIN out : i < j => out[i] < out[j]
  BY <1>1 DEF InOrder
<1>6. \A i, j \in 1..(n + 1) : i < j => w[i].n < w[j].n
  <2>1. ASSUME NEW i \in 1..(n + 1), NEW j \in 1..(n + 1), i < j PROVE w[i].n < w[j].n
    <3>1. i \in 1..n /\ w[i].n = way[i].n
      BY <1>1, <1>3, <2>1
    <3>2. CASE j = n + 1
      BY <1>2, <1>3, <1>5, <3>1, <3>2
    <3>3. CASE j \in 1..n
      BY <1>2, <1>3, <1>4, <1>5, <2>1, <3>1, <3>3
    <3> QED BY <1>4, <3>2, <3>3
  <2> QED BY <2>1
<1>7. \A i \in DOMAIN out, j \in 1..(n + 1) : out[i] < w[j].n
  BY <1>2, <1>3, <1>4, <1>5
<1>8. \A i \in DOMAIN out : out[i] <= top + 1
  BY <1>2, <1>5
<1>9. \A j \in 1..(n + 1) : w[j].n <= top + 1
  BY <1>2, <1>3, <1>4, <1>5
<1> QED BY <1>1, <1>5, <1>6, <1>7, <1>8, <1>9 DEF InOrder, w

\* An entry is dropped.
LEMMA InOrderSkips ==
  ASSUME NEW out \in Seq(Numbers), NEW way \in Seq(Entries), NEW top \in Int,
         InOrder(out, way, top)
  PROVE  InOrder(out, way, top + 1)
<1>1. /\ \A i \in DOMAIN out : out[i] \in Int
      /\ \A j \in DOMAIN way : way[j].n \in Int
  BY NumbersAreIntegers
<1> QED BY <1>1 DEF InOrder

LEMMA GaplessSends ==
  ASSUME NEW out \in Seq(Numbers), NEW way \in Seq(Entries), NEW top \in Int,
         NEW e \in Entries, e.n = top + 1, Gapless(out, way, top)
  PROVE  Gapless(out, Append(way, e), top + 1)
<1> DEFINE m == Len(out)
           n == Len(way)
           w == Append(way, e)
<1>1. /\ n \in Nat /\ DOMAIN way = 1..n /\ DOMAIN w = 1..(n + 1) /\ Len(w) = n + 1
      /\ \A k \in 1..n : w[k] = way[k]
      /\ w[n + 1] = e
  BY AppendFacts
<1>2. /\ m \in Nat /\ m + n = top
      /\ \A i \in DOMAIN out : out[i] = i
      /\ \A j \in 1..n : way[j].n = m + j
  BY <1>1, LenProperties DEF Gapless
<1> HIDE DEF m, n, w
<1>3. e.n = m + (n + 1) /\ m + (n + 1) = top + 1
  BY <1>1, <1>2
<1>4. \A j \in 1..(n + 1) : w[j].n = m + j
  <2>1. 1..(n + 1) = 1..n \cup {n + 1}
    BY <1>1
  <2> QED BY <1>1, <1>2, <1>3, <2>1
<1> QED BY <1>1, <1>2, <1>3, <1>4 DEF Gapless, m, w

LEMMA InOrderMoves ==
  ASSUME NEW out \in Seq(Numbers), NEW way \in Seq(Entries), NEW top \in Int,
         way # << >>, InOrder(out, way, top)
  PROVE  InOrder(Append(out, Head(way).n), Tail(way), top)
<1> DEFINE m == Len(out)
           n == Len(way)
           o == Append(out, Head(way).n)
           w == Tail(way)
<1>1. /\ n \in Nat /\ n > 0 /\ DOMAIN way = 1..n /\ DOMAIN w = 1..(n - 1)
      /\ \A k \in 1..(n - 1) : w[k] = way[k + 1] /\ k + 1 \in 1..n
      /\ Head(way) = way[1] /\ Head(way) \in Entries
  BY TailFacts
<1>2. Head(way).n \in Numbers
  BY <1>1 DEF Entries
<1>3. /\ m \in Nat /\ DOMAIN out = 1..m /\ DOMAIN o = 1..(m + 1)
      /\ \A k \in 1..m : o[k] = out[k]
      /\ o[m + 1] = way[1].n
  BY <1>1, <1>2, AppendFacts
<1>4. /\ \A i \in 1..m : out[i] \in Int
      /\ \A j \in 1..n : way[j].n \in Int
  BY <1>1, <1>3, NumbersAreIntegers
<1> HIDE DEF m, n, o, w
<1>5. /\ \A i, j \in 1..n : i < j => way[i].n < way[j].n
      /\ \A i \in 1..m, j \in 1..n : out[i] < way[j].n
      /\ \A i \in 1..m : out[i] <= top
      /\ \A j \in 1..n : way[j].n <= top
      /\ \A i, j \in 1..m : i < j => out[i] < out[j]
  BY <1>1, <1>3 DEF InOrder
<1>6. 1 \in 1..n /\ \A k \in 1..(n - 1) : 1 < k + 1 /\ k \in Int
  BY <1>1
<1>7. 1..(m + 1) = 1..m \cup {m + 1}
  BY <1>3
<1>8. \A i, j \in 1..(m + 1) : i < j => o[i] < o[j]
  <2>1. ASSUME NEW i \in 1..(m + 1), NEW j \in 1..(m + 1), i < j PROVE o[i] < o[j]
    <3>1. i \in 1..m /\ o[i] = out[i]
      BY <1>3, <2>1
    <3>2. CASE j = m + 1
      BY <1>3, <1>5, <1>6, <3>1, <3>2
    <3>3. CASE j \in 1..m
      BY <1>3, <1>5, <2>1, <3>1, <3>3
    <3> QED BY <1>7, <3>2, <3>3
  <2> QED BY <2>1
<1>9. \A i, j \in 1..(n - 1) : i < j => w[i].n < w[j].n
  <2>1. ASSUME NEW i \in 1..(n - 1), NEW j \in 1..(n - 1), i < j PROVE way[i + 1].n < way[j + 1].n
    <3>1. i + 1 \in 1..n /\ j + 1 \in 1..n /\ i + 1 < j + 1
      BY <1>1, <2>1
    <3> QED BY <1>5, <3>1
  <2> QED BY <1>1, <2>1
<1>10. \A i \in 1..(m + 1), j \in 1..(n - 1) : o[i] < w[j].n
  BY <1>1, <1>3, <1>5, <1>6, <1>7
<1>11. \A i \in 1..(m + 1) : o[i] <= top
  BY <1>3, <1>5, <1>6, <1>7
<1>12. \A j \in 1..(n - 1) : w[j].n <= top
  BY <1>1, <1>5
<1> QED BY <1>1, <1>3, <1>8, <1>9, <1>10, <1>11, <1>12 DEF InOrder, o, w

LEMMA GaplessMoves ==
  ASSUME NEW out \in Seq(Numbers), NEW way \in Seq(Entries), NEW top \in Int,
         way # << >>, Gapless(out, way, top)
  PROVE  Gapless(Append(out, Head(way).n), Tail(way), top)
<1> DEFINE m == Len(out)
           n == Len(way)
           o == Append(out, Head(way).n)
           w == Tail(way)
<1>1. /\ n \in Nat /\ n > 0 /\ DOMAIN way = 1..n /\ DOMAIN w = 1..(n - 1) /\ Len(w) = n - 1
      /\ \A k \in 1..(n - 1) : w[k] = way[k + 1] /\ k + 1 \in 1..n
      /\ Head(way) = way[1] /\ Head(way) \in Entries
  BY TailFacts
<1>2. Head(way).n \in Numbers
  BY <1>1 DEF Entries
<1>3. /\ m \in Nat /\ DOMAIN out = 1..m /\ DOMAIN o = 1..(m + 1) /\ Len(o) = m + 1
      /\ \A k \in 1..m : o[k] = out[k]
      /\ o[m + 1] = way[1].n
  BY <1>1, <1>2, AppendFacts
<1>4. /\ m + n = top
      /\ \A i \in 1..m : out[i] = i
      /\ \A j \in 1..n : way[j].n = m + j
  BY <1>1, <1>3 DEF Gapless
<1> HIDE DEF m, n, o, w
<1>5. (m + 1) + (n - 1) = top
  BY <1>1, <1>3, <1>4
<1>6. \A i \in 1..(m + 1) : o[i] = i
  <2>1. way[1].n = m + 1
    BY <1>1, <1>4
  <2>2. 1..(m + 1) = 1..m \cup {m + 1}
    BY <1>3
  <2> QED BY <1>3, <1>4, <2>1, <2>2
<1>7. \A j \in 1..(n - 1) : w[j].n = (m + 1) + j
  <2>1. \A j \in 1..(n - 1) : way[j + 1].n = m + (j + 1) /\ m + (j + 1) = (m + 1) + j
    BY <1>1, <1>3, <1>4
  <2> QED BY <1>1, <2>1
<1> QED BY <1>1, <1>3, <1>5, <1>6, <1>7 DEF Gapless, o, w


(* The file *)

FileLines == Entries \cup {Header}
Marks == (0..MaxEntries) \X (0..buffer_size)

LEMMA LineSizes == \A l \in FileLines : l.size \in 1..buffer_size /\ l.n \in 0..MaxEntries
<1> SUFFICES ASSUME NEW l \in FileLines
             PROVE  l.size \in 1..buffer_size /\ l.n \in 0..MaxEntries
  OBVIOUS
<1>1. CASE l \in Entries
  <2>1. l.size \in RowSizes /\ l.n \in 1..MaxEntries
    BY <1>1 DEF Entries, Numbers
  <2>2. l.size \in 1..buffer_size
    BY Zenon, <2>1, LoggerAssumption
  <2>3. l.n \in 0..MaxEntries
    BY <2>1
  <2> QED BY <2>2, <2>3
<1>2. CASE l = Header
  <2>1. l.size = HeaderSize /\ l.n = 0
    BY <1>2 DEF Header
  <2> QED BY <2>1, LoggerAssumption
<1> QED BY <1>1, <1>2 DEF FileLines

LEMMA CopiedFacts ==
  ASSUME NEW buffer \in [Cells -> Marks], NEW l \in FileLines,
         NEW from \in 0..buffer_size, from + l.size <= buffer_size
  PROVE  /\ Copied(buffer, from, l) \in [Cells -> Marks]
         /\ \A c \in Cells : c <= from => Copied(buffer, from, l)[c] = buffer[c]
         /\ \A j \in 1..l.size : Copied(buffer, from, l)[from + j] = <<l.n, j>>
<1>1. /\ l.size \in 1..buffer_size /\ l.n \in 0..MaxEntries
      /\ buffer_size \in Nat
  BY LineSizes, LoggerAssumption
<1>2. \A c \in Cells : Copied(buffer, from, l)[c] =
        IF from < c /\ c <= from + l.size THEN <<l.n, c - from>> ELSE buffer[c]
  BY DEF Copied
<1>3. ASSUME NEW c \in Cells PROVE Copied(buffer, from, l)[c] \in Marks
  <2>1. CASE from < c /\ c <= from + l.size
    <3>1. c - from \in 0..buffer_size
      BY <1>1, <2>1 DEF Cells
    <3>2. Copied(buffer, from, l)[c] = <<l.n, c - from>>
      BY Zenon, <1>2, <2>1
    <3> QED BY <1>1, <3>1, <3>2 DEF Marks
  <2>2. CASE ~(from < c /\ c <= from + l.size)
    BY <1>2, <2>2
  <2> QED BY <2>1, <2>2
<1>4. Copied(buffer, from, l) \in [Cells -> Marks]
  BY <1>3 DEF Copied
<1>5. \A c \in Cells : c <= from => Copied(buffer, from, l)[c] = buffer[c]
  <2>1. \A c \in Cells : c <= from => ~(from < c)
    BY <1>1 DEF Cells
  <2> QED BY <1>2, <2>1
<1>6. ASSUME NEW j \in 1..l.size PROVE Copied(buffer, from, l)[from + j] = <<l.n, j>>
  <2>1. from + j \in Cells /\ from < from + j /\ from + j <= from + l.size /\ (from + j) - from = j
    BY <1>1 DEF Cells
  <2> QED BY <1>2, <2>1
<1> QED BY <1>4, <1>5, <1>6

LEMMA NothingPlaced == ASSUME NEW buffer PROVE Placed(buffer, 0, << >>)
<1>1. /\ Len(<< >>) = 0 /\ DOMAIN << >> = {}
  BY EmptySeq
<1>2. [k \in 1..(0 + 1) |-> 0] \in [1..(0 + 1) -> 0..0]
  OBVIOUS
<1> DEFINE start == [k \in 1..(0 + 1) |-> 0]
<1>3. start[1] = 0 /\ start[0 + 1] = 0
  OBVIOUS
<1> HIDE DEF start
<1> QED BY <1>1, <1>2, <1>3 DEF Placed, start

LEMMA LinePlaced ==
  ASSUME NEW buffer \in [Cells -> Marks], NEW l \in FileLines, NEW lines \in Seq(FileLines),
         NEW offset \in 0..buffer_size, offset + l.size <= buffer_size,
         Placed(buffer, offset, lines)
  PROVE  Placed(Copied(buffer, offset, l), offset + l.size, Append(lines, l))
<1> DEFINE n == Len(lines)
           new == Copied(buffer, offset, l)
           a == Append(lines, l)
<1>1. /\ n \in Nat /\ DOMAIN lines = 1..n /\ DOMAIN a = 1..(n + 1) /\ Len(a) = n + 1
      /\ \A k \in 1..n : a[k] = lines[k] /\ lines[k] \in FileLines
      /\ a[n + 1] = l
  BY AppendFacts
<1>2. /\ l.size \in 1..buffer_size /\ buffer_size \in Nat
      /\ \A k \in 1..n : lines[k].size \in 1..buffer_size
  BY <1>1, LineSizes, LoggerAssumption
<1>3. PICK start \in [1..(n + 1) -> 0..offset] :
        /\ start[1] = 0 /\ start[n + 1] = offset
        /\ \A k \in 1..n :
             /\ start[k + 1] = start[k] + lines[k].size
             /\ \A j \in 1..lines[k].size : buffer[start[k] + j] = <<lines[k].n, j>>
  BY <1>1 DEF Placed
<1>4. /\ \A c \in Cells : c <= offset => new[c] = buffer[c]
      /\ \A j \in 1..l.size : new[offset + j] = <<l.n, j>>
  BY CopiedFacts
<1> HIDE DEF n, new, a
<1> DEFINE at == [k \in 1..(n + 2) |-> IF k = n + 2 THEN offset + l.size ELSE start[k]]
<1>5. /\ 1..(n + 2) = 1..(n + 1) \cup {n + 2} /\ n + 2 \notin 1..(n + 1)
      /\ 1..(n + 1) = 1..n \cup {n + 1}
      /\ n + 2 = (n + 1) + 1
  BY <1>1
<1>6. at \in [1..(n + 2) -> 0..(offset + l.size)]
  <2>1. \A k \in 1..(n + 1) : start[k] \in 0..(offset + l.size)
    BY <1>2, <1>3
  <2>2. offset + l.size \in 0..(offset + l.size)
    BY <1>2
  <2> QED BY <1>5, <2>1, <2>2
<1>7. /\ \A k \in 1..(n + 1) : at[k] = start[k]
      /\ at[n + 2] = offset + l.size
  BY <1>5
<1> HIDE DEF at
<1>8. at[1] = 0 /\ at[(n + 1) + 1] = offset + l.size
  BY <1>1, <1>3, <1>5, <1>7
<1>9. ASSUME NEW k \in 1..n
      PROVE  /\ at[k + 1] = at[k] + a[k].size
             /\ \A j \in 1..a[k].size : new[at[k] + j] = <<a[k].n, j>>
  <2>1. k \in 1..(n + 1) /\ k + 1 \in 1..(n + 1)
    BY <1>1
  <2>2. at[k] = start[k] /\ at[k + 1] = start[k + 1] /\ a[k] = lines[k]
    BY <1>1, <1>7, <2>1
  <2>3. start[k + 1] = start[k] + lines[k].size /\ start[k] \in 0..offset /\ start[k + 1] \in 0..offset
    BY <1>3, <2>1
  <2>4. ASSUME NEW j \in 1..lines[k].size PROVE new[start[k] + j] = <<lines[k].n, j>>
    <3>1. lines[k].size \in Int /\ offset \in Int
      BY <1>2
    <3>3. start[k] + lines[k].size <= offset /\ start[k] \in Nat /\ j \in Nat /\ j > 0 /\ j <= lines[k].size
      BY <2>3, <3>1
    <3>4. \A x, y, z \in Int : x + y <= offset /\ z <= y => x + z <= offset
      BY <3>1
    <3>5. start[k] + j <= offset
      BY <3>1, <3>3, <3>4
    <3>6. offset <= buffer_size /\ start[k] + j \in Nat /\ start[k] + j >= 1
      BY <1>2, <3>3
    <3>2. start[k] + j \in Cells /\ start[k] + j <= offset
      BY <1>2, <3>1, <3>5, <3>6 DEF Cells
    <3> QED BY <1>3, <1>4, <3>2
  <2> QED BY <2>2, <2>3, <2>4
<1>10. /\ at[(n + 1) + 1] = at[n + 1] + a[n + 1].size
       /\ \A j \in 1..a[n + 1].size : new[at[n + 1] + j] = <<a[n + 1].n, j>>
  <2>1. at[n + 1] = offset
    BY <1>1, <1>3, <1>7
  <2> QED BY <1>1, <1>4, <1>8, <2>1
<1>11. \A k \in 1..(n + 1) :
         /\ at[k + 1] = at[k] + a[k].size
         /\ \A j \in 1..a[k].size : new[at[k] + j] = <<a[k].n, j>>
  BY <1>5, <1>9, <1>10
<1>12. at \in [1..((n + 1) + 1) -> 0..(offset + l.size)]
  BY <1>5, <1>6
<1> DEFINE m == n + 1
<1>13. /\ DOMAIN a = 1..m /\ Len(a) = m
       /\ at \in [1..(m + 1) -> 0..(offset + l.size)]
       /\ at[1] = 0 /\ at[m + 1] = offset + l.size
       /\ \A k \in 1..m :
            /\ at[k + 1] = at[k] + a[k].size
            /\ \A j \in 1..a[k].size : new[at[k] + j] = <<a[k].n, j>>
  BY <1>1, <1>8, <1>11, <1>12
<1> HIDE DEF m
<1>14. Placed(new, offset + l.size, a)
  <2>1. /\ at \in [1..(Len(a) + 1) -> 0..(offset + l.size)]
        /\ at[1] = 0 /\ at[Len(a) + 1] = offset + l.size
        /\ \A k \in DOMAIN a :
             /\ at[k + 1] = at[k] + a[k].size
             /\ \A j \in 1..a[k].size : new[at[k] + j] = <<a[k].n, j>>
    BY Zenon, <1>13
  <2> QED BY <2>1 DEF Placed
<1> QED BY <1>14 DEF a, new

LEMMA AtRiskFacts ==
  ASSUME NEW lines \in Seq(FileLines), NEW l \in FileLines
  PROVE  /\ Cardinality(AtRisk(lines)) \in Nat
         /\ Cardinality(AtRisk(Append(lines, l))) <= Cardinality(AtRisk(lines)) + 1
         /\ \A k \in AtRisk(Append(lines, l)) :
              Append(lines, l)[k] = l \/ (k \in AtRisk(lines) /\ Append(lines, l)[k] = lines[k])
<1> DEFINE n == Len(lines)
           a == Append(lines, l)
           old == AtRisk(lines)
<1>1. /\ n \in Nat /\ DOMAIN lines = 1..n /\ DOMAIN a = 1..(n + 1)
      /\ \A k \in 1..n : a[k] = lines[k]
      /\ a[n + 1] = l
  BY AppendFacts
<1>2. IsFiniteSet(old) /\ Cardinality(old) \in Nat /\ old \subseteq 1..n
  <2>1. old \subseteq 1..n /\ IsFiniteSet(1..n)
    BY <1>1, FS_Interval DEF AtRisk
  <2> QED BY <2>1, FS_Subset, FS_CardinalityType
<1>3. 1..(n + 1) = 1..n \cup {n + 1} /\ n + 1 \notin 1..n
  BY <1>1
<1> HIDE DEF n, a
<1>4. AtRisk(a) = IF l.n # 0 THEN old \cup {n + 1} ELSE old
  BY <1>1, <1>3 DEF AtRisk
<1> HIDE DEF old
<1>5. Cardinality(old \cup {n + 1}) = Cardinality(old) + 1
  BY <1>2, <1>3, FS_AddElement
<1>6. Cardinality(AtRisk(a)) <= Cardinality(old) + 1
  <2>1. CASE l.n # 0
    <3>1. Cardinality(AtRisk(a)) = Cardinality(old) + 1
      BY <1>4, <1>5, <2>1
    <3> QED BY <1>2, <3>1
  <2>2. CASE l.n = 0
    <3>1. Cardinality(AtRisk(a)) = Cardinality(old)
      BY <1>4, <2>2
    <3> QED BY <1>2, <3>1
  <2> QED BY <2>1, <2>2
<1>7. \A k \in AtRisk(a) : a[k] = l \/ (k \in old /\ a[k] = lines[k])
  BY <1>1, <1>2, <1>4
<1> QED BY <1>2, <1>6, <1>7 DEF a, old

LEMMA NothingAtRisk == AtRisk(<< >>) = {} /\ Cardinality(AtRisk(<< >>)) = 0
BY EmptySeq, FS_EmptySet DEF AtRisk

\* Lines that are placed are whole in the file, and an msync covers them all.
LEMMA PlacedIntact ==
  ASSUME NEW buffer, NEW lines \in Seq(FileLines), NEW offset \in 0..buffer_size,
         Placed(buffer, offset, lines), NEW k \in DOMAIN lines
  PROVE  offset > 0 /\ Intact(buffer, lines[k])
<1> DEFINE n == Len(lines)
           l == lines[k]
<1>1. /\ n \in Nat /\ k \in 1..n /\ l \in FileLines /\ DOMAIN lines = 1..n
      /\ l.size \in 1..buffer_size /\ buffer_size \in Nat
  <2>1. n \in Nat /\ DOMAIN lines = 1..n /\ l \in FileLines
    BY LenProperties
  <2> QED BY <2>1, LineSizes, LoggerAssumption
<1>2. PICK start \in [1..(n + 1) -> 0..offset] :
        /\ start[k + 1] = start[k] + l.size
        /\ \A j \in 1..l.size : buffer[start[k] + j] = <<l.n, j>>
  BY Zenon DEF Placed
<1> HIDE DEF n, l
<1>3. start[k] \in 0..offset /\ start[k + 1] \in 0..offset
  <2>1. k \in 1..(n + 1) /\ k + 1 \in 1..(n + 1)
    BY <1>1
  <2> QED BY Zenon, <1>2, <2>1
<1>4. offset > 0 /\ start[k] \in 0..(buffer_size - l.size)
  <2>1. \A x, y \in 0..offset, size \in 1..buffer_size :
          y = x + size => offset > 0 /\ x \in 0..(buffer_size - size)
    BY <1>1
  <2> QED BY Zenon, <1>1, <1>2, <1>3, <2>1
<1>5. Intact(buffer, l)
  BY Zenon, <1>2, <1>4 DEF Intact
<1> QED BY <1>4, <1>5 DEF l

LEMMA SyncFacts ==
  ASSUME NEW buffer, NEW lines \in Seq(FileLines), NEW offset \in 0..buffer_size,
         Placed(buffer, offset, lines), NEW out, NEW disk, Kept(out, lines, disk),
         disk \subseteq 0..MaxEntries
  PROVE  /\ disk \cup msync(buffer, lines) \subseteq 0..MaxEntries
         /\ Kept(out, << >>, disk \cup msync(buffer, lines))
<1> DEFINE whole == {i \in DOMAIN lines : Intact(buffer, lines[i])}
<1>1. \A i \in DOMAIN lines : i \in whole /\ lines[i] \in FileLines /\ lines[i].n \in 0..MaxEntries
  <2>1. \A i \in DOMAIN lines : lines[i] \in FileLines
    BY LenProperties
  <2> QED BY <2>1, PlacedIntact, LineSizes
<1>2. msync(buffer, lines) = {l.n : l \in {lines[k] : k \in whole}}
  BY Zenon DEF msync
<1> HIDE DEF whole
<1>3. whole \subseteq DOMAIN lines
  BY DEF whole
<1>4. \A i \in DOMAIN lines : lines[i].n \in msync(buffer, lines)
  BY <1>1, <1>2
<1>5. msync(buffer, lines) \subseteq 0..MaxEntries
  BY <1>1, <1>2, <1>3
<1>6. Kept(out, << >>, disk \cup msync(buffer, lines))
  <2>1. ASSUME NEW k \in DOMAIN out PROVE out[k] \in disk \cup msync(buffer, lines)
    <3>1. CASE out[k] \in disk
      BY <3>1
    <3>2. CASE \E i \in DOMAIN lines : lines[i].n = out[k]
      BY <1>4, <3>2
    <3> QED BY Zenon, <3>1, <3>2 DEF Kept
  <2> QED BY Zenon, <2>1 DEF Kept
<1> QED BY <1>5, <1>6

\* A row that is written is pending.
LEMMA RowKept ==
  ASSUME NEW out \in Seq(Numbers), NEW lines \in Seq(FileLines), NEW disk, NEW l \in FileLines,
         l.n \in Numbers, Kept(out, lines, disk)
  PROVE  Kept(Append(out, l.n), Append(lines, l), disk)
<1> DEFINE m == Len(out)
           n == Len(lines)
           o == Append(out, l.n)
           a == Append(lines, l)
<1>1. /\ m \in Nat /\ DOMAIN out = 1..m /\ DOMAIN o = 1..(m + 1)
      /\ \A k \in 1..m : o[k] = out[k]
      /\ o[m + 1] = l.n
  BY AppendFacts
<1>2. /\ n \in Nat /\ DOMAIN lines = 1..n /\ DOMAIN a = 1..(n + 1)
      /\ \A k \in 1..n : a[k] = lines[k]
      /\ a[n + 1] = l
  BY AppendFacts
<1> HIDE DEF m, n, o, a
<1>3. /\ 1..(m + 1) = 1..m \cup {m + 1}
      /\ 1..(n + 1) = 1..n \cup {n + 1}
  BY <1>1, <1>2
<1>4. ASSUME NEW k \in DOMAIN o PROVE o[k] \in disk \/ \E i \in DOMAIN a : a[i].n = o[k]
  <2>1. CASE k = m + 1
    BY <1>1, <1>2, <1>3, <2>1
  <2>2. CASE k \in 1..m
    <3>1. o[k] = out[k] /\ (out[k] \in disk \/ \E i \in 1..n : lines[i].n = out[k])
      BY <1>1, <1>2, <2>2 DEF Kept
    <3> QED BY <1>2, <1>3, <3>1
  <2> QED BY <1>1, <1>3, <2>1, <2>2
<1> QED BY Zenon, <1>4 DEF Kept, o, a

LEMMA WriteFacts ==
  ASSUME LoggerTypeOK, Placed(log_buffer, buffer_offset, pending), Recent, NEW l \in FileLines,
         Kept(rows, pending, synced), l.n \in Numbers
  PROVE  LET w == write_to_buffer(l) IN
         /\ w.buffer \in [Cells -> Marks] /\ w.offset \in 0..buffer_size
         /\ w.pending \in Seq(FileLines)
         /\ Placed(w.buffer, w.offset, w.pending)
         /\ Cardinality(AtRisk(w.pending)) <= entries_since_flush + 1
         /\ l.minute = last_flush_time =>
              \A k \in AtRisk(w.pending) : w.pending[k].minute = last_flush_time
         /\ w.synced \subseteq 0..MaxEntries
         /\ Kept(Append(rows, l.n), w.pending, w.synced)
<1> DEFINE w == write_to_buffer(l)
<1>1. /\ log_buffer \in [Cells -> Marks] /\ buffer_offset \in 0..buffer_size
      /\ pending \in Seq(FileLines) /\ entries_since_flush \in Nat
      /\ l.size \in 1..buffer_size /\ buffer_size \in Nat
      /\ Cardinality(AtRisk(pending)) \in Nat
      /\ Cardinality(AtRisk(pending)) <= entries_since_flush
  <2>1. entries_since_flush \in Nat /\ l.size \in 1..buffer_size /\ buffer_size \in Nat
    <3>1. l.size \in 1..buffer_size
      BY LineSizes
    <3>2. entries_since_flush \in 0..(FLUSH_BATCH_SIZE - 1)
      BY DEF LoggerTypeOK
    <3> QED BY <3>1, <3>2, LoggerAssumption
  <2>2. pending \in Seq(FileLines)
    BY DEF LoggerTypeOK, FileLines
  <2> QED BY <2>1, <2>2, AtRiskFacts DEF LoggerTypeOK, Marks, Recent
<1>4. rows \in Seq(Numbers) /\ synced \subseteq 0..MaxEntries
  BY DEF LoggerTypeOK
<1>2. CASE buffer_offset + l.size > buffer_size
  <2>1. /\ w.buffer = Copied(log_buffer, 0, l) /\ w.offset = 0 + l.size /\ w.pending = <<l>>
        /\ w.synced = synced \cup msync(log_buffer, pending)
    BY <1>2 DEF write_to_buffer
  <2>8. /\ w.synced \subseteq 0..MaxEntries
        /\ Kept(rows, << >>, w.synced)
    <3>1. /\ synced \cup msync(log_buffer, pending) \subseteq 0..MaxEntries
          /\ Kept(rows, << >>, synced \cup msync(log_buffer, pending))
      BY Zenon, <1>1, <1>4, SyncFacts
    <3> QED BY Zenon, <2>1, <3>1
  <2>2. /\ << >> \in Seq(FileLines) /\ Append(<< >>, l) = <<l>>
        /\ 0 \in 0..buffer_size /\ 0 + l.size <= buffer_size /\ 0 + l.size \in 0..buffer_size
    BY <1>1
  <2>3. Placed(Copied(log_buffer, 0, l), 0 + l.size, <<l>>)
    BY <1>1, <2>2, NothingPlaced, LinePlaced
  <2>4. Copied(log_buffer, 0, l) \in [Cells -> Marks] /\ <<l>> \in Seq(FileLines)
    BY <1>1, <2>2, CopiedFacts
  <2>5. /\ Cardinality(AtRisk(<<l>>)) <= 0 + 1
        /\ \A k \in AtRisk(<<l>>) : <<l>>[k] = l
    BY <2>2, NothingAtRisk, AtRiskFacts
  <2>6. AtRisk(<<l>>) \subseteq {1} /\ Cardinality(AtRisk(<<l>>)) \in Nat
    <3>1. DOMAIN <<l>> = {1}
      OBVIOUS
    <3>2. AtRisk(<<l>>) \subseteq {1}
      BY <3>1 DEF AtRisk
    <3> QED BY <2>4, <3>2, AtRiskFacts
  <2>7. Cardinality(AtRisk(<<l>>)) <= entries_since_flush + 1
    BY <1>1, <2>5, <2>6
  <2> HIDE DEF w
  <2>9. Kept(Append(rows, l.n), w.pending, w.synced)
    BY <1>4, <2>1, <2>2, <2>8, RowKept
  <2> QED BY <2>1, <2>2, <2>3, <2>4, <2>5, <2>7, <2>8, <2>9 DEF w
<1>3. CASE ~(buffer_offset + l.size > buffer_size)
  <2>1. /\ w.buffer = Copied(log_buffer, buffer_offset, l) /\ w.offset = buffer_offset + l.size
        /\ w.pending = Append(pending, l) /\ w.synced = synced
    BY <1>3 DEF write_to_buffer
  <2>2. buffer_offset + l.size <= buffer_size /\ buffer_offset + l.size \in 0..buffer_size
    BY <1>1, <1>3
  <2>3. Placed(Copied(log_buffer, buffer_offset, l), buffer_offset + l.size, Append(pending, l))
    BY <1>1, <2>2, LinePlaced
  <2>4. Copied(log_buffer, buffer_offset, l) \in [Cells -> Marks] /\ Append(pending, l) \in Seq(FileLines)
    BY <1>1, <2>2, CopiedFacts, AppendFacts
  <2>5. /\ Cardinality(AtRisk(Append(pending, l))) <= Cardinality(AtRisk(pending)) + 1
        /\ Cardinality(AtRisk(Append(pending, l))) \in Nat
        /\ \A k \in AtRisk(Append(pending, l)) :
             Append(pending, l)[k] = l \/ (k \in AtRisk(pending) /\ Append(pending, l)[k] = pending[k])
    BY <1>1, <2>4, AtRiskFacts
  <2>6. Cardinality(AtRisk(Append(pending, l))) <= entries_since_flush + 1
    BY <1>1, <2>5
  <2>7. ASSUME l.minute = last_flush_time, NEW k \in AtRisk(Append(pending, l))
        PROVE  Append(pending, l)[k].minute = last_flush_time
    BY <2>5, <2>7 DEF Recent
  <2> HIDE DEF w
  <2>8. Kept(Append(rows, l.n), w.pending, w.synced)
    BY <1>1, <1>4, <2>1, RowKept
  <2> QED BY <1>4, <2>1, <2>2, <2>3, <2>4, <2>6, <2>7, <2>8 DEF w
<1> QED BY <1>2, <1>3


(* Steps *)

LEMMA Types ==
  ASSUME LoggerTypeOK
  PROVE  /\ console_queue \in Seq(Entries) /\ csv_queue \in Seq(Entries)
         /\ entry \in [{"trader", "console", "csv"} -> Entries \cup {NoEntry}]
         /\ entries_since_flush \in Nat /\ logged \in Nat /\ drops \in Nat
         /\ printed \in Seq(Numbers) /\ rows \in Seq(Numbers) /\ db \in Seq(Numbers)
<1>1. entries_since_flush \in 0..(FLUSH_BATCH_SIZE - 1) /\ logged \in 0..MaxEntries
  BY Zenon DEF LoggerTypeOK
<1>2. entries_since_flush \in Nat /\ logged \in Nat
  BY <1>1
<1> QED BY Zenon, <1>2 DEF LoggerTypeOK

LEMMA WayType ==
  ASSUME LoggerTypeOK, AtHand
  PROVE  OnTheWay \in Seq(Entries) /\ CsvTop \in Int
<1>1. CsvTop \in Int
  <2>1. logged \in Int /\ logged - 1 \in Int
    BY Types
  <2> QED BY Zenon, <2>1 DEF CsvTop
<1> DEFINE e == entry["csv"]
<1>2. csv_queue \in Seq(Entries) /\ (csv = "write" => e \in Entries)
  BY Types DEF AtHand
<1>3. OnTheWay = IF csv = "write" THEN <<e>> \o csv_queue ELSE csv_queue
  BY DEF OnTheWay
<1> HIDE DEF e
<1>4. CASE csv = "write"
  <2>1. <<e>> \o csv_queue \in Seq(Entries)
    BY <1>2, <1>4, FrontFacts
  <2> QED BY <1>1, <1>3, <1>4, <2>1
<1>5. CASE csv # "write"
  BY <1>1, <1>2, <1>3, <1>5
<1> QED BY <1>4, <1>5

\* A step that writes no line to the file and does not flush it.
LEMMA FileKept ==
  ASSUME Placed(log_buffer, buffer_offset, pending), Recent, Kept(rows, pending, synced),
         FlushedAtEnd, UNCHANGED file, rows' = rows, csv' = "exited" => csv = "exited"
  PROVE  /\ Placed(log_buffer, buffer_offset, pending)' /\ Recent'
         /\ Kept(rows, pending, synced)' /\ FlushedAtEnd'
<1>1. UNCHANGED <<entries_since_flush, last_flush_time, log_buffer, buffer_offset, pending, synced>>
  BY Zenon DEF file
<1>2. Placed(log_buffer, buffer_offset, pending)' /\ Kept(rows, pending, synced)'
  BY Zenon, <1>1 DEF Placed, Kept
<1>3. Recent' /\ FlushedAtEnd'
  BY Zenon, <1>1 DEF Recent, AtRisk, FlushedAtEnd
<1> QED BY Zenon, <1>2, <1>3

LEMMA FileFlushed ==
  ASSUME LoggerTypeOK, buffer_offset' = 0, pending' = << >>, entries_since_flush' \in Nat
  PROVE  Placed(log_buffer, buffer_offset, pending)' /\ Recent'
<1>1. Placed(log_buffer', 0, << >>)
  BY NothingPlaced
<1>2. Cardinality(AtRisk(<< >>)) <= entries_since_flush' /\ AtRisk(<< >>) = {}
  BY NothingAtRisk
<1> QED BY <1>1, <1>2 DEF Recent

LEMMA ReachesSends ==
  ASSUME LoggerTypeOK, NEW out \in Seq(Numbers), NEW way \in Seq(Entries), NEW top \in Int,
         NEW e \in Entries, e.n = top + 1, Reaches(out, way, top),
         NEW way2, NEW top2, top2 = top + 1,
         \/ way2 = Append(way, e) /\ drops' = drops
         \/ way2 = way /\ drops' = drops + 1
  PROVE  InOrder(out, way2, top2) /\ (drops' = 0 => Gapless(out, way2, top2))
<1>1. drops \in Nat
  BY DEF LoggerTypeOK
<1>2. CASE way2 = Append(way, e) /\ drops' = drops
  BY <1>2, InOrderSends, GaplessSends DEF Reaches
<1>3. CASE way2 = way /\ drops' = drops + 1
  <2>1. drops' # 0
    BY <1>1, <1>3
  <2> QED BY <1>3, <2>1, InOrderSkips DEF Reaches
<1> QED BY <1>2, <1>3

LEMMA ReachesMoves ==
  ASSUME NEW out \in Seq(Numbers), NEW way \in Seq(Entries), NEW top \in Int,
         way # << >>, Reaches(out, way, top)
  PROVE  Reaches(Append(out, Head(way).n), Tail(way), top)
BY InOrderMoves, GaplessMoves DEF Reaches

LEMMA ReachesKept ==
  ASSUME LoggerTypeOK, NEW out, NEW way, NEW top, Reaches(out, way, top),
         drops' = drops \/ drops' = drops + 1
  PROVE  InOrder(out, way, top) /\ (drops' = 0 => Gapless(out, way, top))
<1>1. drops' = 0 => drops = 0
  <2>1. drops \in Nat
    BY DEF LoggerTypeOK
  <2> QED BY <2>1
<1> QED BY <1>1 DEF Reaches

LEMMA OutputsKept ==
  ASSUME Outputs, UNCHANGED <<printed, console_queue, rows, csv_queue, db, drops, logged, entry>>,
         csv' = "write" <=> csv = "write", CsvTop' = CsvTop, DbTop' = DbTop
  PROVE  Outputs'
<1>1. OnTheWay' = OnTheWay
  BY DEF OnTheWay
<1> QED BY <1>1 DEF Outputs, Reaches

LEMMA ConsoleWhileKeeps ==
  ASSUME LoggerIInv, ConsoleWhile
  PROVE  LoggerIInv'
<1>1. LoggerTypeOK'
  BY DEF LoggerIInv, LoggerTypeOK, ConsoleWhile, file, outputs
<1>2. AtHand' /\ Exits'
  BY DEF LoggerIInv, ConsoleWhile, AtHand, Exits, Logging, file, outputs
<1>3. Outputs'
  BY OutputsKept DEF LoggerIInv, ConsoleWhile, CsvTop, DbTop, Logging, file, outputs
<1>4. UNCHANGED file /\ rows' = rows /\ (csv' = "exited" => csv = "exited")
  BY DEF ConsoleWhile, outputs
<1> QED BY <1>1, <1>2, <1>3, <1>4, FileKept DEF LoggerIInv

LEMMA ConsoleEmptyKeeps ==
  ASSUME LoggerIInv, ConsoleEmpty
  PROVE  LoggerIInv'
<1>1. LoggerTypeOK'
  BY DEF LoggerIInv, LoggerTypeOK, ConsoleEmpty, file, outputs
<1>2. AtHand' /\ Exits'
  BY DEF LoggerIInv, ConsoleEmpty, AtHand, Exits, Logging, file, outputs
<1>3. Outputs'
  BY OutputsKept DEF LoggerIInv, ConsoleEmpty, CsvTop, DbTop, Logging, file, outputs
<1>4. UNCHANGED file /\ rows' = rows /\ (csv' = "exited" => csv = "exited")
  BY DEF ConsoleEmpty, outputs
<1> QED BY <1>1, <1>2, <1>3, <1>4, FileKept DEF LoggerIInv

LEMMA CsvWhileKeeps ==
  ASSUME LoggerIInv, CsvWhile
  PROVE  LoggerIInv'
<1>1. LoggerTypeOK'
  BY DEF LoggerIInv, LoggerTypeOK, CsvWhile, file, outputs
<1>2. AtHand' /\ Exits'
  BY DEF LoggerIInv, CsvWhile, AtHand, Exits, Logging, file, outputs
<1>3. Outputs'
  BY OutputsKept DEF LoggerIInv, CsvWhile, CsvTop, DbTop, Logging, file, outputs
<1>4. UNCHANGED file /\ rows' = rows /\ (csv' = "exited" => csv = "exited")
  BY DEF CsvWhile, outputs
<1> QED BY <1>1, <1>2, <1>3, <1>4, FileKept DEF LoggerIInv

LEMMA CsvEmptyKeeps ==
  ASSUME LoggerIInv, CsvEmpty
  PROVE  LoggerIInv'
<1>1. LoggerTypeOK'
  BY DEF LoggerIInv, LoggerTypeOK, CsvEmpty, file, outputs
<1>2. AtHand' /\ Exits'
  BY DEF LoggerIInv, CsvEmpty, AtHand, Exits, Logging, file, outputs
<1>3. Outputs'
  BY OutputsKept DEF LoggerIInv, CsvEmpty, CsvTop, DbTop, Logging, file, outputs
<1>4. UNCHANGED file /\ rows' = rows /\ (csv' = "exited" => csv = "exited")
  BY DEF CsvEmpty, outputs
<1> QED BY <1>1, <1>2, <1>3, <1>4, FileKept DEF LoggerIInv

LEMMA StopKeeps ==
  ASSUME LoggerIInv, Stop
  PROVE  LoggerIInv'
<1>1. LoggerTypeOK'
  BY DEF LoggerIInv, LoggerTypeOK, Stop, file, outputs
<1>2. AtHand' /\ Exits'
  BY DEF LoggerIInv, Stop, AtHand, Exits, Logging, file, outputs
<1>3. Outputs'
  BY OutputsKept DEF LoggerIInv, Stop, CsvTop, DbTop, Logging, file, outputs
<1>4. UNCHANGED file /\ rows' = rows /\ (csv' = "exited" => csv = "exited")
  BY DEF Stop, outputs
<1> QED BY <1>1, <1>2, <1>3, <1>4, FileKept DEF LoggerIInv

LEMMA JoinConsoleKeeps ==
  ASSUME LoggerIInv, JoinConsole
  PROVE  LoggerIInv'
<1>1. LoggerTypeOK'
  BY DEF LoggerIInv, LoggerTypeOK, JoinConsole, file, outputs
<1>2. AtHand' /\ Exits'
  BY DEF LoggerIInv, JoinConsole, AtHand, Exits, Logging, file, outputs
<1>3. Outputs'
  BY OutputsKept DEF LoggerIInv, JoinConsole, CsvTop, DbTop, Logging, file, outputs
<1>4. UNCHANGED file /\ rows' = rows /\ (csv' = "exited" => csv = "exited")
  BY DEF JoinConsole, outputs
<1> QED BY <1>1, <1>2, <1>3, <1>4, FileKept DEF LoggerIInv

LEMMA LogKeeps ==
  ASSUME LoggerIInv, NEW e \in Entries, Log(e)
  PROVE  LoggerIInv'
<1>1. /\ trader = "idle" /\ running /\ e.n = logged + 1 /\ trader' = "enqueue csv"
      /\ logged' = e.n /\ entry' = [entry EXCEPT !["trader"] = e]
      /\ UNCHANGED <<running, csv_queue, console, csv, file, outputs>>
  BY DEF Log
<1>2. \/ console_queue' = Append(console_queue, e) /\ drops' = drops
      \/ console_queue' = console_queue /\ drops' = drops + 1
  BY DEF Log
<1>3. /\ logged \in Int /\ drops \in Nat /\ printed \in Seq(Numbers) /\ console_queue \in Seq(Entries)
      /\ entry \in [{"trader", "console", "csv"} -> Entries \cup {NoEntry}]
      /\ console_queue' \in Seq(Entries) /\ drops' \in Nat /\ logged' \in 0..MaxEntries
  <2>1. /\ logged \in Int /\ drops \in Nat /\ printed \in Seq(Numbers) /\ console_queue \in Seq(Entries)
        /\ entry \in [{"trader", "console", "csv"} -> Entries \cup {NoEntry}]
    BY Types DEF LoggerIInv
  <2>2. e.n \in 1..MaxEntries
    BY DEF Entries, Numbers
  <2>3. logged' \in 0..MaxEntries
    <3>1. \A x \in 1..MaxEntries : x \in 0..MaxEntries
      OBVIOUS
    <3>2. logged' = e.n
      BY <1>1
    <3> QED BY Zenon, <2>2, <3>1, <3>2
  <2>4. Append(console_queue, e) \in Seq(Entries)
    BY <2>1, AppendFacts
  <2>5. console_queue' \in Seq(Entries) /\ drops' \in Nat
    <3>1. drops \in Nat /\ drops + 1 \in Nat
      BY <2>1
    <3> QED BY Zenon, <1>2, <2>1, <2>4, <3>1
  <2> QED BY <2>1, <2>3, <2>5
<1>4. entry'["trader"] = e /\ entry'["csv"] = entry["csv"]
  BY <1>1, <1>3
<1>5. LoggerTypeOK'
  <2>1. entry' \in [{"trader", "console", "csv"} -> Entries \cup {NoEntry}]
    BY <1>1, <1>3
  <2> QED BY <1>1, <1>3, <2>1 DEF LoggerIInv, LoggerTypeOK, file, outputs
<1>6. AtHand' /\ Exits'
  BY <1>1, <1>2, <1>4 DEF LoggerIInv, AtHand, Exits, Logging
<1>7. Outputs'
  <2>1. Reaches(printed, console_queue, logged)'
    <3>1. InOrder(printed, console_queue', logged') /\ (drops' = 0 => Gapless(printed, console_queue', logged'))
      BY <1>1, <1>2, <1>3, ReachesSends DEF LoggerIInv, Outputs
    <3> QED BY <1>1, <3>1 DEF Reaches, outputs
  <2>2. OnTheWay' = OnTheWay /\ CsvTop' = CsvTop /\ DbTop' = DbTop
    <3>1. logged' - 1 = logged
      <4>1. logged' = logged + 1
        BY <1>1
      <4> QED BY <1>3, <4>1
    <3>2. trader = "idle" /\ trader' = "enqueue csv" /\ csv' = csv /\ csv_queue' = csv_queue
          /\ entry'["csv"] = entry["csv"]
      BY <1>1, <1>4
    <3>3. OnTheWay' = OnTheWay
      BY Zenon, <3>2 DEF OnTheWay
    <3>4. CsvTop = logged /\ DbTop = logged /\ CsvTop' = logged' - 1 /\ DbTop' = logged' - 1
      BY <3>2 DEF CsvTop, DbTop, Logging
    <3> QED BY <3>1, <3>3, <3>4
  <2>3. Reaches(rows, OnTheWay, CsvTop)'
    <3>1. InOrder(rows, OnTheWay, CsvTop) /\ (drops' = 0 => Gapless(rows, OnTheWay, CsvTop))
      BY <1>2, ReachesKept DEF LoggerIInv, Outputs
    <3> QED BY <1>1, <2>2, <3>1 DEF Reaches, outputs
  <2> QED BY <1>1, <2>1, <2>2, <2>3 DEF LoggerIInv, Outputs, outputs
<1> QED BY <1>1, <1>5, <1>6, <1>7, FileKept DEF LoggerIInv, outputs

LEMMA EnqueueCsvKeeps ==
  ASSUME LoggerIInv, EnqueueCsv
  PROVE  LoggerIInv'
<1> DEFINE e == entry["trader"]
<1>1. /\ trader = "enqueue csv" /\ trader' = "send to db"
      /\ UNCHANGED <<running, console_queue, console, csv, entry, file, logged, outputs>>
  BY DEF EnqueueCsv
<1>2. \/ csv_queue' = Append(csv_queue, e) /\ drops' = drops
      \/ csv_queue' = csv_queue /\ drops' = drops + 1
  BY DEF EnqueueCsv
<1>3. /\ e \in Entries /\ e.n = logged /\ logged \in Int /\ drops \in Nat
      /\ rows \in Seq(Numbers) /\ csv_queue \in Seq(Entries)
      /\ csv = "write" => entry["csv"] \in Entries
      /\ OnTheWay \in Seq(Entries)
  <2>1. /\ logged \in Int /\ drops \in Nat /\ rows \in Seq(Numbers) /\ csv_queue \in Seq(Entries)
    BY Types DEF LoggerIInv
  <2>2. OnTheWay \in Seq(Entries)
    BY WayType DEF LoggerIInv
  <2>3. e \in Entries /\ e.n = logged /\ (csv = "write" => entry["csv"] \in Entries)
    BY <1>1 DEF LoggerIInv, AtHand, Logging
  <2> QED BY <2>1, <2>2, <2>3
<1> HIDE DEF e
<1>4. LoggerTypeOK'
  <2>1. csv_queue' \in Seq(Entries) /\ drops' \in Nat
    <3>1. Append(csv_queue, e) \in Seq(Entries)
      BY <1>3, AppendFacts
    <3>2. drops \in Nat /\ drops + 1 \in Nat
      BY <1>3
    <3> QED BY Zenon, <1>2, <1>3, <3>1, <3>2
  <2> QED BY <1>1, <2>1 DEF LoggerIInv, LoggerTypeOK, file, outputs
<1>5. AtHand' /\ Exits'
  BY <1>1, <1>2 DEF LoggerIInv, AtHand, Exits, Logging
<1>6. Outputs'
  <2>1. \/ OnTheWay' = Append(OnTheWay, e) /\ drops' = drops
        \/ OnTheWay' = OnTheWay /\ drops' = drops + 1
    <3> DEFINE h == entry["csv"]
    <3>1. /\ OnTheWay = IF csv = "write" THEN <<h>> \o csv_queue ELSE csv_queue
          /\ OnTheWay' = IF csv = "write" THEN <<h>> \o csv_queue' ELSE csv_queue'
      BY <1>1 DEF OnTheWay
    <3>2. csv = "write" => h \in Entries
      BY <1>3
    <3> HIDE DEF h
    <3>3. csv = "write" => Append(<<h>> \o csv_queue, e) = <<h>> \o Append(csv_queue, e)
      <4>1. e \in Entries /\ csv_queue \in Seq(Entries)
        BY <1>3
      <4>2. ASSUME csv = "write"
            PROVE  Append(<<h>> \o csv_queue, e) = <<h>> \o Append(csv_queue, e)
        <5>1. h \in Entries
          BY <3>2, <4>2
        <5> QED BY <4>1, <5>1, FrontAppend
      <4> QED BY <4>2
    <3>4. CASE csv = "write"
      <4>1. OnTheWay = <<h>> \o csv_queue /\ OnTheWay' = <<h>> \o csv_queue'
        BY Zenon, <3>1, <3>4
      <4> QED BY Zenon, <1>2, <3>3, <3>4, <4>1
    <3>5. CASE csv # "write"
      <4>1. OnTheWay = csv_queue /\ OnTheWay' = csv_queue'
        BY Zenon, <3>1, <3>5
      <4> QED BY Zenon, <1>2, <4>1
    <3> QED BY <3>4, <3>5
  <2>2. CsvTop' = CsvTop + 1 /\ CsvTop = logged - 1 /\ CsvTop \in Int /\ e.n = CsvTop + 1 /\ DbTop' = DbTop
    <3>1. CsvTop = logged - 1 /\ CsvTop' = logged' /\ logged' = logged /\ DbTop' = logged' - 1 /\ DbTop = logged - 1
      BY <1>1 DEF CsvTop, DbTop, Logging
    <3>2. (logged - 1) + 1 = logged /\ logged - 1 \in Int
      BY <1>3
    <3> QED BY <1>3, <3>1, <3>2
  <2>3. Reaches(rows, OnTheWay, CsvTop)'
    <3>1. InOrder(rows, OnTheWay', CsvTop') /\ (drops' = 0 => Gapless(rows, OnTheWay', CsvTop'))
      BY <1>3, <2>1, <2>2, ReachesSends DEF LoggerIInv, Outputs
    <3> QED BY <1>1, <3>1 DEF Reaches, outputs
  <2>4. Reaches(printed, console_queue, logged)'
    <3>1. InOrder(printed, console_queue, logged) /\ (drops' = 0 => Gapless(printed, console_queue, logged))
      BY <1>2, ReachesKept DEF LoggerIInv, Outputs
    <3> QED BY <1>1, <3>1 DEF Reaches, outputs
  <2> QED BY <1>1, <2>2, <2>3, <2>4 DEF LoggerIInv, Outputs, outputs
<1> QED BY <1>1, <1>4, <1>5, <1>6, FileKept DEF LoggerIInv, outputs

LEMMA SendToDbKeeps ==
  ASSUME LoggerIInv, format_and_send_to_db
  PROVE  LoggerIInv'
<1> DEFINE e == entry["trader"]
<1>1. /\ trader = "send to db" /\ trader' = "idle" /\ db' = Append(db, e.n)
      /\ UNCHANGED <<running, console_queue, csv_queue, console, csv, entry, file, logged,
                     printed, rows, drops>>
  BY DEF format_and_send_to_db
<1>2. /\ e \in Entries /\ e.n = logged /\ logged \in Int /\ db \in Seq(Numbers) /\ e.n \in Numbers
  <2>1. e \in Entries /\ e.n = logged
    BY <1>1 DEF LoggerIInv, AtHand, Logging
  <2>2. e.n \in Numbers
    BY <2>1 DEF Entries
  <2> QED BY <2>1, <2>2, Types DEF LoggerIInv
<1> HIDE DEF e
<1> DEFINE n == Len(db)
<1>3. /\ db' \in Seq(Numbers) /\ n \in Nat /\ DOMAIN db = 1..n /\ DOMAIN db' = 1..(n + 1) /\ Len(db') = n + 1
      /\ \A k \in 1..n : db'[k] = db[k]
      /\ db'[n + 1] = logged
  <2>1. db' = Append(db, logged) /\ logged \in Numbers
    BY <1>1, <1>2
  <2> QED BY <1>2, <2>1, AppendFacts
<1>4. n = logged - 1 /\ \A k \in 1..n : db[k] = k
  BY <1>1, <1>3 DEF LoggerIInv, Outputs, DbTop, Logging
<1>5. LoggerTypeOK'
  BY <1>1, <1>3 DEF LoggerIInv, LoggerTypeOK, file
<1>6. AtHand' /\ Exits'
  BY <1>1 DEF LoggerIInv, AtHand, Exits, Logging
<1> HIDE DEF n
<1>7. Outputs'
  <2>1. Len(db') = DbTop'
    <3>1. DbTop' = logged
      BY <1>1 DEF DbTop, Logging
    <3>2. n + 1 = logged
      BY <1>2, <1>4
    <3> QED BY <1>3, <3>1, <3>2
  <2>2. 1..(n + 1) = 1..n \cup {n + 1} /\ n + 1 = logged
    BY <1>2, <1>3, <1>4
  <2>3. \A k \in DOMAIN db' : db'[k] = k
    BY <1>3, <1>4, <2>2
  <2>4. OnTheWay' = OnTheWay /\ CsvTop' = CsvTop
    BY <1>1 DEF OnTheWay, CsvTop
  <2> QED BY <1>1, <2>1, <2>3, <2>4 DEF LoggerIInv, Outputs, Reaches
<1> QED BY <1>1, <1>5, <1>6, <1>7, FileKept DEF LoggerIInv, outputs

LEMMA ConsolePrintKeeps ==
  ASSUME LoggerIInv, ConsolePrint
  PROVE  LoggerIInv'
<1>1. /\ console = "dequeue" /\ console' = "while"
      /\ UNCHANGED <<running, csv_queue, trader, csv, entry, file, logged, rows, db, drops>>
  BY DEF ConsolePrint
<1>2. OnTheWay' = OnTheWay /\ CsvTop' = CsvTop /\ DbTop' = DbTop
  BY <1>1 DEF OnTheWay, CsvTop, DbTop
<1>3. CASE console_queue = << >>
  <2>1. UNCHANGED <<console_queue, printed>>
    BY <1>3 DEF ConsolePrint
  <2>2. LoggerTypeOK'
    BY <1>1, <2>1 DEF LoggerIInv, LoggerTypeOK, file
  <2>3. AtHand' /\ Exits'
    BY <1>1, <2>1 DEF LoggerIInv, AtHand, Exits, Logging
  <2>4. Outputs'
    BY <1>1, <1>2, <2>1 DEF LoggerIInv, Outputs, Reaches
  <2> QED BY <1>1, <2>1, <2>2, <2>3, <2>4, FileKept DEF LoggerIInv, outputs
<1>4. CASE console_queue # << >>
  <2>1. printed' = Append(printed, Head(console_queue).n) /\ console_queue' = Tail(console_queue)
    BY <1>4 DEF ConsolePrint
  <2>2. /\ console_queue \in Seq(Entries) /\ printed \in Seq(Numbers) /\ logged \in Int
        /\ Head(console_queue) \in Entries /\ Head(console_queue).n \in Numbers
        /\ console_queue' \in Seq(Entries) /\ printed' \in Seq(Numbers)
    <3>1. /\ console_queue \in Seq(Entries) /\ printed \in Seq(Numbers) /\ logged \in Int
      BY Types DEF LoggerIInv
    <3>2. Head(console_queue) \in Entries /\ Tail(console_queue) \in Seq(Entries)
      BY <1>4, <3>1, TailFacts
    <3>3. Head(console_queue).n \in Numbers
      BY <3>2 DEF Entries
    <3>4. Append(printed, Head(console_queue).n) \in Seq(Numbers)
      BY <3>1, <3>3, AppendFacts
    <3> QED BY <2>1, <3>1, <3>2, <3>3, <3>4
  <2>3. LoggerTypeOK'
    BY <1>1, <2>2 DEF LoggerIInv, LoggerTypeOK, file
  <2>4. AtHand' /\ Exits'
    BY <1>1, <1>4 DEF LoggerIInv, AtHand, Exits, Logging
  <2>5. Reaches(printed, console_queue, logged)'
    <3>1. Reaches(Append(printed, Head(console_queue).n), Tail(console_queue), logged)
      BY <1>4, <2>2, ReachesMoves DEF LoggerIInv, Outputs
    <3> QED BY <1>1, <2>1, <3>1 DEF Reaches
  <2>6. Outputs'
    BY <1>1, <1>2, <2>5 DEF LoggerIInv, Outputs, Reaches
  <2> QED BY <1>1, <2>3, <2>4, <2>6, FileKept DEF LoggerIInv
<1> QED BY <1>3, <1>4

LEMMA CsvDequeueKeeps ==
  ASSUME LoggerIInv, CsvDequeue
  PROVE  LoggerIInv'
<1>1. /\ csv = "dequeue"
      /\ UNCHANGED <<running, console_queue, trader, console, file, logged, outputs, drops>>
  BY DEF CsvDequeue
<1>2. CsvTop' = CsvTop /\ DbTop' = DbTop
  BY <1>1 DEF CsvTop, DbTop
<1>3. CASE csv_queue = << >>
  <2>1. csv' = "while" /\ UNCHANGED <<csv_queue, entry>>
    BY <1>3 DEF CsvDequeue
  <2>2. LoggerTypeOK'
    BY <1>1, <2>1 DEF LoggerIInv, LoggerTypeOK, file, outputs
  <2>3. AtHand' /\ Exits'
    BY <1>1, <2>1 DEF LoggerIInv, AtHand, Exits, Logging
  <2>4. Outputs'
    BY <1>1, <1>2, <2>1, OutputsKept DEF LoggerIInv, outputs
  <2> QED BY <1>1, <2>1, <2>2, <2>3, <2>4, FileKept DEF LoggerIInv, outputs
<1>4. CASE csv_queue # << >>
  <2>1. /\ entry' = [entry EXCEPT !["csv"] = Head(csv_queue)]
        /\ csv_queue' = Tail(csv_queue) /\ csv' = "write"
    BY <1>4 DEF CsvDequeue
  <2>2. /\ csv_queue \in Seq(Entries) /\ Head(csv_queue) \in Entries /\ csv_queue' \in Seq(Entries)
        /\ entry \in [{"trader", "console", "csv"} -> Entries \cup {NoEntry}]
    BY <1>4, <2>1, TailFacts DEF LoggerIInv, LoggerTypeOK
  <2>3. /\ entry'["csv"] = Head(csv_queue) /\ entry'["trader"] = entry["trader"]
        /\ entry' \in [{"trader", "console", "csv"} -> Entries \cup {NoEntry}]
    BY <2>1, <2>2
  <2>4. LoggerTypeOK'
    BY <1>1, <2>1, <2>2, <2>3 DEF LoggerIInv, LoggerTypeOK, file, outputs
  <2>5. AtHand' /\ Exits'
    BY <1>1, <2>1, <2>2, <2>3 DEF LoggerIInv, AtHand, Exits, Logging
  <2>6. OnTheWay' = OnTheWay
    BY <1>1, <1>4, <2>1, <2>2, <2>3, FrontOfTail DEF OnTheWay
  <2>7. Outputs'
    BY <1>1, <1>2, <2>6 DEF LoggerIInv, Outputs, Reaches, outputs
  <2> QED BY <1>1, <2>1, <2>4, <2>5, <2>7, FileKept DEF LoggerIInv, outputs
<1> QED BY <1>3, <1>4

LEMMA CsvWriteKeeps ==
  ASSUME LoggerIInv, CsvWrite
  PROVE  LoggerIInv'
<1> DEFINE e == entry["csv"]
           w == write_to_buffer(e)
<1>1. /\ csv = "write" /\ csv' = "while" /\ log_buffer' = w.buffer
      /\ rows' = Append(rows, e.n)
      /\ UNCHANGED <<running, console_queue, csv_queue, trader, console, entry, logged,
                     printed, db, drops>>
  BY DEF CsvWrite
<1>2. \/ /\ entries_since_flush' = 0 /\ last_flush_time' = e.minute
         /\ buffer_offset' = 0 /\ pending' = << >>
         /\ synced' = w.synced \cup msync(w.buffer, w.pending)
      \/ /\ entries_since_flush + 1 < FLUSH_BATCH_SIZE /\ e.minute = last_flush_time
         /\ entries_since_flush' = entries_since_flush + 1
         /\ buffer_offset' = w.offset /\ pending' = w.pending /\ synced' = w.synced
         /\ last_flush_time' = last_flush_time
  <2>1. entries_since_flush \in Int /\ FLUSH_BATCH_SIZE \in Int
    BY Types, LoggerAssumption DEF LoggerIInv
  <2>2. FlushDue(e) \/ (entries_since_flush + 1 < FLUSH_BATCH_SIZE /\ e.minute = last_flush_time)
    BY <2>1 DEF FlushDue
  <2>3. CASE FlushDue(e)
    BY <2>3 DEF CsvWrite
  <2>4. CASE ~FlushDue(e)
    BY <2>2, <2>4 DEF CsvWrite
  <2> QED BY <2>3, <2>4
<1>3. /\ e \in Entries /\ e \in FileLines /\ e.minute \in Minutes /\ e.n \in Numbers
      /\ csv_queue \in Seq(Entries) /\ rows \in Seq(Numbers)
      /\ entries_since_flush \in Nat /\ FLUSH_BATCH_SIZE \in Nat \ {0}
  <2>1. e \in Entries
    BY <1>1 DEF LoggerIInv, AtHand
  <2>2. e.minute \in Minutes /\ e.n \in Numbers
    BY <2>1 DEF Entries
  <2> QED BY <2>1, <2>2, Types, LoggerAssumption DEF LoggerIInv, FileLines
<1>4. /\ w.buffer \in [Cells -> Marks] /\ w.offset \in 0..buffer_size
      /\ w.pending \in Seq(FileLines)
      /\ Placed(w.buffer, w.offset, w.pending)
      /\ Cardinality(AtRisk(w.pending)) <= entries_since_flush + 1
      /\ e.minute = last_flush_time =>
           \A k \in AtRisk(w.pending) : w.pending[k].minute = last_flush_time
      /\ w.synced \subseteq 0..MaxEntries
      /\ Kept(Append(rows, e.n), w.pending, w.synced)
  BY <1>3, WriteFacts DEF LoggerIInv
<1>5. << >> \in Seq(FileLines) /\ 0 \in 0..buffer_size
  BY LoggerAssumption
<1>6. OnTheWay = <<e>> \o csv_queue /\ OnTheWay' = csv_queue /\ CsvTop' = CsvTop /\ DbTop' = DbTop
  BY <1>1 DEF OnTheWay, CsvTop, DbTop
<1> HIDE DEF e, w
<1>11. /\ w.synced \cup msync(w.buffer, w.pending) \subseteq 0..MaxEntries
       /\ Kept(Append(rows, e.n), << >>, w.synced \cup msync(w.buffer, w.pending))
  BY Zenon, <1>4, SyncFacts
<1>7. LoggerTypeOK'
  <2>1. rows' \in Seq(Numbers)
    BY <1>1, <1>3, AppendFacts
  <2>2. entries_since_flush' \in 0..(FLUSH_BATCH_SIZE - 1)
    BY <1>2, <1>3
  <2>3. last_flush_time' \in Minutes \cup {0}
    BY <1>2, <1>3 DEF LoggerIInv, LoggerTypeOK
  <2>4. log_buffer' \in [Cells -> Marks] /\ buffer_offset' \in 0..buffer_size /\ pending' \in Seq(FileLines)
    BY <1>1, <1>2, <1>4, <1>5
  <2>5. synced' \subseteq 0..MaxEntries
    BY Zenon, <1>2, <1>4, <1>11
  <2> QED BY <1>1, <2>1, <2>2, <2>3, <2>4, <2>5 DEF LoggerIInv, LoggerTypeOK, Marks, FileLines
<1>8. AtHand' /\ Exits'
  BY <1>1 DEF LoggerIInv, AtHand, Exits, Logging
<1>9. Outputs'
  <2>1. OnTheWay \in Seq(Entries) /\ CsvTop \in Int
    BY WayType DEF LoggerIInv
  <2>2. OnTheWay # << >> /\ Head(OnTheWay) = e /\ Tail(OnTheWay) = csv_queue
    BY <1>3, <1>6, FrontFacts
  <2>3. Reaches(Append(rows, Head(OnTheWay).n), Tail(OnTheWay), CsvTop)
    BY <1>3, <2>1, <2>2, ReachesMoves DEF LoggerIInv, Outputs
  <2>4. Reaches(rows', OnTheWay', CsvTop')
    BY <1>1, <1>6, <2>2, <2>3
  <2>5. Reaches(rows, OnTheWay, CsvTop)'
    BY <1>1, <2>4 DEF Reaches
  <2> QED BY <1>1, <1>6, <2>5 DEF LoggerIInv, Outputs, Reaches
<1>10. Placed(log_buffer, buffer_offset, pending)' /\ Recent'
  <2>1. CASE pending' = << >> /\ buffer_offset' = 0 /\ entries_since_flush' = 0
    BY <2>1, FileFlushed DEF LoggerIInv
  <2>2. CASE /\ e.minute = last_flush_time /\ entries_since_flush' = entries_since_flush + 1
             /\ buffer_offset' = w.offset /\ pending' = w.pending /\ last_flush_time' = last_flush_time
    <3>1. Placed(log_buffer, buffer_offset, pending)'
      BY <1>1, <1>4, <2>2
    <3>2. Recent'
      BY <1>4, <2>2 DEF Recent
    <3> QED BY <3>1, <3>2
  <2> QED BY <1>2, <2>1, <2>2
<1>12. Kept(rows, pending, synced)' /\ FlushedAtEnd'
  <2>1. Kept(rows', pending', synced')
    BY Zenon, <1>1, <1>2, <1>4, <1>11
  <2> QED BY <1>1, <2>1 DEF Kept, FlushedAtEnd
<1> QED BY <1>7, <1>8, <1>9, <1>10, <1>12 DEF LoggerIInv

LEMMA CsvFlushKeeps ==
  ASSUME LoggerIInv, CsvFlush \/ JoinCsv
  PROVE  LoggerIInv'
<1>1. /\ buffer_offset' = 0 /\ pending' = << >>
      /\ synced' = IF buffer_offset > 0 THEN synced \cup msync(log_buffer, pending) ELSE synced
      /\ UNCHANGED <<entries_since_flush, last_flush_time, log_buffer, running, console_queue, csv_queue,
                     console, entry, logged, outputs, drops>>
  BY DEF CsvFlush, JoinCsv, flush_buffer
<1>2. \/ csv = "flush" /\ csv' = "exited" /\ trader' = trader
      \/ csv = "exited" /\ csv' = csv /\ trader = "join csv" /\ trader' = "destroyed"
  BY DEF CsvFlush, JoinCsv
<1>3. << >> \in Seq(Entries \cup {Header}) /\ 0 \in 0..buffer_size /\ entries_since_flush \in Nat
  <2>1. entries_since_flush \in Nat
    BY Types DEF LoggerIInv
  <2>2. << >> \in Seq(Entries \cup {Header})
    BY EmptySeq
  <2> QED BY <2>1, <2>2, LoggerAssumption
<1>8. synced' \subseteq 0..MaxEntries /\ Kept(rows, << >>, synced')
  <2>1. /\ pending \in Seq(FileLines) /\ buffer_offset \in 0..buffer_size
        /\ synced \subseteq 0..MaxEntries
        /\ Placed(log_buffer, buffer_offset, pending) /\ Kept(rows, pending, synced)
    BY Zenon DEF LoggerIInv, LoggerTypeOK, FileLines
  <2>2. /\ synced \cup msync(log_buffer, pending) \subseteq 0..MaxEntries
        /\ Kept(rows, << >>, synced \cup msync(log_buffer, pending))
    BY <2>1, SyncFacts
  <2>3. CASE buffer_offset > 0
    BY Zenon, <1>1, <2>2, <2>3
  <2>4. CASE ~(buffer_offset > 0)
    <3>1. \A k \in DOMAIN pending : FALSE
      BY <2>1, <2>4, PlacedIntact
    <3>2. synced' = synced
      BY Zenon, <1>1, <2>4
    <3>3. \A k \in DOMAIN rows : rows[k] \in synced
      BY Zenon, <2>1, <3>1 DEF Kept
    <3>4. Kept(rows, << >>, synced)
      BY Zenon, <3>3 DEF Kept
    <3> QED BY Zenon, <2>1, <3>2, <3>4
  <2> QED BY Zenon, <2>3, <2>4
<1>9. Kept(rows, pending, synced)' /\ FlushedAtEnd'
  <2>1. rows' = rows
    BY <1>1 DEF outputs
  <2> QED BY <1>1, <1>8, <2>1 DEF Kept, FlushedAtEnd
<1>4. LoggerTypeOK'
  <2>1. pending' \in Seq(Entries \cup {Header}) /\ buffer_offset' \in 0..buffer_size
        /\ synced' \subseteq 0..MaxEntries
    BY <1>1, <1>3, <1>8
  <2> QED BY <1>1, <1>2, <2>1 DEF LoggerIInv, LoggerTypeOK, outputs
<1>5. AtHand' /\ Exits'
  BY <1>1, <1>2 DEF LoggerIInv, AtHand, Exits, Logging
<1>6. Outputs'
  BY <1>1, <1>2, OutputsKept DEF LoggerIInv, CsvTop, DbTop, Logging, outputs
<1>7. Placed(log_buffer, buffer_offset, pending)' /\ Recent'
  BY <1>1, <1>3, FileFlushed DEF LoggerIInv
<1> QED BY <1>4, <1>5, <1>6, <1>7, <1>9 DEF LoggerIInv

LEMMA LoggerInitHolds == LoggerInit => LoggerIInv
<1> SUFFICES ASSUME LoggerInit PROVE LoggerIInv
  OBVIOUS
<1> DEFINE blank == [c \in Cells |-> Before]
<1>1. /\ << >> \in Seq(Entries) /\ << >> \in Seq(Numbers) /\ << >> \in Seq(FileLines)
      /\ Len(<< >>) = 0 /\ DOMAIN << >> = {}
  BY EmptySeq
<1>2. /\ running = TRUE /\ trader = "idle" /\ console = "while" /\ csv = "while"
      /\ entry = [q \in {"trader", "console", "csv"} |-> NoEntry]
      /\ entries_since_flush = 0 /\ last_flush_time = 0
      /\ log_buffer = Copied(blank, 0, Header) /\ buffer_offset = HeaderSize
      /\ pending = <<Header>> /\ logged = 0 /\ drops = 0 /\ synced = {}
  BY DEF LoggerInit
<1>3. /\ console_queue \in Seq(Entries) /\ csv_queue \in Seq(Entries)
      /\ printed \in Seq(Numbers) /\ rows \in Seq(Numbers) /\ db \in Seq(Numbers)
      /\ DOMAIN console_queue = {} /\ DOMAIN csv_queue = {} /\ DOMAIN printed = {} /\ DOMAIN rows = {}
      /\ DOMAIN db = {} /\ Len(console_queue) = 0 /\ Len(csv_queue) = 0 /\ Len(printed) = 0
      /\ Len(rows) = 0 /\ Len(db) = 0
  BY <1>1 DEF LoggerInit
<1>4. blank \in [Cells -> Marks]
  BY LoggerAssumption DEF Marks, Before
<1>5. /\ Header \in FileLines /\ Header.size = HeaderSize /\ Header.n = 0
      /\ HeaderSize \in 0..buffer_size /\ 0 + HeaderSize = HeaderSize /\ HeaderSize <= buffer_size
      /\ 0 \in 0..buffer_size
  BY LoggerAssumption DEF FileLines, Header
<1> HIDE DEF blank
<1>6. Append(<< >>, Header) = <<Header>>
  OBVIOUS
<1>7. Copied(blank, 0, Header) \in [Cells -> Marks]
  BY <1>4, <1>5, CopiedFacts
<1>8. <<Header>> \in Seq(FileLines)
  BY <1>5
<1>9. Placed(log_buffer, buffer_offset, pending)
  <2>1. Placed(Copied(blank, 0, Header), 0 + Header.size, Append(<< >>, Header))
    BY <1>1, <1>4, <1>5, NothingPlaced, LinePlaced
  <2> QED BY <1>2, <1>5, <1>6, <2>1
<1>10. Recent
  <2>1. DOMAIN <<Header>> = {1} /\ <<Header>>[1] = Header
    OBVIOUS
  <2>2. AtRisk(<<Header>>) = {}
    BY <1>5, <2>1 DEF AtRisk
  <2>3. Cardinality(AtRisk(<<Header>>)) = 0
    BY <2>2, FS_EmptySet
  <2> QED BY <1>2, <2>2, <2>3 DEF Recent
<1>11. LoggerTypeOK
  <2>1. entries_since_flush \in 0..(FLUSH_BATCH_SIZE - 1) /\ logged \in 0..MaxEntries /\ drops \in Nat
    BY <1>2, LoggerAssumption
  <2>2. entry \in [{"trader", "console", "csv"} -> Entries \cup {NoEntry}] /\ last_flush_time \in Minutes \cup {0}
    BY <1>2
  <2>3. log_buffer \in [Cells -> (0..MaxEntries) \X (0..buffer_size)] /\ pending \in Seq(Entries \cup {Header})
        /\ buffer_offset \in 0..buffer_size
    BY <1>2, <1>5, <1>7, <1>8 DEF Marks, FileLines
  <2>4. running \in BOOLEAN /\ trader = "idle" /\ console = "while" /\ csv = "while"
    BY <1>2
  <2>5. synced \subseteq 0..MaxEntries
    BY <1>2
  <2> QED BY <1>3, <2>1, <2>2, <2>3, <2>4, <2>5 DEF LoggerTypeOK
<1>12. AtHand
  BY <1>2 DEF AtHand, Logging
<1>13. Exits
  BY <1>2 DEF Exits, Logging
<1>14. Outputs
  <2>1. OnTheWay = csv_queue /\ CsvTop = 0 /\ DbTop = 0
    BY <1>2 DEF OnTheWay, CsvTop, DbTop, Logging
  <2> QED BY <1>2, <1>3, <2>1 DEF Outputs, Reaches, InOrder, Gapless
<1>15. Kept(rows, pending, synced) /\ FlushedAtEnd
  BY <1>2, <1>3 DEF Kept, FlushedAtEnd
<1> QED BY <1>9, <1>10, <1>11, <1>12, <1>13, <1>14, <1>15 DEF LoggerIInv

LEMMA StepKeeps == LoggerIInv /\ [LoggerNext]_loggerVars => LoggerIInv'
<1> SUFFICES ASSUME LoggerIInv, [LoggerNext]_loggerVars PROVE LoggerIInv'
  OBVIOUS
<1>1. ASSUME NEW e \in Entries, Log(e) PROVE LoggerIInv'
  BY <1>1, LogKeeps
<1>2. CASE TraderStep
  BY <1>2, EnqueueCsvKeeps, SendToDbKeeps, JoinConsoleKeeps, CsvFlushKeeps DEF TraderStep
<1>3. CASE ConsoleStep
  BY <1>3, ConsoleWhileKeeps, ConsoleEmptyKeeps, ConsolePrintKeeps DEF ConsoleStep
<1>4. CASE CsvStep
  BY <1>4, CsvWhileKeeps, CsvEmptyKeeps, CsvDequeueKeeps, CsvWriteKeeps, CsvFlushKeeps DEF CsvStep
<1>5. CASE Stop
  BY <1>5, StopKeeps
<1>6. CASE Destroyed \/ UNCHANGED loggerVars
  <2>1. UNCHANGED <<running, console_queue, csv_queue, trader, console, csv, entry, logged, outputs, drops>>
        /\ UNCHANGED file
    BY <1>6 DEF Destroyed, loggerVars
  <2>4. UNCHANGED <<entries_since_flush, last_flush_time, log_buffer, buffer_offset, pending, synced,
                    printed, rows, db>>
    BY Zenon, <2>1 DEF file, outputs
  <2>5. LoggerTypeOK'
    BY Zenon, <2>1, <2>4 DEF LoggerIInv, LoggerTypeOK
  <2>6. AtHand' /\ Exits'
    BY Zenon, <2>1 DEF LoggerIInv, AtHand, Exits, Logging
  <2>2. LoggerTypeOK' /\ AtHand' /\ Exits'
    BY Zenon, <2>5, <2>6
  <2>3. Outputs'
    BY <2>1, OutputsKept DEF LoggerIInv, CsvTop, DbTop, outputs
  <2> QED BY <2>1, <2>2, <2>3, FileKept DEF LoggerIInv, outputs
<1> QED BY <1>1, <1>2, <1>3, <1>4, <1>5, <1>6 DEF LoggerNext

\* The invariant of the logger (log, its two loops, write_to_buffer,
\* flush_buffer and the destructor, src/async_logger.cpp:9-161) holds in every
\* reachable state.
THEOREM LoggerInductive == LoggerSpec => []LoggerIInv
<1> QED BY LoggerInitHolds, StepKeeps, PTL DEF LoggerSpec

\* No output repeats or reorders entries (src/async_logger.cpp:60-100,158-160).
THEOREM OutputsAlwaysInOrder == LoggerSpec => []OutputsInOrder
<1>1. LoggerIInv => OutputsInOrder
  <2> SUFFICES ASSUME LoggerIInv PROVE OutputsInOrder
    OBVIOUS
  <2>1. \A i, j \in DOMAIN db : i < j => db[i] < db[j]
    BY DEF LoggerIInv, Outputs
  <2> QED BY <2>1 DEF LoggerIInv, Outputs, Reaches, InOrder, OutputsInOrder
<1> QED BY <1>1, LoggerInductive, PTL

\* Once the logger is destroyed, and nothing was dropped, console, file and
\* database have had every entry (src/async_logger.cpp:45-54,60-100).
THEOREM OutputsAlwaysAgreeAtEnd == LoggerSpec => []OutputsAgreeAtEnd
<1>1. LoggerIInv => OutputsAgreeAtEnd
  <2> SUFFICES ASSUME LoggerIInv, trader = "destroyed", drops = 0
               PROVE  db = [k \in 1..logged |-> k] /\ printed = db /\ rows = db
    BY DEF OutputsAgreeAtEnd
  <2>1. console_queue = << >> /\ csv_queue = << >> /\ csv = "exited"
    BY DEF LoggerIInv, Exits
  <2>2. /\ db \in Seq(Numbers) /\ printed \in Seq(Numbers) /\ rows \in Seq(Numbers) /\ logged \in Nat
    BY DEF LoggerIInv, LoggerTypeOK
  <2>3. OnTheWay = << >> /\ CsvTop = logged /\ DbTop = logged /\ Len(<< >>) = 0
    BY <2>1, EmptySeq DEF OnTheWay, CsvTop, DbTop, Logging
  <2>4. /\ Len(printed) + 0 = logged /\ Len(rows) + 0 = logged /\ Len(db) = logged
        /\ \A i \in DOMAIN printed : printed[i] = i
        /\ \A i \in DOMAIN rows : rows[i] = i
        /\ \A i \in DOMAIN db : db[i] = i
    BY <2>1, <2>3 DEF LoggerIInv, Outputs, Reaches, Gapless
  <2>5. /\ Len(printed) = logged /\ Len(rows) = logged
        /\ DOMAIN db = 1..logged /\ DOMAIN printed = 1..logged /\ DOMAIN rows = 1..logged
    BY <2>2, <2>4, LenProperties
  <2>6. printed = db /\ rows = db
    BY <2>2, <2>4, <2>5, SeqEqual
  <2>7. db = [k \in 1..logged |-> k]
    <3>1. db = [k \in DOMAIN db |-> db[k]]
      BY <2>2, LenProperties
    <3> QED BY <2>4, <2>5, <3>1
  <2> QED BY <2>6, <2>7
<1> QED BY <1>1, LoggerInductive, PTL

\* No row is overwritten before an msync has found it whole in the file; those
\* that wait for one are fewer than a batch, of the minute of the last flush, and
\* none when csv_loop is over (src/async_logger.cpp:77-115).
THEOREM RowsAlwaysReachTheDisk == LoggerSpec => []RowsReachTheDisk
<1>1. LoggerIInv => RowsReachTheDisk
  <2> SUFFICES ASSUME LoggerIInv PROVE RowsReachTheDisk
    OBVIOUS
  <2> DEFINE unsynced == {rows[k] : k \in DOMAIN rows} \ synced
             risk == AtRisk(pending)
             place == [n \in unsynced |-> CHOOSE i \in risk : pending[i].n = n]
  <2>1. /\ pending \in Seq(FileLines) /\ entries_since_flush \in 0..(FLUSH_BATCH_SIZE - 1)
        /\ rows \in Seq(Numbers)
    BY Zenon DEF LoggerIInv, LoggerTypeOK, FileLines
  <2>2. /\ risk \subseteq DOMAIN pending /\ DOMAIN pending = 1..Len(pending) /\ Len(pending) \in Nat
        /\ IsFiniteSet(1..Len(pending))
    BY <2>1, LenProperties, FS_Interval DEF AtRisk
  <2>3. IsFiniteSet(risk) /\ Cardinality(risk) \in Nat
    BY <2>2, FS_Subset, FS_CardinalityType
  <2>4. /\ unsynced \subseteq Numbers /\ IsFiniteSet(unsynced) /\ Cardinality(unsynced) \in Nat
    <3>1. unsynced \subseteq Numbers
      BY <2>1
    <3>2. IsFiniteSet(Numbers)
      BY FS_Interval, LoggerAssumption DEF Numbers
    <3> QED BY <3>1, <3>2, FS_Subset, FS_CardinalityType
  <2>5. ASSUME NEW n \in unsynced PROVE \E i \in risk : pending[i].n = n
    <3>1. n # 0
      BY <2>4 DEF Numbers
    <3>2. PICK k \in DOMAIN rows : rows[k] = n /\ n \notin synced
      BY <2>5
    <3>3. PICK i \in DOMAIN pending : pending[i].n = n
      BY Zenon, <3>2 DEF LoggerIInv, Kept
    <3> QED BY Zenon, <3>1, <3>3 DEF AtRisk
  <2> HIDE DEF unsynced, risk
  <2>6. /\ place \in [unsynced -> risk]
        /\ \A n \in unsynced : pending[place[n]].n = n
    BY <2>5
  <2> HIDE DEF place
  <2>7. ~(Cardinality(risk) < Cardinality(unsynced))
    <3> SUFFICES ASSUME Cardinality(risk) < Cardinality(unsynced) PROVE FALSE
      OBVIOUS
    <3>1. PICK x \in unsynced, y \in unsynced : x # y /\ place[x] = place[y]
      BY <2>3, <2>4, <2>6, FS_PigeonHole
    <3> QED BY Zenon, <2>6, <3>1
  <2>8. Cardinality(unsynced) < FLUSH_BATCH_SIZE
    <3>1. Cardinality(risk) <= entries_since_flush
      BY DEF LoggerIInv, Recent, risk
    <3> QED BY <2>1, <2>3, <2>4, <2>7, <3>1, LoggerAssumption
  <2>9. \A n \in unsynced : \E i \in DOMAIN pending : pending[i].n = n /\ pending[i].minute = last_flush_time
    <3>1. \A i \in risk : pending[i].minute = last_flush_time
      BY Zenon DEF LoggerIInv, Recent, risk
    <3> QED BY Zenon, <2>2, <2>5, <3>1
  <2>10. csv = "exited" => unsynced = {}
    <3>1. ASSUME csv = "exited" PROVE unsynced = {}
      <4>1. pending = << >> /\ DOMAIN << >> = {}
        BY <3>1, EmptySeq DEF LoggerIInv, FlushedAtEnd
      <4> QED BY Zenon, <2>9, <4>1
    <3> QED BY <3>1
  <2> QED BY Zenon, <2>8, <2>9, <2>10 DEF RowsReachTheDisk, unsynced
<1> QED BY <1>1, LoggerInductive, PTL

\* Until it is flushed a line stays in the file as it was written, and the
\* buffer is not overrun (write_to_buffer, src/async_logger.cpp:102-108).
THEOREM PendingLinesAlwaysIntact == LoggerSpec => []PendingLinesIntact
<1>1. LoggerIInv => PendingLinesIntact
  BY DEF LoggerIInv, Placed, PendingLinesIntact
<1> QED BY <1>1, LoggerInductive, PTL
=============================================================================
