----------------------- MODULE LockFreeQueueRefinement -----------------------
(***************************************************************************)
(* With one producer and one consumer the ring buffer implements the       *)
(* bounded FIFO.  An enqueue and a dequeue take effect when their          *)
(* compare-exchange succeeds.                                              *)
(***************************************************************************)
EXTENDS LockFreeQueue, Sequences

Count == IF head <= tail THEN tail - head ELSE SIZE - (head - tail)

\* The node of the k-th item, (head + k - 1) % SIZE
Place(k) == IF head + k - 1 < SIZE THEN head + k - 1 ELSE head + k - 1 - SIZE

Claimant(i) == {p \in Producers : pc[p] \in {"construct", "publish"} /\ curr[p] = i}

\* The items in the nodes, and the one being put in a node.
Content ==
  [i \in Nodes |-> IF Claimant(i) # {} THEN item[CHOOSE p \in Claimant(i) : TRUE] ELSE storage[i]]

FifoQueue == IF alive THEN [k \in 1..Count |-> Content[Place(k)]] ELSE << >>

\* What a call that took effect will return.
FifoResult ==
  [t \in Threads |->
     IF pc[t] \in {"construct", "publish"} THEN TRUE
     ELSE IF pc[t] = "extract" THEN storage[curr[t]] ELSE res[t]]

Fifo == INSTANCE BoundedFifo WITH
  Capacity <- SIZE - 1, queue <- FifoQueue, res <- FifoResult

\* No interleaving of the producer's and the consumer's steps loses, repeats
\* or reorders an item; an item is refused only when SIZE - 1 are waiting, and
\* dequeue and empty() report an empty queue only when it is empty.
ImplementsFifo == Fifo!Spec
=============================================================================
