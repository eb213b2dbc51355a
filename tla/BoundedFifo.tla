----------------------------- MODULE BoundedFifo -----------------------------
(***************************************************************************)
(* What include/lock_free_queue.h promises to one producer and one         *)
(* consumer: a FIFO of at most Capacity items whose operations are atomic. *)
(***************************************************************************)
EXTENDS Integers, Sequences

CONSTANTS Producers, Consumers, Items, Capacity, NullOpt

VARIABLES
  queue,   \* the items enqueued and not yet dequeued, oldest first
  res      \* res[t]: what the last call of thread t returned
vars == <<queue, res>>

Init == queue = << >> /\ res = [t \in Producers \cup Consumers |-> FALSE]

Put(p, x) ==
  /\ Len(queue) < Capacity
  /\ queue' = Append(queue, x)
  /\ res' = [res EXCEPT ![p] = TRUE]

\* Only a full queue turns an item away.
Reject(p) ==
  /\ Len(queue) = Capacity
  /\ res' = [res EXCEPT ![p] = FALSE]
  /\ UNCHANGED queue

Take(c) ==
  /\ queue # << >>
  /\ queue' = Tail(queue)
  /\ res' = [res EXCEPT ![c] = Head(queue)]

\* Only an empty queue yields nothing.
Miss(c) ==
  /\ queue = << >>
  /\ res' = [res EXCEPT ![c] = NullOpt]
  /\ UNCHANGED queue

IsEmpty(c) ==
  /\ res' = [res EXCEPT ![c] = (queue = << >>)]
  /\ UNCHANGED queue

\* The destructor drops what was never dequeued.
Drop == queue' = << >> /\ UNCHANGED res

Next ==
  \/ \E p \in Producers : Reject(p) \/ \E x \in Items : Put(p, x)
  \/ \E c \in Consumers : Take(c) \/ Miss(c) \/ IsEmpty(c)
  \/ Drop

Spec == Init /\ [][Next]_vars
=============================================================================
