---------------------------- MODULE LockFreeQueue ----------------------------
(***************************************************************************)
(* include/lock_free_queue.h: the ring buffer between the thread that      *)
(* trades and the threads that write its logs (AsyncLogger, Connection).   *)
(*                                                                         *)
(* Every atomic load, store and compare-exchange is one step, the plain    *)
(* accesses to a node's storage are steps of their own, and steps of       *)
(* different threads interleave.  pc[t] is the next line of thread t,      *)
(* curr[t] its local curr_tail or curr_head.                               *)
(*                                                                         *)
(* The program gives every queue one producer and one consumer thread,     *)
(* SPSC; the module takes any number of both, as the code does.            *)
(***************************************************************************)
EXTENDS Integers, FiniteSets

CONSTANTS
  SIZE,        \* number of nodes of buffer_
  Producers,   \* threads that call enqueue
  Consumers,   \* threads that call dequeue and empty
  Items,       \* values of T
  NullOpt,     \* std::nullopt
  Raw          \* storage that holds no object

ASSUME QueueAssumption ==
  /\ SIZE \in Nat /\ SIZE >= 2
  /\ Producers \cap Consumers = {}
  /\ Raw \notin Items

Threads == Producers \cup Consumers
Nodes   == 0..(SIZE - 1)
SPSC    == /\ \A p, q \in Producers : p = q
           /\ \A c, d \in Consumers : c = d

\* (i + 1) % SIZE, for the index of a node
Succ(i) == IF i + 1 = SIZE THEN 0 ELSE i + 1

VARIABLES
  head, tail,   \* head_, tail_
  written,      \* written[i]: the flag of node i
  storage,      \* storage[i]: the object constructed in node i, or Raw
  pc, curr,
  item,         \* item[p]: the argument of the enqueue p is in
  res,          \* res[t]: what the last call of t returned
  alive         \* the queue has not been destroyed
shared == <<head, tail, written, storage>>
local  == <<pc, curr, item, res>>
vars   == <<shared, local, alive>>

Init ==
  /\ head = 0 /\ tail = 0
  /\ written = [i \in Nodes |-> FALSE]
  /\ storage = [i \in Nodes |-> Raw]
  /\ pc   = [t \in Threads |-> "idle"]
  /\ curr = [t \in Threads |-> 0]
  /\ item = [p \in Producers |-> CHOOSE x \in Items : TRUE]
  /\ res  = [t \in Threads |-> FALSE]
  /\ alive = TRUE

Goto(t, line) == pc' = [pc EXCEPT ![t] = line]
Return(t, value) == Goto(t, "idle") /\ res' = [res EXCEPT ![t] = value]
-----------------------------------------------------------------------------
(* enqueue(item) *)

Enqueue(p, x) ==
  /\ alive /\ pc[p] = "idle"
  /\ item' = [item EXCEPT ![p] = x]
  /\ Goto(p, "load tail")
  /\ UNCHANGED <<shared, curr, res, alive>>

LoadTail(p) ==
  /\ pc[p] = "load tail"
  /\ curr' = [curr EXCEPT ![p] = tail]
  /\ Goto(p, "full?")
  /\ UNCHANGED <<shared, item, res, alive>>

\* Mutant: one more node stays empty.
CheckFull_OneEarly(p) ==
  /\ pc[p] = "full?"
  /\ IF head \in {Succ(curr[p]), Succ(Succ(curr[p]))}
     THEN Return(p, FALSE)
     ELSE Goto(p, "free?") /\ UNCHANGED res
  /\ UNCHANGED <<shared, curr, item, alive>>

CheckFull(p) ==
  /\ pc[p] = "full?"
  /\ IF Succ(curr[p]) = head THEN Return(p, FALSE)
                             ELSE Goto(p, "free?") /\ UNCHANGED res
  /\ UNCHANGED <<shared, curr, item, alive>>

CheckFree(p) ==
  /\ pc[p] = "free?"
  /\ Goto(p, IF written[curr[p]] THEN "load tail" ELSE "claim")
  /\ UNCHANGED <<shared, curr, item, res, alive>>

ClaimTail(p) ==
  /\ pc[p] = "claim" /\ tail = curr[p]
  /\ tail' = Succ(curr[p])
  /\ Goto(p, "construct")
  /\ UNCHANGED <<head, written, storage, curr, item, res, alive>>

\* compare_exchange_weak may fail even when tail_ is the expected value.
ClaimTailFails(p) ==
  /\ pc[p] = "claim"
  /\ Goto(p, "load tail")
  /\ UNCHANGED <<shared, curr, item, res, alive>>

Construct(p) ==
  /\ pc[p] = "construct"
  /\ storage' = [storage EXCEPT ![curr[p]] = item[p]]
  /\ Goto(p, "publish")
  /\ UNCHANGED <<head, tail, written, curr, item, res, alive>>

\* Mutant: written is not set.
Publish_Unflagged(p) ==
  /\ pc[p] = "publish" /\ Return(p, TRUE)
  /\ UNCHANGED <<shared, curr, item, alive>>

Publish(p) ==
  /\ pc[p] = "publish"
  /\ written' = [written EXCEPT ![curr[p]] = TRUE]
  /\ Return(p, TRUE)
  /\ UNCHANGED <<head, tail, storage, curr, item, alive>>
-----------------------------------------------------------------------------
(* dequeue() *)

Dequeue(c) ==
  /\ alive /\ pc[c] = "idle"
  /\ Goto(c, "load head")
  /\ UNCHANGED <<shared, curr, item, res, alive>>

LoadHead(c) ==
  /\ pc[c] = "load head"
  /\ curr' = [curr EXCEPT ![c] = head]
  /\ Goto(c, "empty?")
  /\ UNCHANGED <<shared, item, res, alive>>

CheckEmpty(c) ==
  /\ pc[c] = "empty?"
  /\ IF curr[c] = tail THEN Return(c, NullOpt)
                       ELSE Goto(c, "ready?") /\ UNCHANGED res
  /\ UNCHANGED <<shared, curr, item, alive>>

\* Mutant: dequeue does not wait for the node to be written.
CheckReady_Dropped(c) ==
  /\ pc[c] = "ready?" /\ Goto(c, "advance")
  /\ UNCHANGED <<shared, curr, item, res, alive>>

\* A node that is claimed and not yet published is waited for.
CheckReady(c) ==
  /\ pc[c] = "ready?"
  /\ Goto(c, IF written[curr[c]] THEN "advance" ELSE "load head")
  /\ UNCHANGED <<shared, curr, item, res, alive>>

ClaimHead(c) ==
  /\ pc[c] = "advance" /\ head = curr[c]
  /\ head' = Succ(curr[c])
  /\ Goto(c, "extract")
  /\ UNCHANGED <<tail, written, storage, curr, item, res, alive>>

ClaimHeadFails(c) ==
  /\ pc[c] = "advance"
  /\ Goto(c, "load head")
  /\ UNCHANGED <<shared, curr, item, res, alive>>

\* The object is moved out and destroyed; what is moved is returned below.
Extract(c) ==
  /\ pc[c] = "extract"
  /\ res' = [res EXCEPT ![c] = storage[curr[c]]]
  /\ storage' = [storage EXCEPT ![curr[c]] = Raw]
  /\ Goto(c, "clear")
  /\ UNCHANGED <<head, tail, written, curr, item, alive>>

\* Mutant: written is not reset.
Clear_KeepsFlag(c) ==
  /\ pc[c] = "clear" /\ Goto(c, "idle")
  /\ UNCHANGED <<shared, curr, item, res, alive>>

Clear(c) ==
  /\ pc[c] = "clear"
  /\ written' = [written EXCEPT ![curr[c]] = FALSE]
  /\ Goto(c, "idle")
  /\ UNCHANGED <<head, tail, storage, curr, item, res, alive>>
-----------------------------------------------------------------------------
(* empty(), as the drain loops of the consumers call it *)

Empty(c) ==
  /\ alive /\ pc[c] = "idle"
  /\ curr' = [curr EXCEPT ![c] = head]
  /\ Goto(c, "compare")
  /\ UNCHANGED <<shared, item, res, alive>>

Compare(c) ==
  /\ pc[c] = "compare"
  /\ Return(c, curr[c] = tail)
  /\ UNCHANGED <<shared, curr, item, alive>>
-----------------------------------------------------------------------------
(* ~LockFreeQueue(), once no thread is in a call *)

\* The nodes from head_ up to tail_
Claimed == IF head <= tail THEN head..(tail - 1) ELSE Nodes \ (tail..(head - 1))

\* Mutant: the flags are reset before the objects are looked for.
Destroy_FlagsFirst ==
  /\ alive /\ \A t \in Threads : pc[t] = "idle"
  /\ alive' = FALSE
  /\ written' = [i \in Nodes |-> FALSE]
  /\ UNCHANGED <<head, tail, storage, local>>

\* The loop destroys the published objects from head_ to tail_ and clears
\* their flags, then ~Node() destroys those whose flag is still set.
Destroy ==
  /\ alive /\ \A t \in Threads : pc[t] = "idle"
  /\ alive' = FALSE
  /\ written' = [i \in Nodes |-> written[i] /\ i \notin Claimed]
  /\ storage' = [i \in Nodes |->
                   IF (i \in Claimed /\ written[i]) \/ written'[i] THEN Raw ELSE storage[i]]
  /\ UNCHANGED <<head, tail, local>>

Terminated == ~alive /\ UNCHANGED vars

\* A call once begun.
EnqueueStep(p) ==
  \/ LoadTail(p) \/ CheckFull(p) \/ CheckFree(p)
  \/ ClaimTail(p) \/ ClaimTailFails(p) \/ Construct(p) \/ Publish(p)
DequeueStep(c) ==
  \/ LoadHead(c) \/ CheckEmpty(c) \/ CheckReady(c)
  \/ ClaimHead(c) \/ ClaimHeadFails(c) \/ Extract(c) \/ Clear(c) \/ Compare(c)

Next ==
  \/ \E p \in Producers : EnqueueStep(p) \/ \E x \in Items : Enqueue(p, x)
  \/ \E c \in Consumers : DequeueStep(c) \/ Dequeue(c) \/ Empty(c)
  \/ Destroy
  \/ Terminated

Spec == Init /\ [][Next]_vars

\* A thread in a call keeps running and its compare-exchange does not fail
\* spuriously for ever; a consumer's loop calls dequeue again and again.
Fairness ==
  /\ \A p \in Producers : WF_vars(EnqueueStep(p)) /\ SF_vars(ClaimTail(p))
  /\ \A c \in Consumers :
       WF_vars(DequeueStep(c)) /\ SF_vars(ClaimHead(c)) /\ SF_vars(Dequeue(c))

FairSpec == Spec /\ Fairness
-----------------------------------------------------------------------------
(* Properties *)

ProducerLines == {"idle", "load tail", "full?", "free?", "claim", "construct", "publish"}
ConsumerLines == {"idle", "load head", "empty?", "ready?", "advance", "extract", "clear",
                  "compare"}

\* The state is well typed.
TypeOK ==
  /\ head \in Nodes /\ tail \in Nodes
  /\ written \in [Nodes -> BOOLEAN]
  /\ storage \in [Nodes -> Items \cup {Raw}]
  /\ pc \in [Threads -> ProducerLines \cup ConsumerLines]
  /\ \A p \in Producers : pc[p] \in ProducerLines
  /\ \A c \in Consumers : pc[c] \in ConsumerLines
  /\ curr \in [Threads -> Nodes]
  /\ item \in [Producers -> Items]
  /\ res \in [Threads -> Items \cup {Raw, NullOpt} \cup BOOLEAN]
  /\ alive \in BOOLEAN

\* The node whose storage thread t is about to access.
Accesses(t, i) == pc[t] \in {"construct", "extract"} /\ curr[t] = i

\* No two threads ever access the storage of one node at once, and an object
\* is constructed only in free storage and moved out only where one exists:
\* no lost object, no object read before it is complete or after it is gone.
SlotsExclusive ==
  \A t \in Threads, i \in Nodes :
    Accesses(t, i) =>
      /\ \A u \in Threads : Accesses(u, i) => u = t
      /\ storage[i] = Raw <=> pc[t] = "construct"

\* tail_ never catches up with head_: a queue that is being filled does not
\* turn into an empty one (claims test head_ and tail_ at different times).
TailNeverMeetsHead == [][tail' # tail => tail' # head]_vars

\* The destructor leaves no object behind in a node, whichever operations ran
\* before, although it decides by the flags and the two indices alone.
NothingLeftBehind == ~alive => \A i \in Nodes : storage[i] = Raw

\* Every item that was published is taken out again while the queue lives.
PublishedIsConsumed ==
  \A i \in Nodes : written[i] ~> (~written[i] \/ ~alive)

\* No call spins for ever: an enqueue returns, even when the queue is full and
\* no consumer moves, and a dequeue returns.
CallsReturn == \A t \in Threads : pc[t] # "idle" ~> pc[t] = "idle"
=============================================================================
