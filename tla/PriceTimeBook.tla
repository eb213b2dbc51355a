--------------------------- MODULE PriceTimeBook ---------------------------
(***************************************************************************)
(* What the order book promises, with no memory in sight: per side and     *)
(* price a queue of orders in time priority, from which the best prices    *)
(* and the resting volumes follow.  An order whose id is added again stays *)
(* where it is and is lost: no message reaches it any more.                *)
(***************************************************************************)
EXTENDS Integers, Sequences, SequencesExt

CONSTANTS Ids, Prices, Sizes,
          Replays   \* may a resting id be added again?

VARIABLE queue   \* queue[side][price]: the resting orders, oldest first

\* Places of the order that a message with this id is about.
Known(orders, id) == {k \in DOMAIN orders : orders[k].id = id /\ ~orders[k].lost}
Resting(q, side, px, id) == Known(q[side][px], id) # {}

\* What a reader should see: 0 when the side is empty.
BestPrice(q, side) ==
  LET quoted == {px \in Prices : q[side][px] # << >>} IN
  IF quoted = {} THEN 0 ELSE IF side THEN Max(quoted) ELSE Min(quoted)

Volume(orders) == SumFunction([k \in DOMAIN orders |-> orders[k].size])

Enqueued(q, s, px, id, sz) ==
  [q EXCEPT ![s][px] = Append(@, [id |-> id, size |-> sz, lost |-> FALSE])]
Without(q, s, px, k) == [q EXCEPT ![s][px] = RemoveAt(@, k)]
Forgotten(q, id) ==
  [s \in BOOLEAN |-> [px \in Prices |->
     [k \in DOMAIN q[s][px] |-> [q[s][px][k] EXCEPT !.lost = @ \/ q[s][px][k].id = id]]]]

Init == queue = [s \in BOOLEAN |-> [px \in Prices |-> << >>]]

(* Actions, from the queues q to the queues r. *)

IsLast(orders, id, sz) ==
  orders # << >> /\ Last(orders) = [id |-> id, size |-> sz, lost |-> FALSE]

\* A new order goes to the back of its price.
Add(q, r, s, px, id, sz) ==
  /\ IsLast(r[s][px], id, sz)
  /\ Replays \/ \A t \in BOOLEAN, p \in Prices : ~Resting(q, t, p, id)
  /\ r = Enqueued(Forgotten(q, id), s, px, id, sz)

\* An order that moves or grows loses its place.
Replace(q, r, s, px, id, new, sz) ==
  /\ IsLast(r[s][new], id, sz)
  /\ \E k \in Known(q[s][px], id) :
       /\ px # new \/ q[s][px][k].size < sz
       /\ r = Enqueued(Without(q, s, px, k), s, new, id, sz)

\* An order that shrinks keeps it.
Reduce(q, r, s, px, id, sz) ==
  \E k \in Known(q[s][px], id) :
    /\ sz < q[s][px][k].size
    /\ r = [q EXCEPT ![s][px][k].size = sz]

Cancel(q, r, s, px, id) ==
  \E k \in Known(q[s][px], id) : r = Without(q, s, px, k)

Changes(q, r) ==
  \E s \in BOOLEAN, px \in Prices, id \in Ids :
    \/ Cancel(q, r, s, px, id)
    \/ \E sz \in Sizes :
         \/ Add(q, r, s, px, id, sz)
         \/ Reduce(q, r, s, px, id, sz)
         \/ \E new \in Prices : Replace(q, r, s, px, id, new, sz)

Next == LET q == queue
            r == queue' IN q # r /\ Changes(q, r)

Spec == Init /\ [][Next]_queue
=============================================================================
