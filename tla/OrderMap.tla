------------------------------ MODULE OrderMap ------------------------------
(* What include/slab_map.h promises: a map from order ids to orders, in     *)
(* which an id that was never inserted, or was erased, is not found.        *)
CONSTANTS OrderIds, Orders, Null

VARIABLES
  order,   \* order[id]: the order id maps to, or Null
  found    \* what the last find returned
vars == <<order, found>>

Init == order = [id \in OrderIds |-> Null] /\ found = Null

Insert(id, ptr) == order' = [order EXCEPT ![id] = ptr] /\ UNCHANGED found
Erase(id)       == order' = [order EXCEPT ![id] = Null] /\ UNCHANGED found
Find(id)        == found' = order[id] /\ UNCHANGED order
Clear           == order' = [id \in OrderIds |-> Null] /\ UNCHANGED found

Next ==
  \/ \E id \in OrderIds : Erase(id) \/ Find(id) \/ \E ptr \in Orders : Insert(id, ptr)
  \/ Clear

Spec == Init /\ [][Next]_vars
=============================================================================
