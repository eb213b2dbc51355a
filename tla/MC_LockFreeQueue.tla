-------------------------- MODULE MC_LockFreeQueue --------------------------
(* Small instances of LockFreeQueue and its refinement for TLC. *)
EXTENDS LockFreeQueueRefinement
=============================================================================
