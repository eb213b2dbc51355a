--------------------------- MODULE MC_BookSignals ---------------------------
(* A small instance of the signals for TLC, with the views of MC_Orderbook. *)
EXTENDS BookSignals, MC_Orderbook

\* Of the signals only prev_best_* is read again before it is assigned.
SignalView == <<View, sig.prev, seen>>
=============================================================================
