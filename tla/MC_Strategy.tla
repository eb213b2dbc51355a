----------------------------- MODULE MC_Strategy -----------------------------
(* A small instance of Strategy for TLC. *)
EXTENDS Strategy

\* POINT_VALUE_ of an ImbalanceStrat may be negative.
AnyPointValue == {-3, 1}
=============================================================================
