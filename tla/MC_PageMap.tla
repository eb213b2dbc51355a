------------------------------ MODULE MC_PageMap ------------------------------
(* Small instances of PageMap for TLC. *)
EXTENDS PageMap
=============================================================================
