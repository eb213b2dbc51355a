-------------------------- MODULE MC_ConnectionPool --------------------------
(* Small instances of ConnectionPool for TLC. *)
EXTENDS ConnectionPool
=============================================================================
