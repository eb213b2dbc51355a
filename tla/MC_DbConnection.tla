--------------------------- MODULE MC_DbConnection ---------------------------
(* Small instances of DbConnection for TLC. *)
EXTENDS DbConnection
=============================================================================
