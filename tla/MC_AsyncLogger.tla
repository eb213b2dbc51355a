--------------------------- MODULE MC_AsyncLogger ---------------------------
(* Small instances of AsyncLogger for TLC. *)
EXTENDS AsyncLogger
=============================================================================
