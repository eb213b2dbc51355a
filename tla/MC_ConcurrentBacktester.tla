---------------------- MODULE MC_ConcurrentBacktester ----------------------
(* Two instruments for TLC: the first has the interesting files. *)
EXTENDS ConcurrentBacktester, TLC

File(m, t, named) == [messages |-> m, train_messages |-> t, file_named |-> named]

\* The session is 2 .. 5.  Gaps, repeated and decreasing seconds, messages that
\* the price filter drops, data before the session, after it, and ending in it.
MCFiles(i) ==
  IF i = 1
  THEN {File(<<1, 2, 0, 3, 3, 5, 0>>, <<2, 3, 4, 5, 5>>, TRUE),
        File(<<2, 4, 3, 4>>,          <<1, 2, 3>>,       TRUE),
        File(<<3, 4>>,                << >>,             FALSE)}
  ELSE {File(<<2, 3, 5>>,             <<2, 3, 3, 4>>,    TRUE)}
=============================================================================
