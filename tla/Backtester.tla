----------------------------- MODULE Backtester -----------------------------
(***************************************************************************)
(* One instrument's replay: src/backtester.cpp.  A Backtester is a record  *)
(* with the members that matter to its control; a method, or the part of   *)
(* one that runs between two looks at running_, is an operator from a      *)
(* record to the records it may become.                                    *)
(*                                                                         *)
(* A message is the second it carries, or Filtered: outside the price      *)
(* filter of process_msg, which then returns before it would set the       *)
(* book's clock.  The lines that set the clock (orderbook.h:113-116) are   *)
(* commented out: clock_runs is FALSE for the code as it stands, TRUE with *)
(* these lines in effect, as when the recorded output of                   *)
(* linear_model_strat.cpp was made.                                        *)
(*                                                                         *)
(* Of the strategy there is its position and whether it may trade; module  *)
(* Strategy has the rest.                                                  *)
(***************************************************************************)
EXTENDS Integers, Sequences, SequencesExt

CONSTANTS
  Start, End,        \* the trading times, 09:30 and 16:00, in seconds
  FORECAST_WINDOW,   \* 60
  MAX_LAG,           \* 5
  max_pos            \* 1

ASSUME BacktesterAssumption ==
  /\ Start \in Nat /\ End \in Nat /\ 0 < Start /\ Start < End
  /\ FORECAST_WINDOW \in Nat /\ MAX_LAG \in Nat /\ max_pos \in Nat \ {0}

Filtered == 0
Unset    == 0      \* a trading time that is still the empty string: before all others
-----------------------------------------------------------------------------
\* The constructor.  file_named: the names of the data files are long enough to
\* have a date in them.  The last three fields are ghosts: the messages the book
\* was given, how many before this run, and at which of them the strategy was called.
New(messages, train_messages, file_named, clock_runs) ==
  [messages |-> messages, train_messages |-> train_messages,
   file_named |-> file_named, clock_runs |-> clock_runs,
   running |-> FALSE, index |-> 0, prev_seconds |-> 0, late |-> 0,
   start_time |-> Unset, end_time |-> Unset,
   clock |-> 0, train_clock |-> 0, train_index |-> 0, train_voi |-> 0,
   voi_history |-> 0, voi_history_curr |-> 0,
   strategy |-> "none", fitted |-> FALSE, position |-> 0,
   given |-> << >>, before |-> 0, updates |-> {}]

\* The old strategy goes first, whatever then becomes of the new one.
WithoutStrategy(b) == [b EXCEPT !.strategy = "none", !.fitted = FALSE, !.position = 0]
create_strategy(b, kind) == [WithoutStrategy(b) EXCEPT !.strategy = kind]

\* Train and backtest times alike.
set_trading_times(b) ==
  IF b.file_named THEN [b EXCEPT !.start_time = Start, !.end_time = End] ELSE b

\* get_formatted_time_fast after process_msg.
Clock(b, clock, m) == IF b.clock_runs /\ m # Filtered THEN m ELSE clock

\* The part both loops share: the first second in the window arms prev_seconds,
\* an update is due when it is at least one second old.
Armed(b, clock, prev) == IF clock >= b.start_time /\ prev = 0 THEN clock ELSE prev

\* Mutant: every message within the window is a sample.
Due_Always(b, clock, prev) == clock >= b.start_time

Due(b, clock, prev) == clock >= b.start_time /\ clock - Armed(b, clock, prev) >= 1

(* train_model *)

EnterTraining(b) == [b EXCEPT !.train_index = 0, !.prev_seconds = 0]

TrainingOver(b) ==
  b.train_index = Len(b.train_messages) \/ (b.train_index > 0 /\ b.train_clock >= b.end_time)

\* One message: a sample when it is due.
TrainOn(b) ==
  LET clock == Clock(b, b.train_clock, b.train_messages[b.train_index + 1])
      due   == Due(b, clock, b.prev_seconds)
  IN  [b EXCEPT !.train_clock  = clock,
                !.train_index  = @ + 1,
                !.prev_seconds = IF due THEN clock ELSE Armed(b, clock, @),
                !.train_voi    = IF due THEN @ + 1 ELSE @]

\* The samples move to the book that is traded on.
Moved(b) == [b EXCEPT !.voi_history = b.train_voi, !.train_voi = 0]

\* Rows of the regression.  With fewer than none Eigen is handed a negative
\* dimension: anything may come of it.
Rows(b) == b.voi_history - FORECAST_WINDOW - MAX_LAG

fit_model(b) ==
  IF Rows(b) < 0 THEN {[b EXCEPT !.fitted = f] : f \in BOOLEAN}
  ELSE {[b EXCEPT !.fitted = Rows(b) > 0]}
-----------------------------------------------------------------------------
(* run_backtest *)

Enter(b) == [b EXCEPT !.running = TRUE, !.prev_seconds = 0, !.late = 0,
                      !.before = Len(b.given), !.updates = {}]

\* Mutant: running_ is tested once, before the loop.
Continues_Anyway(b) == b.index < Len(b.messages)

Continues(b) == b.running /\ b.index < Len(b.messages)

\* What a call of on_book_update may do to the position.
on_book_update(b) ==
  LET n      == IF b.strategy = "linear" THEN b.voi_history_curr + 1 ELSE b.voi_history_curr
      trades == b.strategy = "linear" => b.fitted /\ n >= MAX_LAG + 1
      moves  == IF trades THEN {-1, 0, 1} ELSE {0}
  IN  {[b EXCEPT !.voi_history_curr = n, !.position = p, !.updates = @ \cup {Len(b.given)}] :
         p \in {b.position + d : d \in moves} \cap (-max_pos .. max_pos)}

\* process_msg and the clock; late counts the messages after a stop.
Fed(b) ==
  LET m == b.messages[b.index + 1] IN
  [b EXCEPT !.clock = Clock(b, @, m), !.given = Append(@, b.index + 1),
            !.late = IF b.running THEN @ ELSE @ + 1]

Updated(b) ==
  LET armed == [b EXCEPT !.prev_seconds = Armed(b, b.clock, @)] IN
  IF Due(b, b.clock, b.prev_seconds)
  THEN {[u EXCEPT !.prev_seconds = b.clock] : u \in on_book_update(armed)}
  ELSE {armed}

SessionOver(b) == b.clock >= b.end_time

\* Mutant: the position is left open.
Closed_Open(b) == b

\* close_positions
Closed(b) == [b EXCEPT !.position = 0]

\* Mutant: the index is incremented in the body and by the loop.
Advanced_Twice(b) == [b EXCEPT !.index = @ + 2]

Advanced(b) == [b EXCEPT !.index = @ + 1]

\* The body of the loop.  The message that ends the session is not counted: it
\* is the first one of the next run.
Body(b) == {IF SessionOver(u) THEN Closed(u) ELSE Advanced(u) : u \in Updated(Fed(b))}

stop_backtest(b) == [b EXCEPT !.running = FALSE]
-----------------------------------------------------------------------------
(* What a run should be, from the messages alone. *)

\* The clock after the first k of some messages.
TimeAt(b, msgs, k) ==
  LET timed == {j \in 1..k : msgs[j] # Filtered} IN
  IF timed = {} \/ ~b.clock_runs THEN 0 ELSE msgs[Max(timed)]

\* Among places from + 1 .. to: the seconds in the window that are later than
\* all before them, but for the first one.
NewSeconds(b, msgs, from, to) ==
  LET T(k)   == TimeAt(b, msgs, k)
      Inside == {k \in (from + 1)..to : T(k) >= b.start_time}
  IN  {k \in Inside : /\ \E j \in Inside : j < k
                      /\ \A j \in Inside : j < k => T(j) < T(k)}

Given(b)   == [k \in DOMAIN b.given |-> b.messages[b.given[k]]]
InRun(b)   == (b.before + 1)..Len(b.given)
Ends(b, k) == TimeAt(b, Given(b), k) >= b.end_time
=============================================================================
