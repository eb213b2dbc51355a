------------------------ MODULE ConcurrentBacktester ------------------------
(***************************************************************************)
(* src/concurrent_backtest.cpp over src/backtester.cpp: one std::async     *)
(* task per instrument, which builds a strategy with a connection of the   *)
(* shared pool, trains it, and replays the messages; the thread that       *)
(* started them and waits; and another thread that may stop them.          *)
(*                                                                         *)
(* A task and the stopping thread meet only in running_ of a Backtester    *)
(* and tasks meet only in the pool, so what a task does between two        *)
(* accesses to these is one step.  running_ and completed_count_ of the    *)
(* ConcurrentBacktester itself are written and never read.                 *)
(***************************************************************************)
EXTENDS Backtester, FiniteSets

CONSTANTS
  Instruments,    \* numbers, in the order of the map
  Files(_),       \* what may be added for an instrument: [messages, train_messages, file_named]
  Clocks,         \* may the book's clock run?
  Connections,    \* connections the pool was constructed with
  Kinds,          \* the strategies of the menu: "imbalance", "linear"
  MaxStarts,      \* bound: calls of start_backtest
  MaxStops        \* bound: calls of stop_backtest by another thread

ASSUME ConcurrentAssumption ==
  /\ Instruments \subseteq Nat /\ IsFiniteSet(Instruments)
  /\ \A i \in Instruments :
       Files(i) \subseteq [messages : Seq(Nat), train_messages : Seq(Nat), file_named : BOOLEAN]
  /\ Clocks \subseteq BOOLEAN /\ Kinds \subseteq {"imbalance", "linear"} /\ Kinds # {}
  /\ Connections \in Nat /\ MaxStarts \in Nat /\ MaxStops \in Nat

VARIABLES
  bt,         \* the Backtester of each instrument that was added
  pc,         \* where the task of an instrument is
  main,       \* the thread that owns the ConcurrentBacktester
  kind,       \* the strategy_index of the last start
  free,       \* connections left in the pool: no strategy gives its own back
  starts,     \* calls of start_backtest
  stopping,   \* instruments a stop_backtest in progress has not reached yet
  stops       \* calls of stop_backtest
vars == <<bt, pc, main, kind, free, starts, stopping, stops>>

Added == DOMAIN bt

Init ==
  /\ bt = << >> /\ pc = [i \in Instruments |-> "none"]
  /\ main = "setup" /\ kind = CHOOSE k \in Kinds : TRUE
  /\ free = Connections /\ starts = 0
  /\ stopping = {} /\ stops = 0

\* Once per instrument, as main.cpp does, in the order of its map.
add_instrument(i, f, clock_runs) ==
  /\ main = "setup" /\ \A j \in Added : j < i
  /\ bt' = [j \in Added \cup {i} |->
              IF j = i THEN New(f.messages, f.train_messages, f.file_named, clock_runs)
              ELSE bt[j]]
  /\ UNCHANGED <<pc, main, kind, free, starts, stopping, stops>>

start_backtest(k) ==
  /\ main \in {"setup", "idle"} /\ starts < MaxStarts
  /\ main' = "waiting" /\ starts' = starts + 1 /\ kind' = k
  /\ pc' = [i \in Instruments |-> IF i \in Added THEN "create" ELSE "none"]
  /\ UNCHANGED <<bt, free, stopping, stops>>

\* Every future is ready: its function has returned, or its exception was caught.
AllWaited ==
  /\ main = "waiting"
  /\ \A i \in Added : pc[i] \in {"done", "failed"}
  /\ main' = "idle"
  /\ UNCHANGED <<bt, pc, kind, free, starts, stopping, stops>>
-----------------------------------------------------------------------------
(* A task *)

At(i, here, there, b) ==
  /\ main = "waiting" /\ pc[i] = here
  /\ pc' = [pc EXCEPT ![i] = there]
  /\ bt' = [bt EXCEPT ![i] = b]
  /\ UNCHANGED <<main, kind, starts, stopping, stops>>

\* The strategy's constructor takes a connection; then its logger may fail to
\* open or map its file, and the connection is gone all the same.
Create(i) ==
  /\ free > 0 /\ free' = free - 1
  /\ \/ At(i, "create", "prepare", create_strategy(bt[i], kind))
     \/ At(i, "create", "failed", WithoutStrategy(bt[i]))

\* An empty pool tries to grow and locks pool_mutex_ a second time (module
\* ConnectionPool), for good, and with it every task that comes after.
CreateStuck(i) ==
  /\ free = 0 /\ UNCHANGED free
  /\ At(i, "create", "stuck", WithoutStrategy(bt[i]))

Prepare(i) ==
  /\ UNCHANGED free
  /\ LET b == set_trading_times(bt[i]) IN
     IF kind = "linear" THEN At(i, "prepare", "train", EnterTraining(b))
                        ELSE At(i, "prepare", "start", b)

TrainMessage(i) ==
  /\ UNCHANGED free
  /\ ~TrainingOver(bt[i])
  /\ At(i, "train", "train", TrainOn(bt[i]))

FitModel(i) ==
  /\ UNCHANGED free
  /\ TrainingOver(bt[i])
  /\ LET b == Moved(bt[i]) IN
     \/ \E f \in fit_model(b) : At(i, "train", "start", f)
     \/ Rows(b) < 0 /\ At(i, "train", "failed", b)

\* What Eigen makes of a negative dimension may also be the end of the process.
Crash(i) ==
  /\ main = "waiting" /\ pc[i] = "train"
  /\ TrainingOver(bt[i]) /\ Rows(Moved(bt[i])) < 0
  /\ main' = "crashed"
  /\ UNCHANGED <<bt, pc, kind, free, starts, stopping, stops>>

\* Backtester::start_backtest tests running_, then sets it: a stop that comes
\* before is lost.
TestRunning(i) == UNCHANGED free /\ At(i, "start", IF bt[i].running THEN "done" ELSE "enter", bt[i])
SetRunning(i)  == UNCHANGED free /\ At(i, "enter", "while", Enter(bt[i]))

\* Mutant: the loop waits for messages that have all been replayed.
While_Waits(i) ==
  UNCHANGED free /\ At(i, "while", IF Continues(bt[i]) THEN "body"
                                   ELSE IF bt[i].running THEN "while" ELSE "exit", bt[i])

While(i) == UNCHANGED free /\ At(i, "while", IF Continues(bt[i]) THEN "body" ELSE "exit", bt[i])

ReplayMessage(i) ==
  /\ UNCHANGED free
  /\ pc[i] = "body"
  /\ \E b \in Body(bt[i]) : At(i, "body", IF SessionOver(b) THEN "exit" ELSE "while", b)

Exit(i) == UNCHANGED free /\ At(i, "exit", "done", stop_backtest(bt[i]))

TaskStep(i) ==
  \/ Create(i) \/ CreateStuck(i) \/ Prepare(i)
  \/ TrainMessage(i) \/ FitModel(i) \/ Crash(i)
  \/ TestRunning(i) \/ SetRunning(i) \/ While(i) \/ ReplayMessage(i) \/ Exit(i)
-----------------------------------------------------------------------------
(* stop_backtest goes over the instruments one by one; their std::thread is *)
(* never started, so there is nothing to join.                              *)

StopBacktest ==
  /\ main \notin {"setup", "destroying", "destroyed", "crashed"}
  /\ stopping = {} /\ stops < MaxStops
  /\ stopping' = Added /\ stops' = stops + 1
  /\ UNCHANGED <<bt, pc, main, kind, free, starts>>

StopOne ==
  /\ main # "crashed" /\ stopping # {}
  /\ bt' = [bt EXCEPT ![Min(stopping)] = stop_backtest(@)]
  /\ stopping' = stopping \ {Min(stopping)}
  /\ UNCHANGED <<pc, main, kind, free, starts, stops>>

\* ~ConcurrentBacktester
Destroy ==
  /\ main = "idle" /\ stopping = {}
  /\ main' = "destroying" /\ stopping' = Added
  /\ UNCHANGED <<bt, pc, kind, free, starts, stops>>

Destroyed ==
  /\ main = "destroying" /\ stopping = {}
  /\ main' = "destroyed"
  /\ UNCHANGED <<bt, pc, kind, free, starts, stopping, stops>>

Hangs == \E i \in Instruments : pc[i] = "stuck"

\* The process is over, or waits for a task that waits for itself.
Terminated ==
  /\ \/ main \in {"destroyed", "crashed"}
     \/ main = "waiting" /\ stopping = {} /\ Hangs
  /\ UNCHANGED vars

Next ==
  \/ \E i \in Instruments, clock_runs \in Clocks :
       \E f \in Files(i) : add_instrument(i, f, clock_runs)
  \/ \E k \in Kinds : start_backtest(k)
  \/ AllWaited
  \/ \E i \in Added : TaskStep(i)
  \/ StopBacktest \/ StopOne \/ Destroy \/ Destroyed \/ Terminated

\* Threads run, and so does a destructor.
Fairness ==
  /\ \A i \in Instruments : WF_vars(i \in Added /\ TaskStep(i))
  /\ WF_vars(AllWaited) /\ WF_vars(StopOne) /\ WF_vars(Destroyed)

Spec == Init /\ [][Next]_vars /\ Fairness
-----------------------------------------------------------------------------
(* Properties *)

InLoop(i) == pc[i] \in {"while", "body", "exit"}

\* Types, and what a task may rely on: while it runs it has a strategy, the one
\* of the last start, with a connection taken for each strategy ever made.
TypeOK ==
  /\ Added \subseteq Instruments
  /\ main \in {"setup", "waiting", "idle", "destroying", "destroyed", "crashed"}
  /\ free \in 0..Connections /\ stopping \subseteq Added
  /\ \A i \in Added :
       /\ bt[i].index \in 0..Len(bt[i].messages)
       /\ bt[i].position \in -max_pos..max_pos
       /\ InLoop(i) => bt[i].strategy = kind

\* A strategy is called at the first message of each new second within the window
\* but the first, at most once a second whatever order and gaps the times have,
\* in a run that may begin anywhere and follow another; and the training of a
\* first run has collected exactly as many samples of its own window.
PacedBySeconds ==
  \A i \in Added :
    LET b       == bt[i]
        n       == Len(b.train_messages)
        over    == {k \in 1..n : TimeAt(b, b.train_messages, k) >= b.end_time}
        trained == NewSeconds(b, b.train_messages, 0, IF over = {} THEN n ELSE Min(over))
    IN  /\ InLoop(i) => b.updates = NewSeconds(b, Given(b), b.before, Len(b.given))
        /\ InLoop(i) /\ kind = "linear" /\ starts = 1 => b.voi_history = Cardinality(trained)

\* There is a position only between an update of this run and the end of the
\* session: no run begins or outlives the end of its session with one.
FlatOutsideSession ==
  \A i \in Added :
    bt[i].position # 0 => /\ bt[i].updates # {}
                          /\ \A k \in InRun(bt[i]) : ~Ends(bt[i], k)

\* The book is given every message once and in order over all runs, but for the
\* one that ends a session: it comes again at the beginning of the next run.  A
\* run nobody stopped ends with the session or with the messages.
NoMessageSkipped ==
  TypeOK /\
  \A i \in Added :
    LET b == bt[i]
        g == b.given IN
    /\ \A k \in DOMAIN g : IF k = 1 THEN g[k] = 1
                           ELSE g[k] = g[k - 1] + IF Ends(b, k - 1) THEN 0 ELSE 1
    /\ pc[i] = "done" /\ stops = 0 /\ main = "waiting" =>
         b.index = Len(b.messages) \/ Ends(b, Len(g))

\* A stop that finds a replay running lets it take at most one more message.
StopIsPrompt == \A i \in Added : bt[i].late <= 1

\* start_backtest returns, unless a task hangs on the pool; and none does as long
\* as the pool had a connection for every strategy ever started.
StartReturns ==
  /\ main = "waiting" ~> main # "waiting" \/ Hangs
  /\ [](Hangs => Cardinality(Added) * starts > Connections)

\* A run that nobody stopped, over messages of two seconds of the session, has
\* had the strategy look at the book.
SessionReachesStrategy ==
  \A i \in Added :
    LET b     == bt[i]
        hours == {b.messages[k] : k \in DOMAIN b.messages} \cap Start..(End - 1) IN
    pc[i] = "done" /\ starts = 1 /\ stops = 0 /\ b.file_named /\ Cardinality(hours) > 1
      => b.updates # {}
=============================================================================
