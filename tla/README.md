# Verification of hft-backtester

TLA+ models of the backtester in `src/`, TLC runs that check them on small
instances, and TLAPS proofs of what matters most for every instance. Each
definition that models code is tied to its lines in `PROJECT.json` ("map");
names follow the source.

Run everything from this directory:

    tlc -workers 2 -config MC_Orderbook.cfg MC_Orderbook     # any MC_*.cfg
    tlapm OrderbookProofs.tla                                # about 8 minutes each:
    tlapm OrderbookRefinementProofs.tla
    tlapm LoggingProofs.tla                                  # a few minutes each:
    tlapm PageMapProofs.tla
    tlapm DatabaseProofs.tla
    tlapm ConcurrentBacktesterProofs.tla
    tlapm StrategyProofs.tla
    tlapm BenchmarkProofs.tla

## 1. The system

The program replays recorded order messages of one or two futures through a
limit order book, lets a strategy trade on the book's signals, and logs each
trade to the console, to a CSV file and to a time-series database.

    main.cpp -> ConcurrentBacktester -> one std::async task per instrument:
                  Backtester: process_msg(m) on Orderbook, then, once a second,
                  Strategy::on_book_update -> execute_trade -> AsyncLogger::log
    AsyncLogger:  console queue -> console thread
                  CSV queue     -> CSV thread -> memory-mapped file
                  Connection::send_trade_log -> queue -> its thread -> socket
    ConnectionPool: shared by all strategies; each takes a Connection when it
                  is constructed and keeps it

### Inventory

| component (source) | state | operations | how it interacts |
|---|---|---|---|
| Order book (`include/book/*.h`, `message.h`) | two arrays of level pointers, best index per side, id table, free lists of orders and levels, signal accumulators | `process_msg` (add, modify, cancel), quote accessors, signals | driven by Backtester and MarketDataIngestor; read by Strategy through a raw pointer |
| Order table (`slab_map.h`) | vector of pages, base id, spare pages | insert, erase, find, clear | member of the book |
| Lock-free queue (`lock_free_queue.h`) | ring of nodes with `written` flags, `head_`, `tail_` | enqueue, dequeue, empty, destructor | three per strategy: console, CSV, database |
| Connection pool (`connection_pool.*`) | available connections, sizes, `shutdown_`, `log_buffer_`, two mutexes, a condition variable | acquire, release, send, batch, destructor | called by Strategy constructors |
| Database connection (`db_connection.*`) | queue of lines, socket, flags | send_trade_log, sending thread, connect, reconnect, destructor | fed by AsyncLogger |
| Asynchronous logger (`async_logger.*`) | two queues, two threads, mapped file, flush counters | log, console loop, CSV loop, destructor | called by Strategy; calls Connection |
| Strategies (`strategy.h`, `strategies/*.cpp`) | position, totals, fees, profit, trade queue, coefficients | on_book_update, close_positions, fit_model, reset | called by Backtester; read the book, call the logger |
| Backtester (`backtester.*`) | two books, message indices, `running_`, trading times | create_strategy, train_model, start, stop, reset | one per instrument |
| Concurrent backtester (`concurrent_backtest.*`) | instruments, futures, the static pool | add_instrument, start, stop | called by main |
| Market data ingestor (`market_data_ingestor.*`) | a book, a thread, `running_`, `completed_`, counters | start, stop, is_completed | called by benchmark/main.cpp |
| Parser (`parser.cpp`) | mapped file, place in it, messages read | parse | called by both entry points; its messages are moved to their user |
| Entry points (`main.cpp`, `benchmark/main.cpp`) | - | dialogue, calls | own everything above |
| Build files, `ring.h` | - | - | - |

### What is hard, and what makes each part correct

* **Order book.** Raw pointers, intrusive lists threaded through the same
  `next_` as the free list, recycled nodes of which only some fields are
  assigned, a best index kept incrementally. Correct when lists, slots, table
  and pools always agree, the best index is the top of the book, the volumes
  are exact, nothing leaks, and orders keep price-time priority.
* **Order table.** Grows at both ends while pointers into it are in use, with
  lazily made pages. Correct when it is a map.
* **Queue.** No locks; the index is moved before the item is. Correct when no
  two threads touch one node, and it is a bounded FIFO whose calls return.
* **Pool.** A lock taken twice on one path, notifications. Correct when a
  connection has one user, none is lost, and nobody who waits is passed over;
  a pool that may grow is not (`GrowingNeverEnds`).
* **Connection.** Everything outside may fail. Correct when lines arrive at
  most once and in order, a failure costs no more than it must, sockets do not
  leak, and destruction ends.
* **Logger.** Three outputs, three threads, a buffer that is the file. Correct
  when outputs agree, pending rows are intact and no row is overwritten before it
  was synced.
* **Strategies.** 32 bit totals, a log row written before the profit is
  updated. Correct when profit, position and log agree with the trades.
* **Signals.** They compare now with the last sample, and index vectors with a
  best index that may be one past the end. Correct when they are functions of
  the resting orders at the two moments.
* **Backtester.** Two loops paced by a clock that the messages move, a session
  that one message ends, a flag that three parties write. Correct when a
  strategy is called at most once a second and only in its window, no position
  outlives the session, no message is skipped, and a stop is heeded.
* **Ingestor.** Two flags and a count shared without a lock. Correct when
  completion means that thread, book and count are final, a second thread is
  never started, and waiting ends.
* **Parser.** Searches that do not know where the line ends. Correct when a
  well formed line gives its own message whatever the others hold.

`PROJECT.json` lists each hazard at its line with the properties that cover it.

## 2. Modules

| module | models | abstract specification |
|---|---|---|
| `Orderbook` | `orderbook.h` (all of `process_msg`), `limit.h`, `limit_pool.h`, `order_pool.h` | `PriceTimeBook`, via `OrderbookRefinement` |
| `PageMap` | `slab_map.h` | `OrderMap` |
| `LockFreeQueue` | `lock_free_queue.h` | `BoundedFifo`, via `LockFreeQueueRefinement` |
| `ConnectionPool` | `connection_pool.*` | - |
| `DbConnection` | `db_connection.*` | uses the queue as the FIFO it was shown to be |
| `AsyncLogger` | `async_logger.*` | likewise |
| `Strategy` | `strategy.h`, both strategies | - |
| `BookSignals` | the signals of `orderbook.h`, on top of `Orderbook` | counts over the resting orders |
| `Backtester` | `backtester.cpp`: operators on one instrument's record | - |
| `ConcurrentBacktester` | `concurrent_backtest.cpp`: composes Backtesters, their tasks, the pool's connections and a stopping thread | - |
| `Parser` | `parser.cpp` | - |
| `MarketDataIngestor` | `market_data_ingestor.cpp` | - |
| `Benchmark` | `benchmark/main.cpp`: composes `Parser` and `MarketDataIngestor` | - |
| `OrderbookProofs`, `PageMapProofs`, `StrategyProofs`, `ConcurrentBacktesterProofs`, `BenchmarkProofs` | theorems about the module of the same name (`BenchmarkProofs`: also about `Parser` and `MarketDataIngestor`) | - |
| `OrderbookRefinementProofs` | theorems about `OrderbookRefinement` and `BookSignals`, on top of `OrderbookProofs` | - |
| `DatabaseProofs` | theorems about `ConnectionPool` and `DbConnection` | - |
| `LoggingProofs` | theorems about `LockFreeQueue`, its refinement and `AsyncLogger` | - |
| `MC_*` | instances for TLC | - |

Operators named `X_Something`, with a comment "Mutant", stand before the
definition `X` they vary. They are plausible bugs in `X`, listed in
`PROJECT.json` with the property that each one breaks; no specification uses
them.

### Orderbook

The book is one record, a structure of arrays with one field per member of
`Orderbook`, `Order`, `Limit` and the two pools; `nullptr` is `Nil`. A C++
method is an operator from a book to a book; a call of `process_msg` is one
step, since a book has one thread. The id table is a function here, which
`PageMap` justifies: `ImplementsOrderMap` shows that what `insert`, `erase` and
`find` do is what a map does. Time stamps and `sum1_`, `sum2_` are not
represented. `MemorySafe`, `BestIsTopOfBook` and `NothingLeaks` are about the
pointers; `ReadersSeeTheQueues` is about what a caller can read: the volume of
each level and the quotes, against the orders that rest.

The environment is `FeedContract`: an add does not reuse the id of a resting
order (unless `DupAdds`), and a modify or cancel names the side of its order.
The code checks neither; a cancel with the wrong side would clear the slot of
the other book. Everything said about the book rests on that assumption.
The pools' blocks are a bound (`MaxOrders`, `MaxLimits`); a message for which
memory is missing does not occur.

The default destructor `~Limit()` of a node that `release` puts back on the
free list is trivial (`limit_pool.h`), so the model leaves its fields as they
were; `IdleLimitsEmpty` is what makes that harmless.

### BookSignals

One more step beside the messages for each place where the program computes
signals, at any time between messages: the program does so once a second, which
is a special case. `prev_best_*` is the only part that is read again before it
is assigned. `seen` records what a reader who counts the resting orders sees
when a sample is taken; `VoiIsOrderFlow` compares the code's answer with the
one that follows from `seen` and now. `bids_[best_bid_idx_]` for an empty side
reads one past the vector: its elements are 7'000'000 pointers in pages of
their own, and what follows in the last page is zero, so the model reads `Nil`
(with another constructor argument or allocator it could be anything).

The flow of an ask side that was empty is what the code's comparison makes of
the price 0, and the property states it: reappearing asks do not count, and
vanishing ones count as an improvement of nothing.

### LockFreeQueue

One step per atomic load, store or compare-exchange, and one per access to a
node's storage. The interleaving semantics is justified for the queue's use,
one producer and one consumer: each variable of `head_` and `tail_` has one
writer, a consumer reads a node only after an acquire load of `written` that
saw the producer's release store, and a producer writes a node only after an
acquire load of `head_` that saw the consumer's release past it and of
`written` that saw it cleared. Weaker orders of the remaining loads only make a
call see an older index, which the model also allows, because the index is
loaded a step before it is compared. `compare_exchange_weak` may fail
spuriously (`ClaimTailFails`, `ClaimHeadFails`).

With two producers the compare-exchange on `tail_` has an ABA problem; the
program never has two, so this is noted here and not run.

### ConnectionPool, DbConnection, AsyncLogger

Threads interleave at every lock, queue operation, system call and shared flag.
`TimeOut` also covers spurious wakeups.

The pool is destroyed when nobody is inside a call of it: its owners hold it by
`shared_ptr` (`concurrent_backtest.h:24`, `backtester.h:42`, `strategy.h:25`), and
a call that went on beside the destructor would use a mutex and a condition
variable that are no more. So nobody is ever freed by `shutdown_` and `notify_all`
(connection_pool.cpp:68-69), and no property speaks of it. A thread that must
grow the pool stops at the mutex it holds (`Growing`); the run has pools
with room and without, and `GrowingForEver` proves that its call never
returns.

A socket call may fail, a send may take part of a line, and the peer may close.
`sent` holds the lines that a socket took, with what the database has of each. A
send checks for a negative result only, so a short one ends the stream in the
middle of a line (`cut`), and the next line of that connection, joined to the
fragment, is lost with it. A peer that closes need not have read the last lines
since the connection was made (`first`); a closed peer may let more lines go
nowhere before it resets. `charged` is how many lines all of this may cost, which
`FaultsBoundLosses` relates to the lines that are lost. `BrokenPipe` is the default
action of SIGPIPE.

The logger's lines are a number and a length; its buffer is an array of cells, so
that overwriting is visible. `synced` has the lines that an `msync` found whole in
the file (`msync` is taken to succeed; the code does not look). `RowsReachTheDisk`
says that each row gets there before it is overwritten, not that it stays in the
file: rows of later batches are copied over it (section 5). What the file held
before the constructor (`Before`: `open` has no `O_TRUNC`) is told apart from
lines only. Minutes are in any order, as time stamps of messages are.

### Strategy

A call is one step; `close_positions` is one step per iteration of its loops.
The book is external: each call finds a quote. A signal is its sign, restricted
by what the code needs for it to be nonzero (six samples, a fitted model, two
sides). 32 bit arithmetic wraps beyond `Int32Max`, the `float` of `ImbalanceStrat`
is exact up to `FloatMax` and rounded beyond it, and `POINT_VALUE_`, which nothing sets in
`ImbalanceStrat`, holds anything in `Garbage`. Signed overflow is undefined in
C++; the accumulators are plain additions to memory, which compile to ones that
wrap, and the model says so.

### Backtester and ConcurrentBacktester

A Backtester is a record; what runs between two looks at `running_` is an
operator. A message is the second it carries, or `Filtered` when the price
filter returns before the clock would be set. `clock_runs` is FALSE for the
code as it is and TRUE with `orderbook.h:113-116` in effect: the control of the
loops is the same, and would never be reached without it. `Start` and `End`
are the same for training and replay, as `set_trading_times` sets them; with a
file name too short to hold a date they stay the empty string, before every
time. What a strategy does is its effect on the position, with the guards of
`Strategy` (`MAX_LAG + 1` samples, a fitted model).

A task is a chain of steps (create, prepare, train, fit, test and set
`running_`, loop, exit), cut where another thread can come between. Creating a
strategy takes a connection for good; an empty pool hangs the task
(`ConnectionPool` has the reason), and the logger's constructor may throw with
the connection taken. Fitting with a negative number of rows, undefined in
Eigen, gives any coefficients, throws, or ends the process. The program itself
never stops a running task: `stop_backtest` by another thread is what the class
offers, and a second start is too. `NoMessageSkipped`, like one property of each
module below, has the type invariant as its first part.

### Parser, MarketDataIngestor, Benchmark

A file is a sequence of tokens; `memchr` and the number parsers are the external
operators `Found` and `Parsed`, which skips ends of lines as the C library does.
`Fields` are the places behind the commas that `strchr` finds one after the other
(`Behind`), wherever the line ends. A missing comma is a crash, since the code
dereferences the null pointer plus one. `strtoull` and
`strtol` stop at the ends of 64 bits (`Int64Max`), and a message keeps price and
size in 32 bits with a sign (`message.h:7-8`): a size of 2^31 or more becomes
negative, an id or time beyond 2^64 - 1 becomes that. A line is well formed when
its numbers fit.

The ingestor's thread and its owner interleave at every flag. The owner may
start, stop, poll and destroy in any order (`Poll` only after a start, as
benchmark/main.cpp does); after a start that is not followed by a stop a second
one does nothing, also when the thread has completed. Times and rates are left
out: they are computed from what `CompletedIsFinal` says is final.

## 3. Runs

| run | instance | what it shows |
|---|---|---|
| `orderbook` | 2 ids, 3 prices of which 1 is filtered, 2 sizes, 3 order and 2 level cells, replayed adds | `MemorySafe`, `BestIsTopOfBook`, `NothingLeaks`, `ReadersSeeTheQueues`, `ImplementsPriceTimeBook` |
| `book_signals` | 3 ids, 3 prices, 1 size, 2 level cells, 2 levels summed | `VolsAreDepth`, `VoiIsOrderFlow` |
| `queue` | 4 nodes, 2 items, fair threads | `SlotsExclusive`, `NothingLeftBehind`, `ImplementsFifo`, `PublishedIsConsumed`, `CallsReturn` |
| `page_map` | ids on five pages with gaps, 2 pages in advance, 4 in all | `ImplementsOrderMap`, `PagesOwnedOnce` |
| `connection_pool` | 3 threads, pools of 1, of 2, and of 1 that may grow to 2, batches of 2 | `EachConnectionOnce`, `NullOnlyAtShutdown`, `NoLostWakeup`, `GrowingNeverEnds` |
| `db_connection` | queue of 2, 5 lines, 7 of them that may be charged to failures | `AtMostOnceInOrder`, `FaultsBoundLosses`, `NoSocketLeak`, `DestructorReturns` |
| `async_logger` | queues of 2, batches of 3, 3 cells, 2 minutes, 4 entries | `PendingLinesIntact`, `RowsReachTheDisk`, `OutputsAgreeAtEnd`, `OutputsInOrder`, `DestructorReturns` |
| `async_logger_header` | batches of 2, 3 entries | violation: the header is overwritten |
| `strategy` | quotes 0/11 and 0/12, `Int32Max` 31, `FloatMax` 16, 5 trades | `PnlExact`, `EveryTradeLogged`, `CloseSettles` |
| `concurrent_backtest` | 2 instruments, three files for one of them, sessions of 3 seconds, 3 connections, 2 starts, 1 stop | `PacedBySeconds`, `FlatOutsideSession`, `NoMessageSkipped`, `StopIsPrompt`, `StartReturns` |
| `backtester_clock` | the same files, the clock as it is, no stop | violation: a whole session without one call of the strategy |
| `benchmark` | 7 kinds of lines, files of up to 3 rows and short headers, `Int32Max` 7, `Int64Max` 15, 3 calls of start and stop | `ParserExact`, `CompletedIsFinal`, `OneIngestorThread`, `WindowCoversAccepted`, `IngestEnds` |

`TypeOK` is the first part of one property each of `PageMap`, `ConnectionPool`,
`DbConnection`, `AsyncLogger`, `Strategy`, `ConcurrentBacktester` and
`MarketDataIngestor`; for the order book and the queue it is a theorem of its own.

### Why the bounds are enough

* *Book.* Three cells make a queue with a head, a middle and a tail; with
  three cells and adds beyond them the free lists are empty, partly used and
  full, and a replayed add fills a cell without a new id. Three slots, in the
  `book_signals` run all reachable, let the best index pass over a gap.
  Everything this run checks is also proved for every instance; the instance
  covers each pointer case of `limit_remove_order` on both sides.
* *Views and symmetry.* The view leaves out the fields of cells that are not
  in use; each is assigned before it is read again. Ids are interchangeable:
  the table compares them for equality only. `SignalView` adds what the signals
  read again. None is used with liveness.
* *Queue.* Four nodes, two distinct items: the indices go round, the queue is
  full, partly full and empty, and items can be told apart.
* *Page map.* Ids before, on and after a page boundary, pages before and after
  the base, and fewer pages than ids need, so that an allocation fails.
* *Pool.* Two threads wait while the third holds the only connection; a
  notification has a choice. With two connections the queue of the available
  ones has an order. With room to grow, two more threads call while one is stuck,
  and each of the three can be the one.
* *Connection.* Seven charged lines allow a peer that closes twice, a short send
  before a closing peer, or every kind of failure once; five lines outnumber the
  queue and let two connections have lines of their own.
* *Logger.* A batch of 3 in a buffer of 3 with rows of 1 and 2 gives flushes by
  count, by minute, by a full buffer (which resets neither of the other two) and
  none; four entries overrun a queue of 2.
* *Strategy.* Five trades at 12 take the totals beyond 31, where they wrap around,
  while the profit still fits, and values above 16 are rounded. `MaxTrades` bounds only
  trades on signals, so a position can always be closed.
* *Backtests.* The first instrument's files have gaps, repeated and decreasing
  seconds, filtered messages, data before, after and ending in the session, and
  training that is long enough, too short and absent; the second instrument's
  is plain, so that the two differ in where they are. Two starts of two
  instruments ask for four connections of three. One stop meets every state of
  every task.
* *Benchmark.* A line per case that the parser tells apart, in every order, so
  that a short line is followed by a good one, a bad one or nothing. Three
  calls are start, stop, start or two starts and a stop.

Deadlock is checked in every run. Components that may really stop have an
action that says so (`Terminated`, `Closed`, `Ended`, `Destroyed`, and `Stuck` in
the pool, where a thread that waits for itself may end up with everyone waiting
for it).

### Fairness

* `LockFreeQueue`: a thread inside a call keeps running; a compare-exchange
  that is tried again and again succeeds; a consumer's loop keeps calling
  `dequeue` (both consumer threads of the program loop). Producers need never
  call.
* `ConnectionPool`: threads run, and a mutex that is released again and again
  is granted to whoever wants it. Nobody need give a connection back, and
  `wait_for` need not time out. `GrowingNeverEnds` needs no fairness.
* `DbConnection`, `AsyncLogger`: the threads run, and a destructor that was
  called goes on. `connect` and `send` return, with a failure or without.
* `ConcurrentBacktester`: each task runs, the thread that waits notices, a stop
  that was begun goes on. Nobody need start or stop anything.
* `Benchmark`: the ingestor's thread runs, and the owner goes on with a call it
  has made. It need not make any; only what it waits for is asserted.

## 4. Proofs

`OrderbookProofs` proves, for any ids, prices, sizes, window and number of
cells, under `BookAssumption` (which asks that the filter of `process_msg` lies
in the window, as it does for `Orderbook(100, 7000000)` and the filter's
100000 .. 800000):

* `TypeCorrect`, `HeapAlwaysSound` (`MemorySafe`), `NothingEverLeaks`
  (`NothingLeaks`), `BestAlwaysTopOfBook` (`BestIsTopOfBook`),
  `QuotesAlwaysAgree`.

The invariant is `IInv`: `TypeOK`, `MemorySafe`, `BestIsTopOfBook`, `NothingLeaks`
and `Ranked`.
`MemorySafe` alone is almost inductive: it is local, about a cell and its
neighbours, so that one step disturbs few cells. It does not exclude a cycle of
live orders that no `head_` reaches, and such a cycle would let a removal leave
a level without a head. `Ranked` does: it gives every live order a number that
grows along `next_`. The proof goes over the method calls: what
`get_or_insert_limit`, `add_order` and `cancel_order` change is stated once as a
set of field equations (`GetLimitFields`, `AddFields`, `CancelFields`); from
these `AddPreserves` and `CancelPreserves` follow, one step per conjunct.
A `modify_order` that moves an order is a cancel and an add; one that shrinks it
is `ShrinkPreserves`. `ScanStopFirst` says where the scan of `adjust_bbo` ends.

`NothingLeaks` says that the cells on each free list are the free cells. `Chain`
is the least set that has the first cell and the successor of each of its cells,
so that what a push, a pop or an unrelated write does to it follows from two
inclusions (`ChainIsLeast`, `PushedChain`, `PoppedChain`, `SameChain`) and no
induction along the list is needed.

`OrderbookRefinementProofs` goes on from there and proves, under the same
assumption and for any feed of it:

* `AlwaysPriceTimeBook` (`ImplementsPriceTimeBook`), `ReadersAlwaysSeeTheQueues`
  (`ReadersSeeTheQueues`), and for the book with its signals `VolsAlwaysDepth`
  (`VolsAreDepth`), `VoiAlwaysOrderFlow` (`VoiIsOrderFlow`).

`MemorySafe` is local and does not say what a reader meets who follows `next_`
from a head. `Listed` does: for every level there is a sequence without
repetitions whose cells are the orders of the level, linked in that order; a call
appends to it, removes from it or leaves it (`AddLists`, `CancelLists`,
`CancelListsOther`). The abstract queue of a level is a recursive function along
`next_`, and `FollowsList`, by induction from the end of the list, says that it
yields the listed orders. On queues the method calls are then exactly the steps of
`PriceTimeBook` (`AddRefines`, `CancelStep`, `ReplaceRefines`, `ShrinkQueues`).
`Volumes` says that each level keeps the sum of the sizes of its orders. The laws
of such sums (`SumFacts`, `SumSame`, `SumRenumbered`: what one element contributes,
that their order does not matter) are proved from the definition in the community
modules by induction over the size of the set. `QueueInv` is all of this with the
invariant of `OrderbookProofs`; `SInv` adds that what the signals remember of the
last sample (`SignalsSeen`) is what was seen then.

Induction is used in the form of `NatIsReached`: a set of numbers that has 0 and
with each number the next one is all of them. It takes a set, where the theorem of
the library takes an operator, so that every prover can apply it.

`LoggingProofs` proves of `LockFreeQueue`, for any `SIZE` of at least 2, one producer, one
consumer and any items:

* `TypeCorrect`, `SlotsAlwaysExclusive`, `NothingEverLeftBehind`,
  `TailNeverMeets`, and `AlwaysImplementsFifo` (`ImplementsFifo`).

Its invariant relates each thread's local index to the shared ones while it is
in a call (`ProducerInStep`, `ConsumerInStep`), and the flag and the storage of
each node to its place in the ring and to who is working on it (`FlagsExact`,
`StorageExact`, with `Between` for the occupied part). `StepPreserves` has one
step per action.

The refinement maps the ring to the items in the places from `head_` to `tail_`,
where a node that was claimed and not yet filled counts with the item being put
in it. A put or a take is a compare-exchange that succeeds (`PutStep`,
`TakeStep`); a refusal is the comparison of the two indices (`RejectStep`,
`MissStep`, `IsEmptyStep`), which the caller's index, read earlier, leaves right:
only its own thread moves it. The later steps of a call leave queue and results
alone (`ProducerFollows`, `ConsumerFollows`), as do those before
(`CallsBegin`).

and of `AsyncLogger`, for queues, batches, buffer and lines of any size:

* `OutputsAlwaysInOrder`, `OutputsAlwaysAgreeAtEnd`, `RowsAlwaysReachTheDisk`,
  `PendingLinesAlwaysIntact`.

The second invariant is `LoggerIInv`. An output is taken together with what is on its way to it, in the queue or in
the hands of its thread: both are in order (`InOrder`) and, as long as nothing
was dropped, gapless (`Gapless`). `Exits` says that no thread ends before what it
waits for. `Placed` says where in the buffer the pending lines lie, so that an
`msync` finds each of them whole (`PlacedIntact`, `SyncFacts`), and `Kept` that a
row is pending until one has; fewer than a batch are pending (`Recent`), and a
function from the rows that wait to their places is injective. The proof of
`PendingLinesIntact` for the buffer does not contradict `async_logger_header`:
the lines are intact, what stood there before is not.

`PageMapProofs` proves for any ids, size of a page and number of pages:

* `PagesAlwaysOwnedOnce` (`PagesOwnedOnce`), `AlwaysImplementsOrderMap`
  (`ImplementsOrderMap`).

Neither is inductive: that a page made now is new takes that no page in use has
a higher number than `made` (`Owned`), and that an id mapped for the first time
is not found takes that pages that are not in use are zero (`Blank`, when pages
come zeroed). `CoveringFacts` and `MovedSound` deal with the growth at both
ends, once for all operations; `WriteFacts` with one slot; `IdFacts` with
division and remainder.

`DatabaseProofs` proves of `ConnectionPool`, for any number of threads, connections
and batches:

* `ConnectionsAlwaysOnce` (`EachConnectionOnce`), `NullAlwaysMeansShutdown`
  (`NullOnlyAtShutdown`), `GrowingForEver` (`GrowingNeverEnds`).

What it takes beside the places of the connections (`Apart`, `Made`,
`Somewhere`, `Marked`) is that only the owner of the mutex is between the lock
and the take (`Owner`), so that a connection it saw is still there (`TakeFinds`),
and that a thread acquires with empty hands (`Hands`). `Owner` also shows why
`acquire_connection` never adds a connection: the pool grows only while it is
constructed (`OnlyMainAdds`).

and of `DbConnection`, for any capacity, lines and failures:

* `AlwaysAtMostOnceInOrder`, `FaultsAlwaysBoundLosses`, `NoSocketEverLeaks`.

The order of what was sent, is at hand and waits is one order (`Ordered`); the
balance of the lines lost and the lines charged has a term for what is yet to be
lost (`Owed` in `LossesPaid`): a peer that closed still takes a line, and a line
that was cut takes the next one with it. The invariants are `IInv` for the pool and `ConnectionIInv` for the connection.

`ConcurrentBacktesterProofs` proves, for any number of instruments, files,
starts and stops, any messages and any session:

* `StopAlwaysPrompt`, `AlwaysFlatOutsideSession`, `NoMessageEverSkipped`,
  `AlwaysPacedBySeconds`, and `HangsOnlyWhenDrained`, the half of `StartReturns`
  that is not liveness.

Tasks meet only in `running_` and in the pool, so the invariant has one part per
instrument, `Sound(b, p)`: what is true of the Backtester `b` while its task is at
the place `p`. It is proved once per step of a task, from place to place
(`CreatedSound` .. `ExitedSound`, and `StoppedSound` for a stop at any place);
`AtSound` and `SoundFrame` then deal with the interleaving. Its heart is `Paced`:
`prev_seconds` is the latest time within the window, 0 before there is one, and
with that an update is due exactly at a new second (`Pace`, used by both loops;
it needs `start_time` above 0 once a message is within the window; an unset
window has an unset end too, and its session ends at the first message).
`Advances` ties `index` to the last message given. `Drawn` counts the
connections that are gone against the strategies made, which is nonlinear in
instruments and starts.

`StrategyProofs` proves, for any quotes, point values, `max_pos`, number of trades
and widths of the numbers:

* `ProfitIsExact` (`PnlExact`), `LogMissesNoTrade` (`EveryTradeLogged`),
  `CloseAlwaysSettles` (`CloseSettles`).

None of the three is inductive. `pnl_` is computed from totals that may have
wrapped around any number of times; `Congruent` says that their difference is what
the trades brought in but for a multiple of the modulus, which survives each trade
(`BuyFacts`, `SellFacts`, `CongruentKept`) and goes away when the profit fits
(`WrapFacts`). `Counted` ties together the position, the numbers of purchases and
sales, the fees and the length of `trade_queue_`, from which the logged count
follows. `ProfitCurrent` says for which quote `pnl_` was worked out: it is out of
date only between the call of `close_positions` and its first trade, and a book
that moves does not matter once the position is closed (`FlatProfit`). What all
trades brought in is a recursive function over the trades; `CashFacts` gives its
two equations.

`BenchmarkProofs` proves, for files and headers of any contents and length, any
bounds of the ingestor and any number of calls of `start` and `stop`:

* `ThreadIsSingle` (`OneIngestorThread`), `CompletionIsFinal`
  (`CompletedIsFinal`), `WindowAlwaysCovers` (`WindowCoversAccepted`),
  `ParserAlwaysExact` (`ParserExact`).

The first two are not inductive: `start` tests `running_` and relies on the
thread not being joinable. `OwnerInStep` ties the two together at each place of
the owner (idle and not running means joined), `ThreadInStep` says what the
thread has found out before it reports its end, `FedInOrder` what the book has
received.
The owner's steps leave all data alone, so one lemma deals with them
(`OwnerIInv`); the others are `ParseIInv`, `CreateIInv`, `ProcessIInv` and
`ThreadIInv`. The window is fixed when the ingestor is constructed
(`WindowFits`); `WindowHolds` says what it then holds.

The parser's invariant is `ParserIInv`. The only assumption about a file is that
its lines hold no end of line. `FlatFacts` says that flattened sequences lie one
after the other, by induction along the recursive function that flattens them
(`JoinsExist`, `JoinFacts`); `LineAt` is then where each line starts in the file
(`FileFacts`), and from there its end and its fields are found (`LineFacts`,
`MessageIsRow`). `ParserInStep` says that the parser's place is always the start
of a line and that each line behind the header has given the message read at its
start. That a short line takes no field away from the next one follows: the next
place does not depend on the fields read. `ParserExact` alone is not inductive,
since it says nothing before the end of the file.

Only model-checked: liveness (`PublishedIsConsumed`, `CallsReturn`, `NoLostWakeup`,
the two `DestructorReturns`, `StartReturns`, `IngestEnds`),
which needs `ENABLED` for the fairness and is beyond the prover. Every other
property of a passing run is also a theorem.

`TypeCorrect`, `QuotesAlwaysAgree` and `TailNeverMeets` state invariants that
no run lists (`TypeOK`, `QuotesAgree`, `TailNeverMeetsHead`): the runs check
what they lead to.

## 5. Disagreements found

Shown by a run:

1. `orderbook.h:113-116` is commented out, so the book's clock never moves:
   `curr_time` stays before any start time, and `run_backtest` never
   reaches `on_book_update` or `close_positions`, while the recorded output in
   `linear_model_strat.cpp:251` shows trades at market times
   (`backtester_clock`).
2. `async_logger.cpp:113`: after a flush rows are written over the header
   (`async_logger_header`).

Modelled, but not asserted by a run:

* `connection_pool.cpp:40`: `acquire_connection` calls `add_connection`, which
  locks the mutex the caller owns. Two instruments take two of the four initial
  connections; a third start of both, on connections that strategies never give
  back, would hang. `StartReturns` says exactly when.
* `db_connection.cpp:40`: a send to a connection the database closed raises
  SIGPIPE before the code that reconnects is reached (`BrokenPipe`).
* `slab_map.h:26`: pages from `aligned_alloc` are not cleared, while the book
  relies on null pointers. With `HugePages = FALSE` `ImplementsOrderMap` fails.
* `linear_model_strat.cpp:151`: with fewer than 65 samples the regression has a
  negative number of rows; as long as the clock stands still it always has.
* `market_data_ingestor.cpp:27`: once the messages are through, `start` does
  nothing until `stop` was called, although `is_completed` is true; and a second
  start replays all messages into the same book.
* `parser.cpp:67`: a line with too few commas takes fields from the next line,
  or crashes at the end of the file. A file without an end of line, of a size
  that is a multiple of the page, is read past its end (not modelled).

Seen while reading:

* The filter of `process_msg` ends at 800000, while the sample output in
  `linear_model_strat.cpp` quotes nq at 1977125.
* `vwap_` is never computed; `ImbalanceStrat` never opens a long position.
* `reset_state` destroys the book to which the strategy keeps a pointer; nothing
  calls it. A stop before `start_backtest` has set `running_` is lost.
* Two instruments with the same strategy map the same CSV file, each from its
  start.
* The mid price with one side empty is half of the other side's price.
* `clear()` returns pages to `munmap` that may come from `aligned_alloc`.

## 6. Not modelled

* `Backtester::reset_state` and `run_multiday_backtest`: nothing calls them.
* `main.cpp`: the dialogue that selects files and a strategy; its calls of
  `ConcurrentBacktester` are modelled. `print_top_levels`, rates and statistics
  only print. `market_data_injestor.cpp` duplicates the ingestor.
* `ring.h`: included by nothing, and does not compile by itself.
* Floating-point regression and predictions, formatting of rows and lines.
* Memory orders weaker than the interleavings above.

## 7. Plan

Done, in order: Orderbook, its proofs and its refinement; LockFreeQueue with
proofs and refinement; PageMap; ConnectionPool; DbConnection; AsyncLogger;
Strategy; BookSignals; Backtester and ConcurrentBacktester; Parser,
MarketDataIngestor and Benchmark.

Left: `LogPipeline`, `AsyncLogger` and `DbConnection` composed through the FIFO
specification with the order in which strategy, logger and pool are destroyed.
Its parts are checked one by one; composed, the interesting states (both queues
full, both threads draining at shutdown) are pairs of states already covered.
