----------------------------- MODULE AsyncLogger -----------------------------
(***************************************************************************)
(* include/async_logger.h and src/async_logger.cpp: log() hands an entry   *)
(* to a console thread, to a CSV thread and to the database connection;    *)
(* the CSV thread formats it into a memory mapped file.                    *)
(*                                                                         *)
(* console_queue_ and csv_queue_ are the bounded FIFOs that                *)
(* LockFreeQueueRefinement shows them to be; the database is the sequence  *)
(* of lines handed to Connection::send_trade_log.  The file is cells; a    *)
(* line takes as many as it is long, and a cell holds which part of which  *)
(* line was last copied to it.  Entries are numbered in the order of the   *)
(* calls of log(); the header of the file is line 0.                       *)
(***************************************************************************)
EXTENDS Integers, Sequences, FiniteSets

CONSTANTS
  Capacity,          \* of each queue
  FLUSH_BATCH_SIZE,
  buffer_size,
  HeaderSize,        \* length of the header
  RowSizes,          \* lengths of rows
  Minutes,           \* timestamps, cut to the minute, as csv_loop cuts them
  MaxEntries         \* bound: calls of log()

ASSUME LoggerAssumption ==
  /\ Capacity \in Nat \ {0} /\ FLUSH_BATCH_SIZE \in Nat \ {0}
  /\ buffer_size \in Nat /\ HeaderSize \in 1..buffer_size
  /\ RowSizes # {} /\ RowSizes \subseteq 1..buffer_size
  /\ Minutes \subseteq Nat \ {0} /\ MaxEntries \in Nat

Numbers == 1..MaxEntries
Entries == [n : Numbers, minute : Minutes, size : RowSizes]
Header  == [n |-> 0, minute |-> 0, size |-> HeaderSize]
NoEntry == [n |-> 0, minute |-> 0, size |-> 0]
Cells   == 1..buffer_size
Before  == <<0, 0>>   \* what the file held: zeros, or what an earlier run left, as
                      \* open has no O_TRUNC; nothing tells them apart

VARIABLES
  running,              \* running_
  console_queue, csv_queue,
  trader,               \* where the thread that logs, and destroys, is
  console, csv,         \* where console_loop and csv_loop are
  entry,                \* entry[q]: the entry at hand of trader, console and csv
  entries_since_flush, last_flush_time,
  log_buffer,           \* the mapped file
  buffer_offset,
  logged,               \* number of calls of log()
  printed, rows, db,    \* what console, file and database were given, in order
  pending,              \* lines in the buffer since the last flush
  synced,               \* lines an msync found whole in the file
  drops                 \* entries a full queue refused
file == <<entries_since_flush, last_flush_time, log_buffer, buffer_offset, pending, synced>>
outputs == <<printed, rows, db>>
loggerVars == <<running, console_queue, csv_queue, trader, console, csv, entry, file,
                logged, outputs, drops>>

\* memcpy of a line to the buffer, after a flush if it does not fit.
Copied(buf, from, l) ==
  [c \in Cells |-> IF from < c /\ c <= from + l.size THEN <<l.n, c - from>> ELSE buf[c]]

\* A line is whole in the file; the lines an msync of the file makes durable.
Intact(buf, l) ==
  \E from \in 0..(buffer_size - l.size) : \A j \in 1..l.size : buf[from + j] = <<l.n, j>>
msync(buf, lines) == {l.n : l \in {lines[k] : k \in {i \in DOMAIN lines : Intact(buf, lines[i])}}}

\* Mutants: the offset falls short of the line; a full buffer is not flushed.
write_to_buffer_Short(l) ==
  LET full == buffer_offset + l.size > buffer_size
      from == IF full THEN 0 ELSE buffer_offset IN
  [buffer  |-> Copied(log_buffer, from, l),
   offset  |-> from + l.size - 1,
   pending |-> IF full THEN <<l>> ELSE Append(pending, l),
   synced  |-> IF full THEN synced \cup msync(log_buffer, pending) ELSE synced]

write_to_buffer_NoFlush(l) ==
  LET full == buffer_offset + l.size > buffer_size
      from == IF full THEN 0 ELSE buffer_offset IN
  [buffer  |-> Copied(log_buffer, from, l),
   offset  |-> from + l.size,
   pending |-> IF full THEN <<l>> ELSE Append(pending, l),
   synced  |-> synced]

write_to_buffer(l) ==
  LET full == buffer_offset + l.size > buffer_size
      from == IF full THEN 0 ELSE buffer_offset IN
  [buffer  |-> Copied(log_buffer, from, l),
   offset  |-> from + l.size,
   pending |-> IF full THEN <<l>> ELSE Append(pending, l),
   synced  |-> IF full THEN synced \cup msync(log_buffer, pending) ELSE synced]

\* The constructor writes the header and starts the threads.
LoggerInit ==
  /\ running = TRUE
  /\ console_queue = << >> /\ csv_queue = << >>
  /\ trader = "idle" /\ console = "while" /\ csv = "while"
  /\ entry = [q \in {"trader", "console", "csv"} |-> NoEntry]
  /\ entries_since_flush = 0 /\ last_flush_time = 0
  /\ log_buffer = Copied([c \in Cells |-> Before], 0, Header)
  /\ buffer_offset = HeaderSize
  /\ pending = <<Header>> /\ synced = {}
  /\ logged = 0 /\ printed = << >> /\ rows = << >> /\ db = << >>
  /\ drops = 0
-----------------------------------------------------------------------------
(* log(): the entry is enqueued for the console, then for the file, then    *)
(* sent to the database; nobody looks at what enqueue returns.              *)

Log(e) ==
  /\ trader = "idle" /\ running /\ e.n = logged + 1
  /\ logged' = e.n
  /\ entry' = [entry EXCEPT !["trader"] = e]
  /\ trader' = "enqueue csv"
  /\ IF Len(console_queue) < Capacity
     THEN console_queue' = Append(console_queue, e) /\ UNCHANGED drops
     ELSE drops' = drops + 1 /\ UNCHANGED console_queue
  /\ UNCHANGED <<running, csv_queue, console, csv, file, outputs>>

EnqueueCsv ==
  /\ trader = "enqueue csv"
  /\ trader' = "send to db"
  /\ IF Len(csv_queue) < Capacity
     THEN csv_queue' = Append(csv_queue, entry["trader"]) /\ UNCHANGED drops
     ELSE drops' = drops + 1 /\ UNCHANGED csv_queue
  /\ UNCHANGED <<running, console_queue, console, csv, entry, file, logged, outputs>>

format_and_send_to_db ==
  /\ trader = "send to db"
  /\ trader' = "idle"
  /\ db' = Append(db, entry["trader"].n)
  /\ UNCHANGED <<running, console_queue, csv_queue, console, csv, entry, file, logged,
                 printed, rows, drops>>
-----------------------------------------------------------------------------
(* console_loop *)

\* Mutants: the loop ends as soon as it is told to; never, the queue empty or
\* not; an entry that is printed stays in the queue.
ConsoleWhile_ExitsAtOnce ==
  /\ console = "while"
  /\ console' = IF running THEN "dequeue" ELSE "exited"
  /\ UNCHANGED <<running, console_queue, csv_queue, trader, csv, entry, file, logged,
                 outputs, drops>>

ConsoleEmpty_Ignored ==
  /\ console = "empty?" /\ console' = "dequeue"
  /\ UNCHANGED <<running, console_queue, csv_queue, trader, csv, entry, file, logged,
                 outputs, drops>>

ConsolePrint_Peeks ==
  /\ console = "dequeue" /\ console' = "while"
  /\ Len(printed) < 2 * MaxEntries   \* bound
  /\ printed' = IF console_queue = << >> THEN printed
                ELSE Append(printed, Head(console_queue).n)
  /\ UNCHANGED <<running, console_queue, csv_queue, trader, csv, entry, file, logged,
                 rows, db, drops>>

ConsoleWhile ==
  /\ console = "while"
  /\ console' = IF running THEN "dequeue" ELSE "empty?"
  /\ UNCHANGED <<running, console_queue, csv_queue, trader, csv, entry, file, logged,
                 outputs, drops>>

ConsoleEmpty ==
  /\ console = "empty?"
  /\ console' = IF console_queue = << >> THEN "exited" ELSE "dequeue"
  /\ UNCHANGED <<running, console_queue, csv_queue, trader, csv, entry, file, logged,
                 outputs, drops>>

ConsolePrint ==
  /\ console = "dequeue"
  /\ console' = "while"
  /\ IF console_queue = << >> THEN UNCHANGED <<console_queue, printed>>
     ELSE /\ printed' = Append(printed, Head(console_queue).n)
          /\ console_queue' = Tail(console_queue)
  /\ UNCHANGED <<running, csv_queue, trader, csv, entry, file, logged, rows, db, drops>>
-----------------------------------------------------------------------------
(* csv_loop *)

CsvWhile ==
  /\ csv = "while"
  /\ csv' = IF running THEN "dequeue" ELSE "empty?"
  /\ UNCHANGED <<running, console_queue, csv_queue, trader, console, entry, file, logged,
                 outputs, drops>>

CsvEmpty ==
  /\ csv = "empty?"
  /\ csv' = IF csv_queue = << >> THEN "flush" ELSE "dequeue"
  /\ UNCHANGED <<running, console_queue, csv_queue, trader, console, entry, file, logged,
                 outputs, drops>>

CsvDequeue ==
  /\ csv = "dequeue"
  /\ IF csv_queue = << >> THEN csv' = "while" /\ UNCHANGED <<csv_queue, entry>>
     ELSE /\ entry' = [entry EXCEPT !["csv"] = Head(csv_queue)]
          /\ csv_queue' = Tail(csv_queue)
          /\ csv' = "write"
  /\ UNCHANGED <<running, console_queue, trader, console, file, logged, outputs, drops>>

\* After a batch, or when the row is of another minute than the last flush.
FlushDue(e) ==
  entries_since_flush + 1 >= FLUSH_BATCH_SIZE \/ last_flush_time # e.minute

\* The row is copied, then the file is flushed if that is due.
CsvWrite ==
  LET e == entry["csv"]
      w == write_to_buffer(e) IN
  /\ csv = "write"
  /\ log_buffer' = w.buffer
  /\ rows' = Append(rows, e.n)
  /\ IF FlushDue(e)
     THEN /\ entries_since_flush' = 0 /\ last_flush_time' = e.minute
          /\ buffer_offset' = 0 /\ pending' = << >>
          /\ synced' = w.synced \cup msync(w.buffer, w.pending)
     ELSE /\ entries_since_flush' = entries_since_flush + 1
          /\ buffer_offset' = w.offset /\ pending' = w.pending /\ synced' = w.synced
          /\ UNCHANGED last_flush_time
  /\ csv' = "while"
  /\ UNCHANGED <<running, console_queue, csv_queue, trader, console, entry, logged,
                 printed, db, drops>>

\* flush_buffer: the next line is copied to the start of the file again.
flush_buffer ==
  /\ buffer_offset' = 0 /\ pending' = << >>
  /\ synced' = IF buffer_offset > 0 THEN synced \cup msync(log_buffer, pending) ELSE synced
  /\ UNCHANGED <<entries_since_flush, last_flush_time, log_buffer>>

CsvFlush ==
  /\ csv = "flush" /\ csv' = "exited"
  /\ flush_buffer
  /\ UNCHANGED <<running, console_queue, csv_queue, trader, console, entry, logged,
                 outputs, drops>>
-----------------------------------------------------------------------------
(* ~AsyncLogger *)

Stop ==
  /\ trader = "idle" /\ running
  /\ running' = FALSE /\ trader' = "join console"
  /\ UNCHANGED <<console_queue, csv_queue, console, csv, entry, file, logged, outputs, drops>>

JoinConsole ==
  /\ trader = "join console" /\ console = "exited"
  /\ trader' = "join csv"
  /\ UNCHANGED <<running, console_queue, csv_queue, console, csv, entry, file, logged,
                 outputs, drops>>

JoinCsv ==
  /\ trader = "join csv" /\ csv = "exited"
  /\ trader' = "destroyed"
  /\ flush_buffer
  /\ UNCHANGED <<running, console_queue, csv_queue, console, csv, entry, logged, outputs,
                 drops>>

Destroyed == trader = "destroyed" /\ UNCHANGED loggerVars

TraderStep  == EnqueueCsv \/ format_and_send_to_db \/ JoinConsole \/ JoinCsv
ConsoleStep == ConsoleWhile \/ ConsoleEmpty \/ ConsolePrint
CsvStep     == CsvWhile \/ CsvEmpty \/ CsvDequeue \/ CsvWrite \/ CsvFlush

LoggerNext ==
  \/ \E e \in Entries : Log(e)
  \/ TraderStep \/ ConsoleStep \/ CsvStep
  \/ Stop \/ Destroyed

LoggerSpec == LoggerInit /\ [][LoggerNext]_loggerVars

\* The threads run; log() need not be called and the logger not be destroyed.
LoggerFairSpec ==
  /\ LoggerSpec
  /\ WF_loggerVars(TraderStep) /\ WF_loggerVars(ConsoleStep) /\ WF_loggerVars(CsvStep)
-----------------------------------------------------------------------------
(* Properties *)

\* The state is well typed; the buffer is never overrun.
LoggerTypeOK ==
  /\ running \in BOOLEAN
  /\ console_queue \in Seq(Entries) /\ csv_queue \in Seq(Entries)
  /\ trader \in {"idle", "enqueue csv", "send to db", "join console", "join csv", "destroyed"}
  /\ console \in {"while", "empty?", "dequeue", "exited"}
  /\ csv \in {"while", "empty?", "dequeue", "write", "flush", "exited"}
  /\ entry \in [{"trader", "console", "csv"} -> Entries \cup {NoEntry}]
  /\ entries_since_flush \in 0..(FLUSH_BATCH_SIZE - 1)
  /\ last_flush_time \in Minutes \cup {0}
  /\ log_buffer \in [Cells -> (0..MaxEntries) \X (0..buffer_size)]
  /\ buffer_offset \in 0..buffer_size
  /\ pending \in Seq(Entries \cup {Header}) /\ synced \subseteq 0..MaxEntries
  /\ logged \in 0..MaxEntries
  /\ printed \in Seq(Numbers) /\ rows \in Seq(Numbers) /\ db \in Seq(Numbers)
  /\ drops \in Nat

\* Until it is flushed a line stays in the file as it was written: what is in
\* front of buffer_offset_ are the pending lines, whole and in order, and the
\* buffer is not overrun (LoggerTypeOK).
PendingLinesIntact ==
  /\ LoggerTypeOK
  /\ \E start \in [1..(Len(pending) + 1) -> 0..buffer_offset] :
       /\ start[1] = 0 /\ start[Len(pending) + 1] = buffer_offset
       /\ \A k \in DOMAIN pending :
            /\ start[k + 1] = start[k] + pending[k].size
            /\ \A j \in 1..pending[k].size : log_buffer[start[k] + j] = <<pending[k].n, j>>

\* No row is overwritten before an msync has found it whole in the file, whatever
\* the flush was for: a full buffer, a batch or another minute.  A crash between
\* two flushes can lose fewer than FLUSH_BATCH_SIZE rows, all of them of the
\* minute of the last flush, and none once csv_loop is over.  That a row stays in
\* the file is not promised: the lines after a flush are copied over it.
RowsReachTheDisk ==
  LET unsynced == {rows[k] : k \in DOMAIN rows} \ synced IN
  /\ Cardinality(unsynced) < FLUSH_BATCH_SIZE
  /\ \A n \in unsynced :
       \E i \in DOMAIN pending : pending[i].n = n /\ pending[i].minute = last_flush_time
  /\ csv = "exited" => unsynced = {}

\* Console, file and database tell the same story when no queue was ever full:
\* once the logger is destroyed each of them has had every entry, in order.
OutputsAgreeAtEnd ==
  trader = "destroyed" /\ drops = 0 =>
    /\ db = [k \in 1..logged |-> k]
    /\ printed = db /\ rows = db

\* No output ever repeats or reorders entries, queues full or not.
OutputsInOrder ==
  \A out \in {printed, rows, db} :
    \A i, j \in DOMAIN out : i < j => out[i] < out[j]

\* The destructor returns.
DestructorReturns == ~running ~> trader = "destroyed"

\* The file starts with the header the constructor wrote to it.
HeaderKept == \A c \in 1..HeaderSize : log_buffer[c] = <<0, c>>
=============================================================================
