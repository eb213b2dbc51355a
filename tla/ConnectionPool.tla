--------------------------- MODULE ConnectionPool ---------------------------
(***************************************************************************)
(* include/connection_pool.h and src/connection_pool.cpp: the pool every   *)
(* Strategy takes its database connection from.                            *)
(*                                                                         *)
(* pool_mutex_ is a std::mutex, not recursive: a thread that locks it      *)
(* while it owns it waits for itself.  pool_cv_ is the set of the threads  *)
(* at "waiting"; wait_for releases the mutex and ends on a notification,   *)
(* after its five seconds or spuriously.  A critical section is one step   *)
(* unless it waits, calls, or reads what is written without the mutex.     *)
(*                                                                         *)
(* A thread takes a connection to keep it for a while (the constructor of  *)
(* Strategy keeps it for good), to send one line (send_trade_log_pool) or  *)
(* to send the buffered ones (batch_trade_logs).                           *)
(***************************************************************************)
EXTENDS Integers, Sequences, FiniteSets

CONSTANTS
  Threads,        \* threads that use the pool
  Main,           \* the one that constructs it
  MaxConnections, \* bound on the sizes a pool is given
  BATCH_SIZE,
  None            \* no thread, no connection

ASSUME PoolAssumption ==
  /\ Main \in Threads /\ None \notin Threads
  /\ MaxConnections \in Nat
  /\ BATCH_SIZE \in Nat \ {0}
  /\ None \notin 1..MaxConnections

Connections == 1..MaxConnections

VARIABLES
  initial_size,   \* initial_size_ and max_size_, what the constructor was given
  max_size,
  available,      \* available_connections_
  current_size,   \* current_size_, the length of connections_
  in_use,         \* in_use[c]: the in_use_ of a connection
  shutdown,       \* shutdown_
  mutex,          \* owner of pool_mutex_, or None
  buffer_mutex,   \* owner of buffer_mutex_, or None
  logs,           \* length of log_buffer_
  pc,             \* where each thread is
  why,            \* why[t]: what t is acquiring a connection for
  conn,           \* conn[t]: the connection t has, or None
  phase           \* the pool's own: constructing, open, closing, closed
size == <<initial_size, max_size>>
pool == <<size, available, current_size, in_use, shutdown>>
vars == <<pool, mutex, buffer_mutex, logs, pc, why, conn, phase>>

Init ==
  /\ initial_size \in 1..MaxConnections /\ max_size \in initial_size..MaxConnections
  /\ available = << >> /\ current_size = 0
  /\ in_use = [c \in Connections |-> FALSE]
  /\ shutdown = FALSE
  /\ mutex = None /\ buffer_mutex = None /\ logs = 0
  /\ pc = [t \in Threads |-> IF t = Main THEN "add" ELSE "idle"]
  /\ why = [t \in Threads |-> "keep"]
  /\ conn = [t \in Threads |-> None]
  /\ phase = "constructing"

Goto(t, line) == pc' = [pc EXCEPT ![t] = line]
-----------------------------------------------------------------------------
(* add_connection, called by the constructor until the pool has its initial *)
(* size and by acquire_connection, which owns the mutex, when it is empty.  *)

AddCheck(t) ==
  /\ pc[t] = "add"
  /\ Goto(t, IF current_size >= max_size THEN "not added" ELSE "connect")
  /\ UNCHANGED <<pool, mutex, buffer_mutex, logs, why, conn, phase>>

\* make_unique<Connection> starts a thread and may throw.
Connect(t) ==
  /\ pc[t] = "connect"
  /\ \/ Goto(t, "add lock")
     \/ Goto(t, "not added")
  /\ UNCHANGED <<pool, mutex, buffer_mutex, logs, why, conn, phase>>

\* Mutant: a mutex that the thread owns can be locked again.
AddConnection_Recursive(t) ==
  /\ pc[t] = "add lock" /\ mutex \in {None, t}
  /\ available' = Append(available, current_size + 1)
  /\ current_size' = current_size + 1
  /\ IF phase # "constructing" THEN Goto(t, "take") /\ UNCHANGED phase
     ELSE IF current_size' < initial_size THEN Goto(t, "add") /\ UNCHANGED phase
     ELSE Goto(t, "idle") /\ phase' = "open"
  /\ UNCHANGED <<size, in_use, shutdown, mutex, buffer_mutex, logs, why, conn>>

\* Under a lock of its own the connection is registered; then the constructor
\* goes on to the next one and acquire_connection leaves its loop.
AddConnection(t) ==
  /\ pc[t] = "add lock" /\ mutex = None
  /\ available' = Append(available, current_size + 1)
  /\ current_size' = current_size + 1
  /\ IF phase # "constructing" THEN Goto(t, "take") /\ UNCHANGED phase
     ELSE IF current_size' < initial_size THEN Goto(t, "add") /\ UNCHANGED phase
     ELSE Goto(t, "idle") /\ phase' = "open"
  /\ UNCHANGED <<size, in_use, shutdown, mutex, buffer_mutex, logs, why, conn>>

\* The constructor throws "failed to create pool", acquire_connection waits.
NotAdded(t) ==
  /\ pc[t] = "not added"
  /\ IF phase = "constructing" THEN Goto(t, "idle") /\ phase' = "closed"
                               ELSE Goto(t, "wait") /\ UNCHANGED phase
  /\ UNCHANGED <<pool, mutex, buffer_mutex, logs, why, conn>>
-----------------------------------------------------------------------------
(* acquire_connection *)

Lock(t) ==
  /\ pc[t] = "acquire" /\ mutex = None
  /\ mutex' = t
  /\ Goto(t, "while")
  /\ UNCHANGED <<pool, buffer_mutex, logs, why, conn, phase>>

\* Mutant: an empty pool is not waited for.
While_NeverWaits(t) ==
  /\ pc[t] = "while"
  /\ Goto(t, IF available = << >> /\ ~shutdown /\ current_size < max_size THEN "add" ELSE "take")
  /\ UNCHANGED <<pool, mutex, buffer_mutex, logs, why, conn, phase>>

\* The condition of the loop, and its first statement.
While(t) ==
  /\ pc[t] = "while"
  /\ Goto(t, IF available # << >> \/ shutdown THEN "take"
             ELSE IF current_size < max_size THEN "add" ELSE "wait")
  /\ UNCHANGED <<pool, mutex, buffer_mutex, logs, why, conn, phase>>

WaitFor(t) ==
  /\ pc[t] = "wait"
  /\ mutex' = None
  /\ Goto(t, "waiting")
  /\ UNCHANGED <<pool, buffer_mutex, logs, why, conn, phase>>

TimeOut(t) ==
  /\ pc[t] = "waiting"
  /\ Goto(t, "acquire")
  /\ UNCHANGED <<pool, mutex, buffer_mutex, logs, why, conn, phase>>

\* Mutant: the connection is not popped.
Take_KeepsFront(t) ==
  /\ pc[t] = "take"
  /\ IF shutdown \/ available = << >> THEN UNCHANGED <<in_use, conn>>
     ELSE /\ conn' = [conn EXCEPT ![t] = Head(available)]
          /\ in_use' = [in_use EXCEPT ![Head(available)] = TRUE]
  /\ mutex' = None
  /\ Goto(t, "acquired")
  /\ UNCHANGED <<size, available, current_size, shutdown, buffer_mutex, logs, why, phase>>

Take(t) ==
  /\ pc[t] = "take"
  /\ IF shutdown \/ available = << >> THEN UNCHANGED <<available, in_use, conn>>
     ELSE /\ conn' = [conn EXCEPT ![t] = Head(available)]
          /\ available' = Tail(available)
          /\ in_use' = [in_use EXCEPT ![Head(available)] = TRUE]
  /\ mutex' = None
  /\ Goto(t, "acquired")
  /\ UNCHANGED <<size, current_size, shutdown, buffer_mutex, logs, why, phase>>
-----------------------------------------------------------------------------
(* release_connection *)

Waiting == {t \in Threads : pc[t] = "waiting"}

\* Mutant: nobody is notified.
Release_Silent(t) ==
  /\ pc[t] = "release" /\ mutex = None
  /\ available' = Append(available, conn[t])
  /\ in_use' = [in_use EXCEPT ![conn[t]] = FALSE]
  /\ conn' = [conn EXCEPT ![t] = None]
  /\ Goto(t, IF why[t] = "batch" THEN "clear" ELSE "idle")
  /\ UNCHANGED <<size, current_size, shutdown, mutex, buffer_mutex, logs, why, phase>>

\* notify_one wakes one of the threads that wait, if any does.
Release(t) ==
  /\ pc[t] = "release" /\ mutex = None
  /\ available' = Append(available, conn[t])
  /\ in_use' = [in_use EXCEPT ![conn[t]] = FALSE]
  /\ conn' = [conn EXCEPT ![t] = None]
  /\ LET next == IF why[t] = "batch" THEN "clear" ELSE "idle" IN
     IF Waiting = {} THEN Goto(t, next)
     ELSE \E w \in Waiting : pc' = [pc EXCEPT ![t] = next, ![w] = "acquire"]
  /\ UNCHANGED <<size, current_size, shutdown, mutex, buffer_mutex, logs, why, phase>>
-----------------------------------------------------------------------------
(* The callers *)

\* The constructor of Strategy, or send_trade_log_pool.
AcquireTo(t, purpose) ==
  /\ phase = "open" /\ pc[t] = "idle" /\ conn[t] = None
  /\ why' = [why EXCEPT ![t] = purpose]
  /\ Goto(t, "acquire")
  /\ UNCHANGED <<pool, mutex, buffer_mutex, logs, conn, phase>>

\* batch_trade_logs
BatchLogs(t) ==
  /\ phase = "open" /\ pc[t] = "idle" /\ conn[t] = None
  /\ why' = [why EXCEPT ![t] = "batch"]
  /\ Goto(t, "buffer")
  /\ UNCHANGED <<pool, mutex, buffer_mutex, logs, conn, phase>>

\* A connection is acquired while buffer_mutex_ is held.
Buffer(t) ==
  /\ pc[t] = "buffer" /\ buffer_mutex = None
  /\ logs' = logs + 1
  /\ IF logs' >= BATCH_SIZE THEN buffer_mutex' = t /\ Goto(t, "acquire")
                            ELSE Goto(t, "idle") /\ UNCHANGED buffer_mutex
  /\ UNCHANGED <<pool, mutex, why, conn, phase>>

Acquired(t) ==
  /\ pc[t] = "acquired"
  /\ IF conn[t] # None
     THEN Goto(t, IF why[t] = "keep" THEN "idle" ELSE "release") /\ UNCHANGED buffer_mutex
     ELSE /\ Goto(t, "idle")
          /\ buffer_mutex' = IF why[t] = "batch" THEN None ELSE buffer_mutex
  /\ UNCHANGED <<pool, mutex, logs, why, conn, phase>>

ClearBuffer(t) ==
  /\ pc[t] = "clear"
  /\ logs' = 0 /\ buffer_mutex' = None
  /\ Goto(t, "idle")
  /\ UNCHANGED <<pool, mutex, why, conn, phase>>

\* A thread gives back the connection it kept.
GiveBack(t) ==
  /\ phase = "open" /\ pc[t] = "idle" /\ conn[t] # None
  /\ Goto(t, "release")
  /\ UNCHANGED <<pool, mutex, buffer_mutex, logs, why, conn, phase>>
-----------------------------------------------------------------------------
(* ~ConnectionPool.  Whoever uses the pool holds a shared_ptr to it: the   *)
(* destructor runs when no thread is in a call, and none uses the mutex    *)
(* and the condition variable that end with it.  A connection that was     *)
(* kept may never have been given back.                                    *)

SetShutdown ==
  /\ phase = "open" /\ \A t \in Threads : pc[t] = "idle"
  /\ shutdown' = TRUE /\ phase' = "notify"
  /\ UNCHANGED <<size, available, current_size, in_use, mutex, buffer_mutex, logs, pc, why, conn>>

NotifyAll ==
  /\ phase = "notify" /\ phase' = "closing"
  /\ pc' = [t \in Threads |-> IF t \in Waiting THEN "acquire" ELSE pc[t]]
  /\ UNCHANGED <<pool, mutex, buffer_mutex, logs, why, conn>>

Close ==
  /\ phase = "closing" /\ mutex = None
  /\ phase' = "closed" /\ available' = << >>
  /\ UNCHANGED <<size, current_size, in_use, shutdown, mutex, buffer_mutex, logs, pc, why, conn>>

Closed ==
  /\ phase = "closed" /\ \A t \in Threads : pc[t] = "idle"
  /\ UNCHANGED vars

\* A thread that finds the pool empty and adds a connection to it waits for the
\* mutex that it holds; the others may then all wait for that thread.
Growing(t) == pc[t] = "add lock" /\ phase # "constructing"
Stuck ==
  /\ \E t \in Threads : Growing(t)
  /\ UNCHANGED vars

\* What a thread does once it is in a call.
Step(t) ==
  \/ AddCheck(t) \/ Connect(t) \/ NotAdded(t) \/ While(t) \/ WaitFor(t)
  \/ Take(t) \/ Acquired(t) \/ ClearBuffer(t)
Locking(t) == AddConnection(t) \/ Lock(t) \/ Release(t)

Next ==
  \/ \E t \in Threads : \/ Step(t) \/ TimeOut(t) \/ Locking(t) \/ Buffer(t)
                        \/ AcquireTo(t, "keep") \/ AcquireTo(t, "send")
                        \/ BatchLogs(t) \/ GiveBack(t)
  \/ SetShutdown \/ NotifyAll \/ Close \/ Closed \/ Stuck

Spec == Init /\ [][Next]_vars

\* Threads run, and a mutex that is released again and again is granted to each
\* thread that wants it.  A thread need not ever give back the connection it
\* keeps, no wait need ever time out, and the pool need not be closed.
FairSpec ==
  /\ Spec
  /\ \A t \in Threads : WF_vars(Step(t)) /\ SF_vars(Locking(t)) /\ SF_vars(Buffer(t))
-----------------------------------------------------------------------------
(* Properties *)

Lines == {"idle", "add", "connect", "add lock", "not added", "acquire", "while", "wait",
          "waiting", "take", "acquired", "release", "buffer", "clear"}

\* The state is well typed.
TypeOK ==
  /\ initial_size \in 1..MaxConnections /\ max_size \in initial_size..MaxConnections
  /\ available \in Seq(Connections)
  /\ current_size \in 0..max_size
  /\ in_use \in [Connections -> BOOLEAN]
  /\ shutdown \in BOOLEAN
  /\ mutex \in Threads \cup {None} /\ buffer_mutex \in Threads \cup {None}
  /\ logs \in Nat
  /\ pc \in [Threads -> Lines]
  /\ why \in [Threads -> {"keep", "send", "batch"}]
  /\ conn \in [Threads -> Connections \cup {None}]
  /\ phase \in {"constructing", "open", "notify", "closing", "closed"}

\* While the pool is open every connection it made is either available, once,
\* or in the hands of exactly one thread, and in_use_ tells which: none is
\* shared by two strategies and none is lost.  (And the state is well typed.)
EachConnectionOnce ==
  /\ TypeOK
  /\ phase = "open" =>
       \A c \in 1..current_size :
         LET places  == {k \in DOMAIN available : available[k] = c}
             holders == {t \in Threads : conn[t] = c} IN
         /\ Cardinality(places) + Cardinality(holders) = 1
         /\ in_use[c] <=> holders # {}

\* acquire_connection returns null for a pool that shuts down only, which none
\* does under a caller: a thread that was woken never leaves empty-handed because
\* another took the connection.
NullOnlyAtShutdown ==
  \A t \in Threads : pc[t] = "acquired" /\ conn[t] = None => shutdown

\* A thread does not sleep on while a connection is available: it wakes up or
\* another one takes the connection.  Notifications suffice, no wait need time
\* out.
NoLostWakeup ==
  \A t \in Threads :
    (pc[t] = "waiting" /\ available # << >>) ~> (pc[t] # "waiting" \/ available = << >>)

\* Who waits for the mutex that it holds itself (a pool that can still grow does
\* that instead of growing) stays there, and from then on no thread takes or
\* gives back a connection and the pool is not destroyed.
GrowingNeverEnds ==
  [][\A t \in Threads : Growing(t) => Growing(t)' /\ UNCHANGED pool]_vars
=============================================================================
