---------------------------- MODULE DbConnection ----------------------------
(***************************************************************************)
(* include/db_connection.h and src/db_connection.cpp: a Connection takes   *)
(* lines of the trade log from the thread that trades and sends them to    *)
(* the database from a thread of its own, which connects when it has a     *)
(* line to send and no connection.                                         *)
(*                                                                         *)
(* trade_log_queue_ is the bounded FIFO that LockFreeQueueRefinement shows *)
(* it to be.  Lines are the numbers 1, 2, ... in the order send_trade_log  *)
(* is called with them.  conn_mutex_ is only ever taken by the one thread  *)
(* and is left out.  The sockets and the database are the environment:     *)
(* calls fail, a send may take part of a line, and the peer may close, in  *)
(* which case a line or more is accepted before a send raises the error,   *)
(* which it does with SIGPIPE, since flags is 0 and nothing ignores it, or *)
(* with an error code.                                                     *)
(*                                                                         *)
(* A connection is a stream of bytes, and a line ends with its newline: a  *)
(* line that was taken in part and the next one of that connection reach   *)
(* the database as one, which is neither.                                  *)
(***************************************************************************)
EXTENDS Integers, Sequences, FiniteSets

CONSTANTS
  Capacity,    \* capacity of trade_log_queue_
  MaxLines,    \* bound: lines logged
  MaxCharged   \* bound: lines that failures, closing peers and a full queue may cost

ASSUME ConnectionAssumption ==
  Capacity \in Nat \ {0} /\ MaxLines \in Nat /\ MaxCharged \in Nat

NoLine   == 0
LogLines == 1..MaxLines

VARIABLES
  queue,         \* trade_log_queue_
  logged,        \* number of calls of send_trade_log
  stop_thread,   \* stop_thread_
  joined,        \* the destructor has joined the thread and closed the socket
  thread,        \* where the thread of process_database_queue is
  line,          \* line_protocol, its local
  sock,          \* sock_ is not -1
  active,        \* active_
  fds,           \* number of sockets open for this Connection
  peer,          \* the database's end: up, closed, or reset by a send after that
  sent,          \* lines the socket took, and whether the database has each
  first,         \* length of sent when the present connection was made
  cut,           \* the stream of the present connection ends within a line
  charged        \* number of lines that what went wrong so far may cost
sockets == <<sock, active, fds, peer>>
stream == <<sent, first, cut>>
connectionVars == <<queue, logged, stop_thread, joined, thread, line, sockets, stream, charged>>

ConnectionInit ==
  /\ queue = << >> /\ logged = 0
  /\ stop_thread = FALSE /\ joined = FALSE
  /\ thread = "while" /\ line = NoLine
  /\ sock = FALSE /\ active = FALSE /\ fds = 0 /\ peer = "up"
  /\ sent = << >> /\ first = 0 /\ cut = FALSE /\ charged = 0

Charge(n) == charged + n <= MaxCharged /\ charged' = charged + n
-----------------------------------------------------------------------------
(* The thread that trades *)

\* A line the queue refuses is dropped, nobody looks at what enqueue returns.
send_trade_log ==
  /\ ~stop_thread /\ logged < MaxLines
  /\ logged' = logged + 1
  /\ IF Len(queue) < Capacity THEN queue' = Append(queue, logged') /\ UNCHANGED charged
                              ELSE Charge(1) /\ UNCHANGED queue
  /\ UNCHANGED <<stop_thread, joined, thread, line, sockets, stream>>

\* ~Connection
Stop ==
  /\ ~stop_thread /\ stop_thread' = TRUE
  /\ UNCHANGED <<queue, logged, joined, thread, line, sockets, stream, charged>>

Join ==
  /\ stop_thread /\ thread = "exited" /\ ~joined
  /\ joined' = TRUE
  /\ fds' = IF sock THEN fds - 1 ELSE fds
  /\ UNCHANGED <<queue, logged, stop_thread, thread, line, sock, active, peer, stream, charged>>
-----------------------------------------------------------------------------
(* process_database_queue *)

\* Mutant: the thread does not exit when the queue is empty.
Empty_Ignored ==
  /\ thread = "empty?" /\ thread' = "dequeue"
  /\ UNCHANGED <<queue, logged, stop_thread, joined, line, sockets, stream, charged>>

QueueWhile ==
  /\ thread = "while"
  /\ thread' = IF stop_thread THEN "empty?" ELSE "dequeue"
  /\ UNCHANGED <<queue, logged, stop_thread, joined, line, sockets, stream, charged>>

Empty ==
  /\ thread = "empty?"
  /\ thread' = IF queue = << >> THEN "exited" ELSE "dequeue"
  /\ UNCHANGED <<queue, logged, stop_thread, joined, line, sockets, stream, charged>>

Dequeue ==
  /\ thread = "dequeue"
  /\ IF queue = << >> THEN thread' = "while" /\ UNCHANGED <<queue, line>>   \* sleeps 1 ms
                      ELSE /\ line' = Head(queue) /\ queue' = Tail(queue)
                           /\ thread' = "ensure_connected"
  /\ UNCHANGED <<logged, stop_thread, joined, sockets, stream, charged>>

\* ensure_connected: a socket that is there is taken to be good.
EnsureConnected ==
  /\ thread = "ensure_connected"
  /\ thread' = IF sock THEN "send" ELSE "connect"
  /\ UNCHANGED <<queue, logged, stop_thread, joined, line, sockets, stream, charged>>

\* connect: on failure the line at hand is forgotten.
NoSocket ==
  /\ thread = "connect" /\ ~sock
  /\ Charge(1)
  /\ thread' = "while" /\ line' = NoLine
  /\ UNCHANGED <<queue, logged, stop_thread, joined, sockets, stream>>

OpenSocket ==
  /\ thread = "connect" /\ ~sock
  /\ sock' = TRUE /\ fds' = fds + 1
  /\ UNCHANGED <<queue, logged, stop_thread, joined, thread, line, active, peer, stream, charged>>

\* Mutants: the socket that failed stays open; the line is not sent once connected.
ConnectFails_LeavesOpen ==
  /\ thread = "connect" /\ sock
  /\ Charge(1)
  /\ sock' = FALSE
  /\ thread' = "while" /\ line' = NoLine
  /\ UNCHANGED <<queue, logged, stop_thread, joined, active, fds, peer, stream>>

Connects_DropsLine ==
  /\ thread = "connect" /\ sock
  /\ active' = TRUE /\ peer' = "up" /\ first' = Len(sent) /\ cut' = FALSE
  /\ thread' = "while" /\ line' = NoLine
  /\ UNCHANGED <<queue, logged, stop_thread, joined, sock, fds, sent, charged>>

\* setsockopt or ::connect fails and the socket is closed.
ConnectFails ==
  /\ thread = "connect" /\ sock
  /\ Charge(1)
  /\ sock' = FALSE /\ fds' = fds - 1
  /\ thread' = "while" /\ line' = NoLine
  /\ UNCHANGED <<queue, logged, stop_thread, joined, active, peer, stream>>

Connects ==
  /\ thread = "connect" /\ sock
  /\ active' = TRUE /\ peer' = "up" /\ first' = Len(sent) /\ cut' = FALSE
  /\ thread' = "send"
  /\ UNCHANGED <<queue, logged, stop_thread, joined, line, sock, fds, sent, charged>>

\* The socket takes the line, or part of it: the rest is not sent again, and the
\* line is joined to the next one.  A peer that closed reads none of it, and its
\* answer, a reset, comes now or later.
Send ==
  /\ thread = "send" /\ peer # "reset"
  /\ \/ /\ peer = "up" /\ sent' = Append(sent, [line |-> line, whole |-> ~cut])
        /\ cut' = FALSE
        /\ UNCHANGED <<peer, charged>>
     \/ /\ peer = "up" /\ sent' = Append(sent, [line |-> line, whole |-> FALSE])
        /\ cut' = TRUE /\ Charge(2)
        /\ UNCHANGED peer
     \/ /\ peer = "closed" /\ sent' = Append(sent, [line |-> line, whole |-> FALSE])
        /\ \/ peer' = "reset" /\ UNCHANGED charged
           \/ Charge(1) /\ UNCHANGED peer
        /\ UNCHANGED cut
  /\ thread' = "while" /\ line' = NoLine
  /\ UNCHANGED <<queue, logged, stop_thread, joined, sock, active, fds, first>>

\* Mutant: a line that could not be sent is queued again.
SendFails_Requeues ==
  /\ thread = "send"
  /\ IF peer = "up" THEN Charge(1) ELSE UNCHANGED charged
  /\ thread' = "reconnect" /\ line' = NoLine
  /\ queue' = IF Len(queue) < Capacity THEN Append(queue, line) ELSE queue
  /\ UNCHANGED <<logged, stop_thread, joined, sockets, stream>>

SendFails ==
  /\ thread = "send"
  /\ IF peer = "up" THEN Charge(1) ELSE UNCHANGED charged
  /\ thread' = "reconnect" /\ line' = NoLine
  /\ UNCHANGED <<queue, logged, stop_thread, joined, sockets, stream>>

\* reconnect closes, the next line connects.
Reconnect ==
  /\ thread = "reconnect"
  /\ fds' = IF sock THEN fds - 1 ELSE fds
  /\ sock' = FALSE /\ active' = FALSE
  /\ thread' = "while"
  /\ UNCHANGED <<queue, logged, stop_thread, joined, line, peer, stream, charged>>
-----------------------------------------------------------------------------
(* The environment (external) *)

\* The peer closes, or the connection breaks: it has not read the last lines that
\* the socket took, and a line it still takes is lost, and so is the one that
\* meets the error.
PeerCloses ==
  /\ sock /\ active /\ peer = "up" /\ peer' = "closed"
  /\ \E unread \in 0..(Len(sent) - first) :
       /\ Charge(unread + 2)
       /\ sent' = [k \in DOMAIN sent |->
                    [sent[k] EXCEPT !.whole = @ /\ k <= Len(sent) - unread]]
  /\ UNCHANGED <<queue, logged, stop_thread, joined, thread, line, sock, active, fds, first, cut>>

\* SIGPIPE ends the process.
BrokenPipe ==
  /\ thread = "send" /\ peer = "reset"
  /\ thread' = "killed"
  /\ UNCHANGED <<queue, logged, stop_thread, joined, line, sockets, stream, charged>>

Ended == (joined \/ thread = "killed") /\ UNCHANGED connectionVars

ThreadStep ==
  \/ QueueWhile \/ Empty \/ Dequeue \/ EnsureConnected \/ NoSocket \/ OpenSocket
  \/ ConnectFails \/ Connects \/ Send \/ SendFails \/ Reconnect

\* A killed process takes no step.
ConnectionNext ==
  \/ thread # "killed" /\ (send_trade_log \/ Stop \/ Join \/ PeerCloses)
  \/ ThreadStep \/ BrokenPipe \/ Ended

ConnectionSpec == ConnectionInit /\ [][ConnectionNext]_connectionVars

\* The thread runs and a destructor that was called goes on.
ConnectionFairSpec == ConnectionSpec /\ WF_connectionVars(ThreadStep) /\ WF_connectionVars(Join)
-----------------------------------------------------------------------------
(* Properties *)

\* The lines that have reached the database, or are on their way with nothing gone
\* wrong so far.
Whole == {k \in DOMAIN sent : sent[k].whole}

\* The state is well typed.
ConnectionTypeOK ==
  /\ queue \in Seq(LogLines) /\ Len(queue) <= Capacity
  /\ logged \in 0..MaxLines
  /\ stop_thread \in BOOLEAN /\ joined \in BOOLEAN
  /\ thread \in {"while", "empty?", "dequeue", "ensure_connected", "connect", "send",
                 "reconnect", "exited", "killed"}
  /\ line \in LogLines \cup {NoLine}
  /\ sock \in BOOLEAN /\ active \in BOOLEAN /\ fds \in Nat
  /\ peer \in {"up", "closed", "reset"}
  /\ sent \in Seq([line : LogLines, whole : BOOLEAN])
  /\ first \in 0..Len(sent) /\ cut \in BOOLEAN
  /\ charged \in 0..MaxCharged

\* The database sees the lines in the order they were logged and none twice,
\* whatever fails and however often the thread connects again.
AtMostOnceInOrder ==
  LET due == [k \in DOMAIN sent |-> sent[k].line] \o
             (IF line = NoLine THEN << >> ELSE <<line>>) \o queue
  IN  \A i, j \in DOMAIN due : i < j => due[i] < due[j]

\* Only what goes wrong outside costs lines: a refused line, a connect or a send
\* that fails one each, a short send two, the line it cut and the one joined to
\* it, and a closing peer those it had not read and two more (and one for each that
\* is sent before it answers).  The lines that were logged and neither reach the
\* database, nor are being sent, nor queued, are no more than that.
FaultsBoundLosses ==
  logged - (Cardinality(Whole) + Len(queue) + (IF line = NoLine THEN 0 ELSE 1)) <= charged

\* No socket is lost track of: one is open exactly while sock_ names it, and
\* none once the Connection is destroyed.  (And the state is well typed.)
NoSocketLeak == ConnectionTypeOK /\ fds = IF sock /\ ~joined THEN 1 ELSE 0

\* The destructor returns, even when the database cannot be reached at all
\* (unless the process is killed).
DestructorReturns == stop_thread ~> (joined \/ thread = "killed")
=============================================================================
