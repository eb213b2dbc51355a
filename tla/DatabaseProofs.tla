--------------------------- MODULE DatabaseProofs ---------------------------
(***************************************************************************)
(* Proofs about the database side: ConnectionPool, for any number of       *)
(* threads and any sizes, and the DbConnection it hands out, for a queue   *)
(* of any capacity and any number of lines and losses.                    *)
(*                                                                         *)
(* The pool.  That every connection is in one place is not inductive: it   *)
(* also takes that a thread acquires with empty hands and releases with    *)
(* full ones (Hands), and that only the owner of the mutex is between the  *)
(* lock and the take (Owner), so that what it saw available stays so       *)
(* (TakeFinds).  Owner is also why acquire_connection never adds a         *)
(* connection itself.                                                      *)
(*                                                                         *)
(* The connection.  A line is at hand exactly between the dequeue and the  *)
(* send (LineAtHand), the thread sends over a socket that connected        *)
(* (SocketInUse), and a peer that closed and a line that was cut have been *)
(* charged for lines that are yet to be lost (Owed).                       *)
(***************************************************************************)
EXTENDS ConnectionPool, DbConnection, FiniteSetTheorems, SequenceTheorems, TLAPS

-----------------------------------------------------------------------------
(* The pool. *)

Adding == {"add", "connect", "add lock", "not added"}

\* Each connection is available once or held once, and in_use_ tells which.
Apart ==
  /\ \A i, j \in DOMAIN available : available[i] = available[j] => i = j
  /\ \A i \in DOMAIN available, t \in Threads : available[i] # conn[t]
  /\ \A t, u \in Threads : conn[t] = conn[u] /\ conn[t] # None => t = u
Made ==
  /\ \A i \in DOMAIN available : available[i] \in 1..current_size
  /\ \A t \in Threads : conn[t] # None => conn[t] \in 1..current_size
Somewhere ==
  phase # "closed" =>
    \A c \in 1..current_size :
      \/ \E i \in DOMAIN available : available[i] = c
      \/ \E t \in Threads : conn[t] = c
Marked == \A c \in Connections : in_use[c] <=> \E t \in Threads : conn[t] = c

\* The pool is constructed by one thread and locks nothing meanwhile.
Constructing ==
  phase = "constructing" =>
    /\ mutex = None
    /\ \A t \in Threads : pc[t] \in IF t = Main THEN Adding ELSE {"idle"}
    /\ \A t \in Threads : conn[t] = None

RoomToAdd == \A t \in Threads : pc[t] \in {"connect", "add lock"} => current_size < max_size

Owner ==
  \A t \in Threads :
    pc[t] \in {"while", "wait", "take"} \/ (phase # "constructing" /\ pc[t] \in Adding) => mutex = t

Hands ==
  \A t \in Threads :
    /\ conn[t] # None => pc[t] \in {"idle", "acquired", "release"}
    /\ pc[t] = "release" => conn[t] # None

TakeFinds == \A t \in Threads : pc[t] = "take" => available # << >> \/ shutdown

ShuttingDown == phase \in {"notify", "closing"} => shutdown

IInv == /\ TypeOK
        /\ Apart /\ Made /\ Somewhere /\ Marked
        /\ Constructing /\ RoomToAdd /\ Owner /\ Hands
        /\ TakeFinds /\ ShuttingDown /\ NullOnlyAtShutdown

LEMMA AppendFacts ==
  ASSUME NEW S, NEW s \in Seq(S), NEW x \in S
  PROVE  /\ Append(s, x) \in Seq(S)
         /\ Len(s) \in Nat /\ Len(Append(s, x)) = Len(s) + 1
         /\ DOMAIN s = 1..Len(s) /\ DOMAIN Append(s, x) = 1..(Len(s) + 1)
         /\ \A k \in 1..Len(s) : Append(s, x)[k] = s[k] /\ s[k] \in S
         /\ Append(s, x)[Len(s) + 1] = x
BY AppendProperties, LenProperties, ElementOfSeq

LEMMA TailFacts ==
  ASSUME NEW S, NEW s \in Seq(S), s # << >>
  PROVE  /\ Tail(s) \in Seq(S) /\ Head(s) \in S /\ Head(s) = s[1]
         /\ Len(s) \in Nat /\ Len(s) > 0 /\ Len(Tail(s)) = Len(s) - 1
         /\ DOMAIN s = 1..Len(s) /\ DOMAIN Tail(s) = 1..(Len(s) - 1)
         /\ \A k \in DOMAIN Tail(s) : Tail(s)[k] = s[k + 1] /\ k + 1 \in DOMAIN s
<1>1. Tail(s) \in Seq(S) /\ Head(s) \in S /\ Head(s) = s[1] /\ Len(s) \in Nat /\ Len(s) > 0
  BY HeadTailProperties, EmptySeq, LenProperties
<1>2. Len(Tail(s)) = Len(s) - 1 /\ \A k \in 1..Len(Tail(s)) : Tail(s)[k] = s[k + 1]
  BY HeadTailProperties
<1>3. DOMAIN s = 1..Len(s) /\ DOMAIN Tail(s) = 1..Len(Tail(s))
  BY <1>1, LenProperties
<1> QED BY <1>1, <1>2, <1>3

LEMMA Sizes ==
  ASSUME TypeOK
  PROVE  /\ current_size \in Nat /\ max_size \in Nat /\ MaxConnections \in Nat
         /\ current_size <= max_size /\ max_size <= MaxConnections
<1>1. /\ initial_size \in 1..MaxConnections /\ max_size \in initial_size..MaxConnections
      /\ current_size \in 0..max_size /\ MaxConnections \in Nat
  BY Zenon, PoolAssumption DEF TypeOK
<1>2. \A most \in Nat : \A least \in 1..most : \A size_ \in least..most :
        size_ \in Nat /\ size_ <= most
  OBVIOUS
<1>3. max_size \in Nat /\ max_size <= MaxConnections
  BY Zenon, <1>1, <1>2
<1>4. current_size \in Nat /\ current_size <= max_size
  BY <1>1, <1>3
<1> QED BY <1>1, <1>3, <1>4

\* A step that neither makes, takes nor gives back a connection.
Quiet == /\ UNCHANGED <<size, available, current_size, in_use, conn>>
         /\ phase = "closed" => phase' = "closed"

LEMMA QuietKeeps ==
  ASSUME Apart, Made, Somewhere, Marked, Quiet
  PROVE  Apart' /\ Made' /\ Somewhere' /\ Marked'
BY DEF Apart, Made, Somewhere, Marked, Quiet

LEMMA AddCheckKeeps ==
  ASSUME IInv, NEW t \in Threads, AddCheck(t)
  PROVE  IInv'
<1>1. Quiet
  BY DEF IInv, AddCheck, Goto, Quiet, pool, size
<1>2. TypeOK'
  BY DEF IInv, TypeOK, AddCheck, Goto, pool, size, Lines
<1>3. Constructing' /\ Owner'
  BY PoolAssumption DEF IInv, TypeOK, AddCheck, Goto, pool, size, Constructing, Owner, Adding
<1>5. RoomToAdd'
  <2>1. current_size \in Int /\ max_size \in Int /\ max_size' = max_size
    <3>1. current_size \in Int /\ max_size \in Int
      BY Sizes DEF IInv
    <3> QED BY Zenon, <3>1 DEF AddCheck, pool, size
  <2>2. pc' = [pc EXCEPT ![t] = IF current_size >= max_size THEN "not added" ELSE "connect"]
        /\ current_size' = current_size /\ pc \in [Threads -> Lines]
    BY DEF IInv, TypeOK, AddCheck, Goto, pool, size
  <2>3. \A u \in Threads : u # t => pc'[u] = pc[u]
    BY <2>2
  <2>4. pc'[t] = IF current_size >= max_size THEN "not added" ELSE "connect"
    BY Zenon, <2>2
  <2>5. pc'[t] \in {"connect", "add lock"} => current_size < max_size
    <3>1. CASE current_size >= max_size
      <4>1. pc'[t] = "not added"
        BY <2>4, <3>1
      <4> QED BY <4>1
    <3>2. CASE ~(current_size >= max_size)
      <4>1. \A a, b \in Int : ~(a >= b) => a < b
        OBVIOUS
      <4>2. current_size < max_size
        BY <2>1, <3>2, <4>1
      <4> QED BY <4>2
    <3> QED BY <3>1, <3>2
  <2> QED BY Zenon, <2>1, <2>2, <2>3, <2>5 DEF IInv, RoomToAdd
<1>4. Hands' /\ TakeFinds' /\ ShuttingDown' /\ NullOnlyAtShutdown'
  BY DEF IInv, TypeOK, AddCheck, Goto, pool, size, Hands, TakeFinds, ShuttingDown, NullOnlyAtShutdown
<1> QED BY <1>1, <1>2, <1>3, <1>4, <1>5, QuietKeeps DEF IInv

LEMMA ConnectKeeps ==
  ASSUME IInv, NEW t \in Threads, Connect(t)
  PROVE  IInv'
<1>1. Quiet
  BY DEF IInv, Connect, Goto, Quiet, pool, size
<1>2. TypeOK'
  BY DEF IInv, TypeOK, Connect, Goto, pool, size, Lines
<1>3. Constructing' /\ RoomToAdd' /\ Owner'
  BY PoolAssumption DEF IInv, TypeOK, Connect, Goto, pool, size, Constructing, RoomToAdd, Owner, Adding
<1>4. Hands' /\ TakeFinds' /\ ShuttingDown' /\ NullOnlyAtShutdown'
  BY DEF IInv, TypeOK, Connect, Goto, pool, size, Hands, TakeFinds, ShuttingDown, NullOnlyAtShutdown
<1> QED BY <1>1, <1>2, <1>3, <1>4, QuietKeeps DEF IInv

LEMMA NotAddedKeeps ==
  ASSUME IInv, NEW t \in Threads, NotAdded(t)
  PROVE  IInv'
<1>1. Quiet
  BY DEF IInv, NotAdded, Goto, Quiet, pool, size
<1>2. TypeOK'
  BY DEF IInv, TypeOK, NotAdded, Goto, pool, size, Lines
<1>3. Constructing' /\ RoomToAdd' /\ Owner'
  <2>1. Constructing'
    BY DEF IInv, TypeOK, NotAdded, Goto, pool, Constructing, Adding
  <2>2. RoomToAdd'
    BY DEF IInv, TypeOK, NotAdded, Goto, pool, size, RoomToAdd
  <2>3. Owner'
    BY PoolAssumption DEF IInv, TypeOK, NotAdded, Goto, pool, Constructing, Owner, Adding
  <2> QED BY Zenon, <2>1, <2>2, <2>3
<1>4. Hands' /\ TakeFinds' /\ ShuttingDown' /\ NullOnlyAtShutdown'
  BY DEF IInv, TypeOK, NotAdded, Goto, pool, size, Hands, TakeFinds, ShuttingDown, NullOnlyAtShutdown
<1> QED BY <1>1, <1>2, <1>3, <1>4, QuietKeeps DEF IInv

LEMMA LockKeeps ==
  ASSUME IInv, NEW t \in Threads, Lock(t)
  PROVE  IInv'
<1>1. Quiet
  BY DEF IInv, Lock, Goto, Quiet, pool, size
<1>2. TypeOK'
  BY DEF IInv, TypeOK, Lock, Goto, pool, size, Lines
<1>3. Constructing' /\ RoomToAdd' /\ Owner'
  BY PoolAssumption DEF IInv, TypeOK, Lock, Goto, pool, size, Constructing, RoomToAdd, Owner, Adding
<1>4. Hands' /\ TakeFinds' /\ ShuttingDown' /\ NullOnlyAtShutdown'
  BY DEF IInv, TypeOK, Lock, Goto, pool, size, Hands, TakeFinds, ShuttingDown, NullOnlyAtShutdown
<1> QED BY <1>1, <1>2, <1>3, <1>4, QuietKeeps DEF IInv

LEMMA WhileKeeps ==
  ASSUME IInv, NEW t \in Threads, While(t)
  PROVE  IInv'
<1>1. Quiet
  BY DEF IInv, While, Goto, Quiet, pool, size
<1>2. TypeOK'
  BY DEF IInv, TypeOK, While, Goto, pool, size, Lines
<1>3. Constructing' /\ RoomToAdd' /\ Owner'
  BY PoolAssumption DEF IInv, TypeOK, While, Goto, pool, size, Constructing, RoomToAdd, Owner, Adding
<1>4. Hands' /\ TakeFinds' /\ ShuttingDown' /\ NullOnlyAtShutdown'
  BY DEF IInv, TypeOK, While, Goto, pool, size, Hands, TakeFinds, ShuttingDown, NullOnlyAtShutdown
<1> QED BY <1>1, <1>2, <1>3, <1>4, QuietKeeps DEF IInv

LEMMA WaitForKeeps ==
  ASSUME IInv, NEW t \in Threads, WaitFor(t)
  PROVE  IInv'
<1>1. Quiet
  BY DEF IInv, WaitFor, Goto, Quiet, pool, size
<1>2. TypeOK'
  BY DEF IInv, TypeOK, WaitFor, Goto, pool, size, Lines
<1>3. Constructing' /\ RoomToAdd' /\ Owner'
  BY PoolAssumption DEF IInv, TypeOK, WaitFor, Goto, pool, size, Constructing, RoomToAdd, Owner, Adding
<1>4. Hands' /\ TakeFinds' /\ ShuttingDown' /\ NullOnlyAtShutdown'
  BY DEF IInv, TypeOK, WaitFor, Goto, pool, size, Hands, TakeFinds, ShuttingDown, NullOnlyAtShutdown
<1> QED BY <1>1, <1>2, <1>3, <1>4, QuietKeeps DEF IInv

LEMMA TimeOutKeeps ==
  ASSUME IInv, NEW t \in Threads, TimeOut(t)
  PROVE  IInv'
<1>1. Quiet
  BY DEF IInv, TimeOut, Goto, Quiet, pool, size
<1>2. TypeOK'
  BY DEF IInv, TypeOK, TimeOut, Goto, pool, size, Lines
<1>3. Constructing' /\ RoomToAdd' /\ Owner'
  BY PoolAssumption DEF IInv, TypeOK, TimeOut, Goto, pool, size, Constructing, RoomToAdd, Owner, Adding
<1>4. Hands' /\ TakeFinds' /\ ShuttingDown' /\ NullOnlyAtShutdown'
  BY DEF IInv, TypeOK, TimeOut, Goto, pool, size, Hands, TakeFinds, ShuttingDown, NullOnlyAtShutdown
<1> QED BY <1>1, <1>2, <1>3, <1>4, QuietKeeps DEF IInv

LEMMA AcquireToKeeps ==
  ASSUME IInv, NEW t \in Threads, NEW p \in {"keep", "send"}, AcquireTo(t, p)
  PROVE  IInv'
<1>1. Quiet
  BY DEF IInv, AcquireTo, Goto, Quiet, pool, size
<1>2. TypeOK'
  BY DEF IInv, TypeOK, AcquireTo, Goto, pool, size, Lines
<1>3. Constructing' /\ RoomToAdd' /\ Owner'
  BY PoolAssumption DEF IInv, TypeOK, AcquireTo, Goto, pool, size, Constructing, RoomToAdd, Owner, Adding
<1>4. Hands' /\ TakeFinds' /\ ShuttingDown' /\ NullOnlyAtShutdown'
  BY DEF IInv, TypeOK, AcquireTo, Goto, pool, size, Hands, TakeFinds, ShuttingDown, NullOnlyAtShutdown
<1> QED BY <1>1, <1>2, <1>3, <1>4, QuietKeeps DEF IInv

LEMMA BatchLogsKeeps ==
  ASSUME IInv, NEW t \in Threads, BatchLogs(t)
  PROVE  IInv'
<1>1. Quiet
  BY DEF IInv, BatchLogs, Goto, Quiet, pool, size
<1>2. TypeOK'
  BY DEF IInv, TypeOK, BatchLogs, Goto, pool, size, Lines
<1>3. Constructing' /\ RoomToAdd' /\ Owner'
  BY PoolAssumption DEF IInv, TypeOK, BatchLogs, Goto, pool, size, Constructing, RoomToAdd, Owner, Adding
<1>4. Hands' /\ TakeFinds' /\ ShuttingDown' /\ NullOnlyAtShutdown'
  BY DEF IInv, TypeOK, BatchLogs, Goto, pool, size, Hands, TakeFinds, ShuttingDown, NullOnlyAtShutdown
<1> QED BY <1>1, <1>2, <1>3, <1>4, QuietKeeps DEF IInv

LEMMA BufferKeeps ==
  ASSUME IInv, NEW t \in Threads, Buffer(t)
  PROVE  IInv'
<1>1. Quiet
  BY DEF IInv, Buffer, Goto, Quiet, pool, size
<1>2. TypeOK'
  <2>1. logs' \in Nat /\ UNCHANGED <<initial_size, max_size, available, current_size, in_use, shutdown, mutex, why, conn, phase>>
    BY DEF IInv, TypeOK, Buffer, pool, size
  <2>2. buffer_mutex' \in {t, buffer_mutex} /\ pc' \in [Threads -> Lines]
    BY DEF IInv, TypeOK, Buffer, Goto, Lines
  <2> QED BY <2>1, <2>2 DEF IInv, TypeOK
<1>3. Constructing' /\ RoomToAdd' /\ Owner'
  BY PoolAssumption DEF IInv, TypeOK, Buffer, Goto, pool, size, Constructing, RoomToAdd, Owner, Adding
<1>4. Hands' /\ TakeFinds' /\ ShuttingDown' /\ NullOnlyAtShutdown'
  BY DEF IInv, TypeOK, Buffer, Goto, pool, size, Hands, TakeFinds, ShuttingDown, NullOnlyAtShutdown
<1> QED BY <1>1, <1>2, <1>3, <1>4, QuietKeeps DEF IInv

LEMMA AcquiredKeeps ==
  ASSUME IInv, NEW t \in Threads, Acquired(t)
  PROVE  IInv'
<1>1. Quiet
  BY DEF IInv, Acquired, Goto, Quiet, pool, size
<1>2. TypeOK'
  BY DEF IInv, TypeOK, Acquired, Goto, pool, size, Lines
<1>3. Constructing' /\ RoomToAdd' /\ Owner'
  BY PoolAssumption DEF IInv, TypeOK, Acquired, Goto, pool, size, Constructing, RoomToAdd, Owner, Adding
<1>4. Hands' /\ TakeFinds' /\ ShuttingDown' /\ NullOnlyAtShutdown'
  BY DEF IInv, TypeOK, Acquired, Goto, pool, size, Hands, TakeFinds, ShuttingDown, NullOnlyAtShutdown
<1> QED BY <1>1, <1>2, <1>3, <1>4, QuietKeeps DEF IInv

LEMMA ClearBufferKeeps ==
  ASSUME IInv, NEW t \in Threads, ClearBuffer(t)
  PROVE  IInv'
<1>1. Quiet
  BY DEF IInv, ClearBuffer, Goto, Quiet, pool, size
<1>2. TypeOK'
  BY DEF IInv, TypeOK, ClearBuffer, Goto, pool, size, Lines
<1>3. Constructing' /\ RoomToAdd' /\ Owner'
  BY PoolAssumption DEF IInv, TypeOK, ClearBuffer, Goto, pool, size, Constructing, RoomToAdd, Owner, Adding
<1>4. Hands' /\ TakeFinds' /\ ShuttingDown' /\ NullOnlyAtShutdown'
  BY DEF IInv, TypeOK, ClearBuffer, Goto, pool, size, Hands, TakeFinds, ShuttingDown, NullOnlyAtShutdown
<1> QED BY <1>1, <1>2, <1>3, <1>4, QuietKeeps DEF IInv

LEMMA GiveBackKeeps ==
  ASSUME IInv, NEW t \in Threads, GiveBack(t)
  PROVE  IInv'
<1>1. Quiet
  BY DEF IInv, GiveBack, Goto, Quiet, pool, size
<1>2. TypeOK'
  BY DEF IInv, TypeOK, GiveBack, Goto, pool, size, Lines
<1>3. Constructing' /\ RoomToAdd' /\ Owner'
  BY PoolAssumption DEF IInv, TypeOK, GiveBack, Goto, pool, size, Constructing, RoomToAdd, Owner, Adding
<1>4. Hands' /\ TakeFinds' /\ ShuttingDown' /\ NullOnlyAtShutdown'
  BY DEF IInv, TypeOK, GiveBack, Goto, pool, size, Hands, TakeFinds, ShuttingDown, NullOnlyAtShutdown
<1> QED BY <1>1, <1>2, <1>3, <1>4, QuietKeeps DEF IInv

LEMMA SetShutdownKeeps ==
  ASSUME IInv, SetShutdown
  PROVE  IInv'
<1>1. Quiet
  BY DEF SetShutdown, Quiet, size
<1>2. TypeOK'
  BY DEF IInv, TypeOK, SetShutdown, size
<1>3. Constructing' /\ RoomToAdd' /\ Owner' /\ Hands' /\ TakeFinds' /\ ShuttingDown' /\ NullOnlyAtShutdown'
  BY DEF IInv, SetShutdown, size, Constructing, RoomToAdd, Owner, Hands, TakeFinds, ShuttingDown, NullOnlyAtShutdown
<1> QED BY <1>1, <1>2, <1>3, QuietKeeps DEF IInv

LEMMA NotifyAllKeeps ==
  ASSUME IInv, NotifyAll
  PROVE  IInv'
<1>1. Quiet
  BY DEF NotifyAll, Quiet, pool, size
<1>2. TypeOK'
  BY DEF IInv, TypeOK, NotifyAll, pool, size, Lines
<1>3. Constructing' /\ RoomToAdd' /\ Owner'
  BY DEF IInv, NotifyAll, Waiting, pool, size, Constructing, RoomToAdd, Owner, Adding
<1>4. Hands' /\ TakeFinds' /\ ShuttingDown' /\ NullOnlyAtShutdown'
  BY DEF IInv, NotifyAll, Waiting, pool, size, Hands, TakeFinds, ShuttingDown, NullOnlyAtShutdown
<1> QED BY <1>1, <1>2, <1>3, <1>4, QuietKeeps DEF IInv

LEMMA CloseKeeps ==
  ASSUME IInv, Close
  PROVE  IInv'
<1>1. << >> \in Seq(Connections) /\ DOMAIN << >> = {}
  BY EmptySeq
<1>2. available' \in Seq(Connections) /\ DOMAIN available' = {}
  BY <1>1 DEF Close
<1>3. phase' = "closed" /\ phase = "closing"
      /\ UNCHANGED <<initial_size, max_size, current_size, in_use, shutdown, mutex, buffer_mutex, logs, pc, why, conn>>
  BY DEF Close, size
<1>4. TypeOK'
  BY <1>2, <1>3 DEF IInv, TypeOK
<1>5. Apart' /\ Made' /\ Somewhere' /\ Marked'
  BY <1>2, <1>3 DEF IInv, Apart, Made, Somewhere, Marked
<1>6. Constructing' /\ RoomToAdd' /\ Owner' /\ Hands' /\ TakeFinds' /\ ShuttingDown' /\ NullOnlyAtShutdown'
  BY <1>3 DEF IInv, Constructing, RoomToAdd, Owner, Hands, TakeFinds, ShuttingDown, NullOnlyAtShutdown
<1> QED BY <1>4, <1>5, <1>6 DEF IInv

\* Only the constructor gets through add_connection: the mutex is free.
LEMMA OnlyMainAdds ==
  ASSUME IInv, NEW t \in Threads, AddConnection(t)
  PROVE  /\ t = Main /\ phase = "constructing"
         /\ current_size + 1 \in Connections /\ current_size \in Nat
         /\ current_size + 1 \in 0..max_size
<1>1. phase = "constructing"
  BY PoolAssumption DEF IInv, AddConnection, Owner, Adding
<1>2. t = Main
  BY <1>1 DEF IInv, AddConnection, Constructing
<1>3. /\ current_size < max_size /\ current_size \in 0..max_size
      /\ current_size \in Nat /\ max_size \in Nat
      /\ MaxConnections \in Nat /\ max_size <= MaxConnections
  <2>1. pc[t] = "add lock" /\ TypeOK
    BY Zenon DEF AddConnection, IInv
  <2>2. current_size < max_size
    BY <2>1 DEF IInv, RoomToAdd
  <2> QED BY Zenon, <2>1, <2>2, Sizes DEF TypeOK
<1> QED BY <1>1, <1>2, <1>3 DEF Connections

LEMMA AddConnectionKeeps ==
  ASSUME IInv, NEW t \in Threads, AddConnection(t)
  PROVE  IInv'
<1> DEFINE c == current_size + 1
           n == Len(available)
<1>1. /\ t = Main /\ phase = "constructing" /\ c \in Connections /\ current_size \in Nat
      /\ c \in 0..max_size /\ available \in Seq(Connections)
  BY OnlyMainAdds DEF IInv, TypeOK
<1>2. /\ available' \in Seq(Connections)
      /\ n \in Nat /\ DOMAIN available = 1..n /\ DOMAIN available' = 1..(n + 1)
      /\ \A k \in 1..n : available'[k] = available[k]
      /\ available'[n + 1] = c
  <2>1. available' = Append(available, c)
    BY DEF AddConnection
  <2> HIDE DEF c
  <2> QED BY <1>1, <2>1, AppendFacts
<1>3. /\ current_size' = c /\ mutex = None
      /\ UNCHANGED <<initial_size, max_size, in_use, shutdown, mutex, buffer_mutex, logs, why, conn>>
  BY DEF AddConnection, size
<1>4. \/ phase' = "constructing" /\ pc' = [pc EXCEPT ![t] = "add"] /\ c < initial_size
      \/ phase' = "open" /\ pc' = [pc EXCEPT ![t] = "idle"]
  BY <1>1, <1>3 DEF AddConnection, Goto
<1>5. /\ \A u \in Threads : conn[u] = None
      /\ \A u \in Threads : u # Main => pc[u] = "idle"
  BY <1>1 DEF IInv, Constructing
<1>6. /\ \A i \in 1..n : available[i] \in 1..current_size
      /\ \A i, j \in 1..n : available[i] = available[j] => i = j
      /\ \A k \in 1..current_size : \E i \in 1..n : available[i] = k
  <2>1. \A i \in 1..n : available[i] \in 1..current_size
    BY <1>2 DEF IInv, Made
  <2>2. \A i, j \in 1..n : available[i] = available[j] => i = j
    BY <1>2 DEF IInv, Apart
  <2>3. \A k \in 1..current_size : k # None
    BY PoolAssumption DEF IInv, TypeOK
  <2>4. \A k \in 1..current_size : \E i \in 1..n : available[i] = k
    BY <1>1, <1>2, <1>5, <2>3 DEF IInv, Somewhere
  <2> QED BY <2>1, <2>2, <2>4
<1>7. TypeOK'
  <2>1. current_size' \in 0..max_size
    BY Zenon, <1>1, <1>3
  <2>2. pc' \in [Threads -> Lines] /\ phase' \in {"constructing", "open"}
    BY <1>4 DEF IInv, TypeOK, Lines
  <2> QED BY <1>2, <1>3, <2>1, <2>2 DEF IInv, TypeOK
<1> HIDE DEF n
<1>8. Apart' /\ Made' /\ Somewhere' /\ Marked'
  <2>1. /\ 1..(n + 1) = 1..n \cup {n + 1} /\ n + 1 \notin 1..n
        /\ 1..c = 1..current_size \cup {c} /\ c \notin 1..current_size
    BY <1>1, <1>2
  <2>2. \A u \in Threads : conn'[u] = None
    BY <1>3, <1>5
  <2>3. \A i \in 1..(n + 1) : available'[i] = IF i = n + 1 THEN c ELSE available[i]
    BY <1>2, <2>1
  <2> HIDE DEF c
  <2>4. \A i \in 1..(n + 1) : available'[i] \in 1..c /\ available'[i] # None
    BY <1>1, <1>2, <1>6, <2>1, <2>3, PoolAssumption DEF Connections
  <2>5. \A i, j \in 1..(n + 1) : available'[i] = available'[j] => i = j
    BY <1>6, <2>1, <2>3
  <2>6. \A k \in 1..c : \E i \in 1..(n + 1) : available'[i] = k
    <3>1. \A k \in 1..current_size : \E i \in 1..n : available[i] = k /\ available'[i] = k
      BY <1>2, <1>6
    <3> QED BY <1>2, <2>1, <3>1
  <2>7. Marked'
    BY <1>3 DEF IInv, Marked
  <2> QED BY <1>2, <1>3, <2>2, <2>4, <2>5, <2>6, <2>7 DEF Apart, Made, Somewhere
<1>9. Constructing' /\ RoomToAdd' /\ Owner' /\ Hands' /\ TakeFinds' /\ ShuttingDown' /\ NullOnlyAtShutdown'
  <2> HIDE DEF c
  <2>1. \A u \in Threads : u # Main => pc'[u] = "idle"
    BY <1>1, <1>4, <1>5 DEF IInv, TypeOK
  <2>2. /\ pc'[Main] = IF phase' = "constructing" THEN "add" ELSE "idle"
        /\ phase' \in {"constructing", "open"}
    BY <1>1, <1>4 DEF IInv, TypeOK
  <2>3. \A u \in Threads : conn'[u] = None /\ pc'[u] \in {"add", "idle"}
    BY <1>3, <1>5, <2>1, <2>2
  <2>4. Constructing'
    BY <1>3, <2>1, <2>2, <2>3 DEF Constructing, Adding
  <2>5. Owner'
    BY <2>1, <2>2, <2>3 DEF Owner, Adding
  <2>6. RoomToAdd' /\ Hands' /\ TakeFinds' /\ NullOnlyAtShutdown'
    BY <2>3 DEF RoomToAdd, Hands, TakeFinds, NullOnlyAtShutdown
  <2>7. ShuttingDown'
    BY <2>2 DEF ShuttingDown
  <2> QED BY <2>4, <2>5, <2>6, <2>7
<1> QED BY <1>7, <1>8, <1>9 DEF IInv

LEMMA TakeKeeps ==
  ASSUME IInv, NEW t \in Threads, Take(t)
  PROVE  IInv'
<1>1. /\ pc[t] = "take" /\ mutex' = None /\ pc' = [pc EXCEPT ![t] = "acquired"]
      /\ UNCHANGED <<initial_size, max_size, current_size, shutdown, buffer_mutex, logs, why, phase>>
  BY DEF Take, Goto, size
<1>2. /\ mutex = t /\ conn[t] = None /\ phase # "constructing"
      /\ \A u \in Threads : u # t => /\ pc[u] \notin {"while", "wait", "take"} 
                                     /\ pc[u] \notin Adding
  BY <1>1, PoolAssumption DEF IInv, TypeOK, Owner, Hands, Constructing, Adding
<1>3. CASE shutdown \/ available = << >>
  <2>1. UNCHANGED <<available, in_use, conn>> /\ shutdown
    BY <1>1, <1>3 DEF Take, IInv, TakeFinds
  <2>2. Quiet
    BY <1>1, <2>1 DEF Quiet, size
  <2>3. TypeOK'
    BY <1>1, <2>1 DEF IInv, TypeOK, Lines
  <2>4. Constructing' /\ RoomToAdd' /\ Owner' /\ Hands' /\ TakeFinds' /\ ShuttingDown' /\ NullOnlyAtShutdown'
    BY <1>1, <1>2, <2>1
    DEF IInv, TypeOK, Adding, Constructing, RoomToAdd, Owner, Hands, TakeFinds, ShuttingDown, NullOnlyAtShutdown
  <2> QED BY <2>2, <2>3, <2>4, QuietKeeps DEF IInv
<1>4. CASE ~(shutdown \/ available = << >>)
  <2> DEFINE c == Head(available)
             n == Len(available)
  <2>1. /\ conn' = [conn EXCEPT ![t] = c]
        /\ available' = Tail(available)
        /\ in_use' = [in_use EXCEPT ![c] = TRUE]
    BY <1>4 DEF Take
  <2>2. /\ available' \in Seq(Connections) /\ c \in Connections /\ c = available[1]
        /\ n \in Nat /\ n > 0
        /\ DOMAIN available = 1..n /\ DOMAIN available' = 1..(n - 1)
        /\ \A k \in 1..(n - 1) : available'[k] = available[k + 1] /\ k + 1 \in 1..n
    BY <1>4, <2>1, TailFacts DEF IInv, TypeOK
  <2> HIDE DEF c, n
  <2>3. c # None /\ 1 \in 1..n
    BY <2>2, PoolAssumption DEF Connections
  <2>4. \A u \in Threads : conn'[u] = IF u = t THEN c ELSE conn[u]
    BY <2>1 DEF IInv, TypeOK
  <2>5. \A u \in Threads : conn[u] # c
    BY <2>2, <2>3 DEF IInv, Apart
  <2>6. TypeOK'
    BY <1>1, <2>1, <2>2 DEF IInv, TypeOK, Lines
  <2>7. Apart'
    <3>1. \A k \in 1..(n - 1) : available'[k] # c
      BY <2>2, <2>3 DEF IInv, Apart
    <3>2. \A i, j \in 1..(n - 1) : available'[i] = available'[j] => i = j
      <4>1. \A i, j \in 1..(n - 1) : available[i + 1] = available[j + 1] => i + 1 = j + 1
        BY <2>2 DEF IInv, Apart
      <4> QED BY <2>2, <4>1
    <3>3. \A k \in 1..(n - 1), u \in Threads : available'[k] # conn[u]
      <4>1. \A i \in 1..n, u \in Threads : available[i] # conn[u]
        BY <2>2 DEF IInv, Apart
      <4> QED BY <2>2, <4>1
    <3>4. \A k \in 1..(n - 1), u \in Threads : available'[k] # conn'[u]
      BY <2>4, <3>1, <3>3
    <3>5. \A u, v \in Threads : conn'[u] = conn'[v] /\ conn'[u] # None => u = v
      BY <2>4, <2>5 DEF IInv, Apart
    <3> QED BY <2>2, <3>2, <3>4, <3>5 DEF Apart
  <2>8. Made'
    BY <1>1, <2>2, <2>3, <2>4 DEF IInv, Made
  <2>9. Somewhere'
    <3>1. ASSUME NEW k \in 1..current_size, phase # "closed", k # c
          PROVE  (\E i \in 1..(n - 1) : available'[i] = k) \/ (\E u \in Threads : conn'[u] = k)
      <4>1. (\E i \in 1..n : available[i] = k) \/ (\E u \in Threads : conn[u] = k)
        BY <2>2, <3>1 DEF IInv, Somewhere
      <4>2. CASE \E i \in 1..n : available[i] = k
        <5>1. PICK i \in 1..n : available[i] = k
          BY <4>2
        <5>2. i # 1
          BY <2>2, <3>1, <5>1
        <5>3. i - 1 \in 1..(n - 1) /\ (i - 1) + 1 = i
          BY <2>2, <5>2
        <5> QED BY <2>2, <5>1, <5>3
      <4>3. CASE \E u \in Threads : conn[u] = k
        <5>1. PICK u \in Threads : conn[u] = k
          BY <4>3
        <5>2. k # None
          BY PoolAssumption DEF IInv, TypeOK
        <5>3. u # t
          BY <1>2, <5>1, <5>2
        <5> QED BY <2>4, <5>1, <5>3
      <4> QED BY <4>1, <4>2, <4>3
    <3>2. \E u \in Threads : conn'[u] = c
      BY <2>4
    <3> QED BY <1>1, <2>2, <3>1, <3>2 DEF Somewhere
  <2>10. Marked'
    <3>1. \A k \in Connections : in_use'[k] = IF k = c THEN TRUE ELSE in_use[k]
      BY <2>1 DEF IInv, TypeOK
    <3>2. \A k \in Connections : k # c => ((\E u \in Threads : conn'[u] = k) <=> \E u \in Threads : conn[u] = k)
      <4>1. \A k \in Connections : k # None
        BY PoolAssumption DEF Connections
      <4> QED BY <1>2, <2>4, <4>1
    <3>3. \A k \in Connections : in_use[k] <=> \E u \in Threads : conn[u] = k
      BY DEF IInv, Marked
    <3>4. in_use'[c] /\ \E u \in Threads : conn'[u] = c
      BY <2>2, <2>4, <3>1
    <3>5. \A k \in Connections : k # c => (in_use'[k] <=> \E u \in Threads : conn'[u] = k)
      BY Zenon, <3>1, <3>2, <3>3
    <3> QED BY Zenon, <3>4, <3>5 DEF Marked
  <2>11. Constructing' /\ RoomToAdd' /\ Owner' /\ ShuttingDown'
    BY <1>1, <1>2 DEF IInv, TypeOK, Adding, Constructing, RoomToAdd, Owner, ShuttingDown
  <2>12. Hands' /\ TakeFinds' /\ NullOnlyAtShutdown'
    BY <1>1, <1>2, <2>3, <2>4 DEF IInv, TypeOK, Hands, TakeFinds, NullOnlyAtShutdown
  <2> QED BY <2>6, <2>7, <2>8, <2>9, <2>10, <2>11, <2>12 DEF IInv
<1> QED BY <1>3, <1>4

LEMMA ReleaseKeeps ==
  ASSUME IInv, NEW t \in Threads, Release(t)
  PROVE  IInv'
<1> DEFINE c == conn[t]
           n == Len(available)
<1>1. /\ pc[t] = "release" /\ mutex = None
      /\ conn' = [conn EXCEPT ![t] = None]
      /\ in_use' = [in_use EXCEPT ![c] = FALSE]
      /\ UNCHANGED <<initial_size, max_size, current_size, shutdown, mutex, buffer_mutex, logs, why, phase>>
  BY DEF Release, size
<1>2. /\ \A u \in Threads \ {t} : pc'[u] = pc[u] \/ (pc[u] = "waiting" /\ pc'[u] = "acquire")
      /\ pc'[t] \in {"clear", "idle"}
      /\ pc' \in [Threads -> Lines]
  <2> DEFINE next == IF why[t] = "batch" THEN "clear" ELSE "idle"
  <2>1. /\ next \in {"clear", "idle"} /\ next \in Lines /\ pc \in [Threads -> Lines]
        /\ "acquire" \in Lines
    BY DEF IInv, TypeOK, Lines
  <2>2. \/ pc' = [pc EXCEPT ![t] = next]
        \/ \E w \in Waiting : pc' = [pc EXCEPT ![t] = next, ![w] = "acquire"]
    BY DEF Release, Goto
  <2> HIDE DEF next
  <2>3. CASE pc' = [pc EXCEPT ![t] = next]
    BY <2>1, <2>3
  <2>4. CASE \E w \in Waiting : pc' = [pc EXCEPT ![t] = next, ![w] = "acquire"]
    <3>1. PICK w \in Waiting : pc' = [pc EXCEPT ![t] = next, ![w] = "acquire"]
      BY <2>4
    <3>2. w \in Threads /\ pc[w] = "waiting" /\ w # t
      BY <1>1 DEF Waiting
    <3> QED BY <2>1, <3>1, <3>2
  <2> QED BY <2>2, <2>3, <2>4
<1>3. c # None /\ c \in Connections /\ phase # "constructing"
  BY <1>1 DEF IInv, TypeOK, Hands, Constructing
<1>4. /\ available' \in Seq(Connections)
      /\ n \in Nat /\ DOMAIN available = 1..n /\ DOMAIN available' = 1..(n + 1)
      /\ \A k \in 1..n : available'[k] = available[k]
      /\ available'[n + 1] = c
  BY <1>3, AppendFacts DEF Release, IInv, TypeOK
<1>5. /\ \A i \in 1..n : available[i] # c /\ available[i] # None
      /\ \A u \in Threads : u # t => conn[u] # c
      /\ c \in 1..current_size
  <2>1. \A i \in 1..n : available[i] \in Connections
    BY <1>4, ElementOfSeq DEF IInv, TypeOK
  <2> QED BY <1>3, <1>4, <2>1, PoolAssumption DEF IInv, Apart, Made, Connections
<1>6. \A u \in Threads : conn'[u] = IF u = t THEN None ELSE conn[u]
  BY <1>1 DEF IInv, TypeOK
<1>7. TypeOK'
  BY <1>1, <1>2, <1>3, <1>4 DEF IInv, TypeOK
<1> HIDE DEF c, n
<1>8. 1..(n + 1) = 1..n \cup {n + 1} /\ n + 1 \notin 1..n
  BY <1>4
<1>9. \A i \in 1..(n + 1) : available'[i] = IF i = n + 1 THEN c ELSE available[i]
  BY <1>4, <1>8
<1>10. Apart'
  <2>1. \A i, j \in 1..(n + 1) : available'[i] = available'[j] => i = j
    BY <1>4, <1>5, <1>8, <1>9 DEF IInv, Apart
  <2>2. \A i \in 1..(n + 1), u \in Threads : available'[i] # conn'[u]
    BY <1>3, <1>4, <1>5, <1>6, <1>8, <1>9 DEF IInv, Apart
  <2>3. \A u, v \in Threads : conn'[u] = conn'[v] /\ conn'[u] # None => u = v
    BY <1>6 DEF IInv, Apart
  <2> QED BY <1>4, <2>1, <2>2, <2>3 DEF Apart
<1>11. Made'
  BY <1>1, <1>4, <1>5, <1>6, <1>8, <1>9 DEF IInv, Made
<1>12. Somewhere'
  <2>1. ASSUME NEW k \in 1..current_size, phase # "closed", k # c
        PROVE  (\E i \in 1..(n + 1) : available'[i] = k) \/ (\E u \in Threads : conn'[u] = k)
    <3>1. (\E i \in 1..n : available[i] = k) \/ (\E u \in Threads : conn[u] = k)
      BY <1>4, <2>1 DEF IInv, Somewhere
    <3>2. CASE \E i \in 1..n : available[i] = k
      BY <1>4, <1>8, <3>2
    <3>3. CASE \E u \in Threads : conn[u] = k
      BY <1>6, <2>1, <3>3 DEF c
    <3> QED BY <3>1, <3>2, <3>3
  <2>2. n + 1 \in 1..(n + 1) /\ available'[n + 1] = c
    BY <1>4
  <2> QED BY <1>1, <1>4, <2>1, <2>2 DEF Somewhere
<1>13. Marked'
  <2>1. \A k \in Connections : in_use'[k] = IF k = c THEN FALSE ELSE in_use[k]
    BY <1>1 DEF IInv, TypeOK
  <2>2. \A k \in Connections : k # None
    BY PoolAssumption DEF Connections
  <2>3. \A k \in Connections : k # c => ((\E u \in Threads : conn'[u] = k) <=> \E u \in Threads : conn[u] = k)
    BY <1>6, <2>2 DEF c
  <2>4. \A u \in Threads : conn'[u] # c
    BY <1>3, <1>5, <1>6
  <2>5. \A k \in Connections : in_use[k] <=> \E u \in Threads : conn[u] = k
    BY Zenon DEF IInv, Marked
  <2> HIDE DEF c
  <2> QED BY Zenon, <2>1, <2>3, <2>4, <2>5 DEF Marked
<1>14. Constructing' /\ RoomToAdd' /\ Owner' /\ ShuttingDown'
  BY <1>1, <1>2, <1>3 DEF IInv, Constructing, RoomToAdd, Owner, ShuttingDown, Adding
<1>15. TakeFinds'
  <2>1. \A u \in Threads : pc'[u] # "take"
    BY <1>1, <1>2, PoolAssumption DEF IInv, Owner
  <2> QED BY <2>1 DEF TakeFinds
<1>16. Hands' /\ NullOnlyAtShutdown'
  BY <1>1, <1>2, <1>6 DEF IInv, Hands, NullOnlyAtShutdown
<1> QED BY <1>7, <1>10, <1>11, <1>12, <1>13, <1>14, <1>15, <1>16 DEF IInv

LEMMA InitHolds == Init => IInv
<1> SUFFICES ASSUME Init PROVE IInv
  OBVIOUS
<1>1. << >> \in Seq(Connections) /\ DOMAIN << >> = {}
  BY EmptySeq
<1>2. available \in Seq(Connections) /\ DOMAIN available = {}
  BY <1>1 DEF Init
<1>3. /\ current_size = 0 /\ in_use = [c \in Connections |-> FALSE] /\ shutdown = FALSE
      /\ mutex = None /\ buffer_mutex = None /\ logs = 0
      /\ pc = [t \in Threads |-> IF t = Main THEN "add" ELSE "idle"]
      /\ why = [t \in Threads |-> "keep"] /\ conn = [t \in Threads |-> None]
      /\ phase = "constructing"
  BY DEF Init
<1>0. /\ initial_size \in 1..MaxConnections /\ max_size \in initial_size..MaxConnections
      /\ max_size \in Nat
  BY PoolAssumption DEF Init
<1>4. TypeOK
  <2>1. current_size \in 0..max_size /\ logs \in Nat
    BY <1>0, <1>3
  <2>4. in_use \in [Connections -> BOOLEAN] /\ shutdown \in BOOLEAN
    BY <1>3
  <2>2. pc \in [Threads -> Lines]
    BY <1>3 DEF Lines
  <2>3. /\ why \in [Threads -> {"keep", "send", "batch"}]
        /\ conn \in [Threads -> Connections \cup {None}]
        /\ phase \in {"constructing", "open", "notify", "closing", "closed"}
        /\ mutex \in Threads \cup {None} /\ buffer_mutex \in Threads \cup {None}
    BY <1>3
  <2> QED BY Zenon, <1>0, <1>2, <2>1, <2>2, <2>3, <2>4 DEF TypeOK
<1>5. Apart /\ Made /\ Somewhere
  BY <1>2, <1>3 DEF Apart, Made, Somewhere
<1>6. Marked
  BY <1>3, PoolAssumption DEF Marked, Connections
<1>7. Constructing /\ RoomToAdd /\ Owner /\ Hands /\ TakeFinds /\ ShuttingDown /\ NullOnlyAtShutdown
  BY <1>3 DEF Adding, Constructing, RoomToAdd, Owner, Hands, TakeFinds, ShuttingDown, NullOnlyAtShutdown
<1> QED BY <1>4, <1>5, <1>6, <1>7 DEF IInv

LEMMA StepKeeps == IInv /\ [Next]_vars => IInv'
<1> SUFFICES ASSUME IInv, [Next]_vars PROVE IInv'
  OBVIOUS
<1>1. ASSUME NEW t \in Threads, Step(t) PROVE IInv'
  BY <1>1, AddCheckKeeps, ConnectKeeps, NotAddedKeeps, WhileKeeps, WaitForKeeps, TakeKeeps,
     AcquiredKeeps, ClearBufferKeeps DEF Step
<1>2. ASSUME NEW t \in Threads, Locking(t) PROVE IInv'
  BY <1>2, AddConnectionKeeps, LockKeeps, ReleaseKeeps DEF Locking
<1>3. ASSUME NEW t \in Threads, NEW p \in {"keep", "send"}, AcquireTo(t, p) PROVE IInv'
  BY <1>3, AcquireToKeeps
<1>4. ASSUME NEW t \in Threads, TimeOut(t) \/ Buffer(t) \/ BatchLogs(t) \/ GiveBack(t) PROVE IInv'
  BY <1>4, TimeOutKeeps, BufferKeeps, BatchLogsKeeps, GiveBackKeeps
<1>5. CASE SetShutdown \/ NotifyAll \/ Close
  BY <1>5, SetShutdownKeeps, NotifyAllKeeps, CloseKeeps
<1>6. CASE Closed \/ Stuck \/ UNCHANGED vars
  <2>1. UNCHANGED <<initial_size, max_size, available, current_size, in_use, shutdown, mutex, buffer_mutex, logs, pc, why, conn, phase>>
    BY <1>6 DEF Closed, Stuck, vars, pool, size
  <2> QED BY <2>1 DEF IInv, TypeOK, Apart, Made, Somewhere, Marked, Constructing, RoomToAdd, Owner,
        Hands, TakeFinds, ShuttingDown, NullOnlyAtShutdown
<1> QED BY <1>1, <1>2, <1>3, <1>4, <1>5, <1>6 DEF Next

\* The invariant of the pool (add_connection, acquire_connection,
\* release_connection and the destructor, src/connection_pool.cpp:6-85) holds
\* in every reachable state.
THEOREM Inductive == Spec => []IInv
<1> QED BY InitHolds, StepKeeps, PTL DEF Spec

LEMMA OnePlace ==
  ASSUME IInv, phase = "open", NEW c \in 1..current_size
  PROVE  LET places  == {k \in DOMAIN available : available[k] = c}
             holders == {t \in Threads : conn[t] = c} IN
         /\ Cardinality(places) + Cardinality(holders) = 1
         /\ in_use[c] <=> holders # {}
<1> DEFINE places  == {k \in DOMAIN available : available[k] = c}
           holders == {t \in Threads : conn[t] = c}
<1>1. c # None /\ c \in Connections
  BY PoolAssumption DEF IInv, TypeOK, Connections
<1>2. in_use[c] <=> holders # {}
  BY <1>1 DEF IInv, Marked
<1>3. (\E k \in DOMAIN available : places = {k} /\ holders = {}) \/ (\E t \in Threads : places = {} /\ holders = {t})
  <2>1. CASE \E k \in DOMAIN available : available[k] = c
    BY <2>1 DEF IInv, Apart
  <2>2. CASE \E t \in Threads : conn[t] = c
    BY <1>1, <2>2 DEF IInv, Apart
  <2> QED BY <2>1, <2>2 DEF IInv, Somewhere
<1> HIDE DEF places, holders
<1>4. Cardinality({}) = 0 /\ \A x : Cardinality({x}) = 1
  BY FS_EmptySet, FS_Singleton
<1>5. Cardinality(places) + Cardinality(holders) = 1
  <2>1. (Cardinality(places) = 1 /\ Cardinality(holders) = 0) \/ (Cardinality(places) = 0 /\ Cardinality(holders) = 1)
    BY <1>3, <1>4
  <2> QED BY <2>1
<1> QED BY <1>2, <1>5 DEF places, holders

\* While the pool is open, every connection of it is available once or with
\* one thread, and in_use_ says which (src/connection_pool.cpp:49-67).
THEOREM ConnectionsAlwaysOnce == Spec => []EachConnectionOnce
<1>1. IInv => EachConnectionOnce
  BY OnePlace DEF IInv, EachConnectionOnce
<1> QED BY <1>1, Inductive, PTL

\* acquire_connection returns no connection only when the pool shuts down
\* (src/connection_pool.cpp:35-53).
THEOREM NullAlwaysMeansShutdown == Spec => []NullOnlyAtShutdown
<1>1. IInv => NullOnlyAtShutdown
  BY DEF IInv
<1> QED BY <1>1, Inductive, PTL

\* Owner: a thread that adds a connection after construction holds the mutex that
\* it waits for, and so do not those that would take or give back a connection.
LEMMA GrowingStays ==
  ASSUME IInv, [Next]_vars, NEW t \in Threads, Growing(t)
  PROVE  Growing(t)' /\ UNCHANGED pool
<1>1. /\ pc[t] = "add lock" /\ phase # "constructing" /\ mutex = t /\ mutex # None
      /\ pc \in [Threads -> Lines]
  BY PoolAssumption DEF IInv, TypeOK, Growing, Owner, Adding
<1>2. \A u \in Threads : ~AddConnection(u) /\ ~Lock(u) /\ ~Release(u)
  BY Zenon, <1>1 DEF AddConnection, Lock, Release
<1>3. ASSUME NEW u \in Threads PROVE ~Take(u)
  <2>1. SUFFICES ASSUME pc[u] = "take" PROVE FALSE
    BY Zenon DEF Take
  <2>2. mutex = u
    BY Zenon, <2>1 DEF IInv, Owner
  <2>3. pc[t] = "take"
    BY Zenon, <1>1, <2>1, <2>2
  <2> QED BY <1>1, <2>3
<1>4. ~SetShutdown /\ ~Close
  <2>1. pc[t] # "idle"
    BY <1>1
  <2> QED BY Zenon, <1>1, <2>1 DEF SetShutdown, Close
<1>5. ASSUME UNCHANGED pool, pc'[t] = pc[t], phase' = phase PROVE Growing(t)' /\ UNCHANGED pool
  BY Zenon, <1>1, <1>5 DEF Growing
<1>6. ASSUME NEW u \in Threads,
             \/ AddCheck(u) \/ Connect(u) \/ NotAdded(u) \/ While(u) \/ WaitFor(u) \/ Acquired(u)
             \/ ClearBuffer(u) \/ TimeOut(u) \/ Buffer(u) \/ BatchLogs(u) \/ GiveBack(u)
             \/ AcquireTo(u, "keep") \/ AcquireTo(u, "send")
      PROVE  UNCHANGED pool /\ pc'[t] = pc[t] /\ phase' = phase
  <2>1. UNCHANGED pool
    BY Zenon, <1>6 DEF AddCheck, Connect, NotAdded, While, WaitFor, Acquired, ClearBuffer, TimeOut,
         Buffer, BatchLogs, GiveBack, AcquireTo
  <2>2. pc[u] # "add lock" /\ \E place \in Lines : Goto(u, place)
    BY <1>6 DEF AddCheck, Connect, NotAdded, While, WaitFor, Acquired, ClearBuffer, TimeOut,
         Buffer, BatchLogs, GiveBack, AcquireTo, Lines
  <2>3. pc'[t] = pc[t]
    BY <1>1, <2>2 DEF Goto
  <2>4. phase' = phase
    BY Zenon, <1>1, <1>6 DEF AddCheck, Connect, NotAdded, While, WaitFor, Acquired, ClearBuffer,
         TimeOut, Buffer, BatchLogs, GiveBack, AcquireTo
  <2> QED BY Zenon, <2>1, <2>3, <2>4
<1>7. CASE NotifyAll
  <2>1. UNCHANGED pool /\ pc'[t] = pc[t] /\ phase' = "closing"
    BY <1>1, <1>7 DEF NotifyAll, Waiting
  <2> QED BY <1>1, <2>1 DEF Growing
<1>8. CASE Closed \/ Stuck \/ UNCHANGED vars
  BY Zenon, <1>5, <1>8 DEF Closed, Stuck, vars
<1> QED BY Zenon, <1>2, <1>3, <1>4, <1>5, <1>6, <1>7, <1>8 DEF Next, Step, Locking

\* With any number of threads and any sizes, an acquire_connection that adds a
\* connection never returns, and no other call that needs the mutex does
\* (src/connection_pool.cpp:40, :24).
THEOREM GrowingForEver == Spec => GrowingNeverEnds
<1>1. IInv /\ [Next]_vars => [\A t \in Threads : Growing(t) => Growing(t)' /\ UNCHANGED pool]_vars
  BY Zenon, GrowingStays
<1> QED BY <1>1, Inductive, PTL DEF Spec, GrowingNeverEnds

-----------------------------------------------------------------------------
(* The connection. *)

USE DEF stream

\* The lines the database has, the one at hand and those waiting are in order.
Ordered ==
  /\ \A i, j \in DOMAIN sent : i < j => sent[i].line < sent[j].line
  /\ \A i, j \in DOMAIN queue : i < j => queue[i] < queue[j]
  /\ \A i \in DOMAIN sent, j \in DOMAIN queue : sent[i].line < queue[j]
  /\ line # NoLine => /\ \A i \in DOMAIN sent : sent[i].line < line
                      /\ \A j \in DOMAIN queue : line < queue[j]

\* No line is ahead of the log.
Logged ==
  /\ \A i \in DOMAIN sent : sent[i].line <= logged
  /\ \A j \in DOMAIN queue : queue[j] <= logged
  /\ line <= logged

LineAtHand == line # NoLine <=> thread \in {"ensure_connected", "connect", "send", "killed"}

SocketInUse ==
  /\ fds = IF sock /\ ~joined THEN 1 ELSE 0
  /\ active => sock
  /\ thread = "connect" => ~active
  /\ sock => active \/ thread = "connect"
  /\ thread \in {"send", "reconnect"} => sock
  /\ joined => thread = "exited"

\* What a peer that closed, or a line that was cut, will still cost.
Owed ==
  IF ~active \/ thread = "reconnect" THEN 0
  ELSE IF peer = "closed" THEN 2
  ELSE IF peer = "reset" \/ cut THEN 1 ELSE 0

InHand == IF line = NoLine THEN 0 ELSE 1

LossesPaid == logged - (Cardinality(Whole) + Len(queue) + InHand) + Owed <= charged

ConnectionIInv == ConnectionTypeOK /\ Ordered /\ Logged /\ LineAtHand /\ SocketInUse /\ LossesPaid

(* The lines *)

\* A function on 1..n is a sequence of length n.
LEMMA FunctionIsSequence ==
  ASSUME NEW S, NEW n \in Nat, NEW f \in [1..n -> S]
  PROVE  f \in Seq(S) /\ Len(f) = n
<1>1. f \in Seq(S)
  BY SeqDef
<1>2. Len(f) \in Nat /\ DOMAIN f = 1..Len(f) /\ DOMAIN f = 1..n
  BY <1>1, LenProperties
<1>3. Len(f) = n
  <2>1. CASE n = 0
    BY <1>2, <2>1
  <2>2. CASE n > 0
    <3>1. n \in 1..Len(f) /\ Len(f) >= 1
      BY <1>2, <2>2
    <3>2. Len(f) \in 1..n
      BY <1>2, <3>1
    <3> QED BY <1>2, <3>1, <3>2
  <2> QED BY <2>1, <2>2
<1> QED BY <1>1, <1>3

Sendings == [line : LogLines, whole : BOOLEAN]
Wholes(s) == {k \in DOMAIN s : s[k].whole}

LEMMA WholesFacts ==
  ASSUME NEW s \in Seq(Sendings), NEW x \in Sendings
  PROVE  /\ Cardinality(Wholes(s)) \in Nat
         /\ Cardinality(Wholes(Append(s, x))) = Cardinality(Wholes(s)) + (IF x.whole THEN 1 ELSE 0)
<1> DEFINE n == Len(s)
<1>1. /\ n \in Nat /\ DOMAIN s = 1..n /\ DOMAIN Append(s, x) = 1..(n + 1)
      /\ \A k \in 1..n : Append(s, x)[k] = s[k]
      /\ Append(s, x)[n + 1] = x
  BY AppendFacts
<1> HIDE DEF n
<1>2. Wholes(s) \subseteq 1..n /\ IsFiniteSet(1..n)
  BY <1>1, FS_Interval DEF Wholes
<1>3. IsFiniteSet(Wholes(s)) /\ Cardinality(Wholes(s)) \in Nat
  BY <1>2, FS_Subset, FS_CardinalityType
<1>4. n + 1 \notin Wholes(s)
  BY <1>1, <1>2
<1>5. Wholes(Append(s, x)) = IF x.whole THEN Wholes(s) \cup {n + 1} ELSE Wholes(s)
  <2>1. 1..(n + 1) = 1..n \cup {n + 1} /\ n + 1 \notin 1..n
    BY <1>1
  <2>2. \A k \in 1..(n + 1) : Append(s, x)[k] = IF k = n + 1 THEN x ELSE s[k]
    BY <1>1, <2>1
  <2> QED BY <1>1, <2>1, <2>2 DEF Wholes
<1>6. Cardinality(Wholes(s) \cup {n + 1}) = Cardinality(Wholes(s)) + 1
  BY <1>3, <1>4, FS_AddElement
<1> QED BY <1>3, <1>5, <1>6

LEMMA WholeType ==
  ASSUME sent \in Seq(Sendings)
  PROVE  Cardinality(Whole) \in Nat
<1>1. DOMAIN sent = 1..Len(sent) /\ Len(sent) \in Nat
  BY LenProperties
<1>2. IsFiniteSet(1..Len(sent)) /\ Whole \in SUBSET (1..Len(sent))
  BY <1>1, FS_Interval DEF Whole
<1> QED BY <1>2, FS_Subset, FS_CardinalityType

LEMMA ConnectionInitHolds == ConnectionInit => ConnectionIInv
<1> SUFFICES ASSUME ConnectionInit PROVE ConnectionIInv
  OBVIOUS
<1>1. /\ << >> \in Seq(LogLines) /\ << >> \in Seq(Sendings) /\ Len(<< >>) = 0 /\ DOMAIN << >> = {}
  BY EmptySeq
<1>2. ConnectionTypeOK
  <2>1. queue \in Seq(LogLines) /\ Len(queue) = 0 /\ sent \in Seq(Sendings)
    BY <1>1 DEF ConnectionInit
  <2>2. /\ logged = 0 /\ stop_thread = FALSE /\ joined = FALSE /\ thread = "while" /\ line = NoLine
        /\ sock = FALSE /\ active = FALSE /\ fds = 0 /\ peer = "up" /\ charged = 0
        /\ sent = << >> /\ first = 0 /\ cut = FALSE
    BY DEF ConnectionInit
  <2>3. Len(queue) <= Capacity /\ logged \in 0..MaxLines /\ charged \in 0..MaxCharged /\ fds \in Nat
        /\ first \in 0..Len(sent) /\ cut \in BOOLEAN
    <3>1. Len(sent) = 0
      BY Zenon, <1>1, <2>2
    <3>2. Len(queue) <= Capacity /\ logged \in 0..MaxLines /\ charged \in 0..MaxCharged /\ fds \in Nat
      BY <2>1, <2>2, ConnectionAssumption
    <3>3. first \in 0..Len(sent) /\ cut \in BOOLEAN
      <4>1. 0 \in 0..0 /\ FALSE \in BOOLEAN
        OBVIOUS
      <4> QED BY Zenon, <2>2, <3>1, <4>1
    <3> QED BY Zenon, <3>2, <3>3
  <2> QED BY Zenon, <2>1, <2>2, <2>3 DEF ConnectionTypeOK, Sendings
<1>3. Ordered /\ Logged /\ LineAtHand /\ SocketInUse
  BY <1>1 DEF ConnectionInit, Ordered, Logged, LineAtHand, SocketInUse, NoLine
<1>4. Cardinality(Whole) = 0 /\ Len(queue) = 0
  <2>1. Whole = {}
    BY <1>1 DEF ConnectionInit, Whole
  <2> QED BY <1>1, <2>1, FS_EmptySet DEF ConnectionInit
<1>5. LossesPaid
  BY <1>4 DEF ConnectionInit, LossesPaid, InHand, Owed
<1> QED BY <1>2, <1>3, <1>5 DEF ConnectionIInv

(* The steps *)

\* Steps that touch no line: the line at hand, the queue and what was sent stay.
Still == UNCHANGED <<queue, logged, line, sent>>

LEMMA StillSteps ==
  ASSUME \/ Stop \/ Join \/ QueueWhile \/ Empty \/ EnsureConnected \/ OpenSocket \/ Connects
         \/ Reconnect \/ BrokenPipe \/ Ended \/ UNCHANGED connectionVars
  PROVE  Still
BY DEF Stop, Join, QueueWhile, Empty, EnsureConnected, OpenSocket, Connects, Reconnect,
       BrokenPipe, Ended, connectionVars, sockets, Still

\* Steps that give up the line at hand.
Forgets == line' = NoLine /\ UNCHANGED <<queue, logged, sent>>

LEMMA ForgettingSteps ==
  ASSUME NoSocket \/ ConnectFails \/ SendFails
  PROVE  Forgets
BY DEF NoSocket, ConnectFails, SendFails, Forgets

\* What is sent is the line at hand.
LEMMA SentAppends ==
  ASSUME Send
  PROVE  \E w \in BOOLEAN : sent' = Append(sent, [line |-> line, whole |-> w])
<1>1. CASE sent' = Append(sent, [line |-> line, whole |-> ~cut])
  <2>1. (~cut) \in BOOLEAN
    OBVIOUS
  <2> QED BY Zenon, <1>1, <2>1
<1>2. CASE sent' = Append(sent, [line |-> line, whole |-> FALSE])
  <2>1. FALSE \in BOOLEAN
    OBVIOUS
  <2> QED BY Zenon, <1>2, <2>1
<1> QED BY Zenon, <1>1, <1>2 DEF Send

\* A peer that closes leaves the lines that were sent where they are.
LEMMA PeerClosesFacts ==
  ASSUME ConnectionIInv, PeerCloses
  PROVE  /\ sent' \in Seq(Sendings) /\ Len(sent') = Len(sent) /\ DOMAIN sent' = DOMAIN sent
         /\ \A k \in DOMAIN sent : sent'[k].line = sent[k].line
         /\ \E unread \in Nat :
              /\ charged' = charged + (unread + 2) /\ charged' \in 0..MaxCharged
              /\ Cardinality(Whole) <= Cardinality(Whole') + unread
<1>1. /\ sent \in Seq(Sendings) /\ first \in 0..Len(sent) /\ charged \in Nat
      /\ Len(sent) \in Nat /\ DOMAIN sent = 1..Len(sent)
  BY ConnectionAssumption, LenProperties DEF ConnectionIInv, ConnectionTypeOK, Sendings
<1>2. PICK unread \in 0..(Len(sent) - first) :
        /\ Charge(unread + 2)
        /\ sent' = [k \in DOMAIN sent |->
                     [sent[k] EXCEPT !.whole = @ /\ k <= Len(sent) - unread]]
  BY Zenon DEF PeerCloses
<1>3. unread \in Nat /\ unread <= Len(sent)
  BY <1>1, <1>2
<1>4. charged' = charged + (unread + 2) /\ charged' \in 0..MaxCharged
  BY <1>1, <1>2, <1>3, ConnectionAssumption DEF Charge
<1>5. \A k \in DOMAIN sent : sent[k] \in Sendings
  BY <1>1, ElementOfSeq
<1>6. ASSUME NEW k \in DOMAIN sent
      PROVE  /\ sent'[k] \in Sendings /\ sent'[k].line = sent[k].line
             /\ k <= Len(sent) - unread => sent'[k].whole = sent[k].whole
  <2>1. sent'[k] = [sent[k] EXCEPT !.whole = @ /\ k <= Len(sent) - unread]
    BY Zenon, <1>2, <1>6
  <2>2. sent[k] \in Sendings
    BY Zenon, <1>5, <1>6
  <2> QED BY <2>1, <2>2 DEF Sendings
<1>7. sent' \in Seq(Sendings) /\ Len(sent') = Len(sent) /\ DOMAIN sent' = DOMAIN sent
  <2>1. DOMAIN sent' = DOMAIN sent /\ sent' = [k \in DOMAIN sent |-> sent'[k]]
    BY Zenon, <1>2
  <2>2. sent' \in [1..Len(sent) -> Sendings]
    <3>1. \A k \in 1..Len(sent) : sent'[k] \in Sendings
      BY Zenon, <1>1, <1>6
    <3> QED BY Zenon, <1>1, <2>1, <3>1
  <2> QED BY Zenon, <1>1, <2>1, <2>2, FunctionIsSequence
<1>8. Cardinality(Whole) <= Cardinality(Whole') + unread
  <2> DEFINE lost == (Len(sent) - unread + 1)..Len(sent)
  <2>1. IsFiniteSet(lost) /\ Cardinality(lost) = unread
    BY <1>1, <1>3, FS_Interval
  <2>2. IsFiniteSet(Whole')
    <3>1. Whole' \in SUBSET (1..Len(sent))
      BY Zenon, <1>1, <1>7 DEF Whole
    <3>2. IsFiniteSet(1..Len(sent))
      BY <1>1, FS_Interval
    <3> QED BY Zenon, <3>1, <3>2, FS_Subset
  <2>3. Whole \in SUBSET (Whole' \cup lost)
    <3>1. SUFFICES ASSUME NEW k \in Whole, k \notin lost PROVE k \in Whole'
      BY Zenon
    <3>2. k \in DOMAIN sent /\ sent[k].whole
      BY Zenon, <3>1 DEF Whole
    <3>3. k <= Len(sent) - unread
      BY <1>1, <1>3, <3>1, <3>2
    <3>4. sent'[k].whole /\ k \in DOMAIN sent'
      BY Zenon, <1>6, <1>7, <3>2, <3>3
    <3> QED BY Zenon, <3>4 DEF Whole
  <2> HIDE DEF lost
  <2>4. /\ IsFiniteSet(Whole' \cup lost)
        /\ Cardinality(Whole' \cup lost) = Cardinality(Whole') + Cardinality(lost) - Cardinality(Whole' \cap lost)
    BY Zenon, <2>1, <2>2, FS_Union
  <2>5. IsFiniteSet(Whole' \cap lost)
    BY Zenon, <2>1, <2>2, FS_Intersection
  <2>6. Cardinality(Whole' \cap lost) \in Nat /\ Cardinality(Whole') \in Nat
    BY Zenon, <2>2, <2>5, FS_CardinalityType
  <2>7. Cardinality(Whole) \in Nat /\ Cardinality(Whole) <= Cardinality(Whole' \cup lost)
    BY <2>3, <2>4, FS_Subset, FS_CardinalityType
  <2> QED BY <2>1, <2>4, <2>6, <2>7
<1> QED BY Zenon, <1>3, <1>4, <1>6, <1>7, <1>8

LEMMA TypeStep ==
  ASSUME ConnectionIInv, [ConnectionNext]_connectionVars
  PROVE  ConnectionTypeOK'
<1>0. /\ ConnectionTypeOK /\ LineAtHand /\ SocketInUse
      /\ queue \in Seq(LogLines) /\ sent \in Seq(Sendings)
  BY DEF ConnectionIInv, ConnectionTypeOK, Sendings
<1>1. CASE send_trade_log
  <2>1. logged' \in LogLines /\ logged' \in 0..MaxLines /\ charged' \in 0..MaxCharged
    BY <1>0, <1>1, ConnectionAssumption DEF send_trade_log, ConnectionTypeOK, Charge, LogLines
  <2>2. queue' \in Seq(LogLines) /\ Len(queue') <= Capacity
    <3>1. Append(queue, logged') \in Seq(LogLines) /\ Len(Append(queue, logged')) = Len(queue) + 1
      BY <1>0, <2>1, AppendFacts
    <3>2. Len(queue) \in Nat
      BY <1>0, LenProperties
    <3>3. \/ queue' = Append(queue, logged') /\ Len(queue) < Capacity
          \/ queue' = queue
      BY <1>1 DEF send_trade_log
    <3>4. Len(queue) <= Capacity /\ Capacity \in Nat
      BY <1>0, ConnectionAssumption DEF ConnectionTypeOK
    <3> QED BY <1>0, <3>1, <3>2, <3>3, <3>4
  <2> QED BY <1>0, <1>1, <2>1, <2>2 DEF send_trade_log, ConnectionTypeOK, sockets
<1>2. CASE Dequeue
  <2>1. queue' \in Seq(LogLines) /\ Len(queue') <= Capacity /\ line' \in LogLines \cup {NoLine}
    <3>1. CASE queue = << >>
      BY <1>0, <1>2, <3>1 DEF Dequeue, ConnectionTypeOK
    <3>2. CASE queue # << >>
      <4>1. queue' = Tail(queue) /\ line' = Head(queue)
        BY <1>2, <3>2 DEF Dequeue
      <4>2. Tail(queue) \in Seq(LogLines) /\ Head(queue) \in LogLines /\ Len(Tail(queue)) = Len(queue) - 1 /\ Len(queue) \in Nat
        BY <1>0, <3>2, TailFacts
      <4> QED BY <1>0, <4>1, <4>2, ConnectionAssumption DEF ConnectionTypeOK
    <3> QED BY <3>1, <3>2
  <2>2. thread' \in {"while", "ensure_connected"}
    BY <1>2 DEF Dequeue
  <2> QED BY <1>0, <1>2, <2>1, <2>2 DEF Dequeue, ConnectionTypeOK, sockets
<1>3. CASE Send
  <2>1. line \in LogLines
    BY <1>0, <1>3 DEF Send, LineAtHand, ConnectionTypeOK
  <2>2. PICK w \in BOOLEAN : sent' = Append(sent, [line |-> line, whole |-> w])
    BY <1>3, SentAppends
  <2>3. [line |-> line, whole |-> w] \in Sendings
    BY <2>1, <2>2 DEF Sendings
  <2>4. sent' \in Seq(Sendings)
    BY <1>0, <2>2, <2>3, AppendFacts
  <2>5. /\ charged' \in 0..MaxCharged /\ peer' \in {"up", "closed", "reset"}
        /\ cut' \in BOOLEAN /\ first' = first
    <3>1. /\ charged' \in {charged, charged + 1, charged + 2}
          /\ charged' = charged \/ charged' <= MaxCharged
          /\ peer' \in {peer, "reset"} /\ cut' \in {cut, TRUE, FALSE} /\ first' = first
      BY Zenon, <1>3 DEF Send, Charge
    <3>2. charged \in 0..MaxCharged /\ peer \in {"up", "closed", "reset"} /\ cut \in BOOLEAN
      BY <1>0 DEF ConnectionTypeOK
    <3>3. charged' \in 0..MaxCharged
      BY <3>1, <3>2, ConnectionAssumption
    <3>4. peer' \in {"up", "closed", "reset"} /\ cut' \in BOOLEAN
      BY Zenon, <3>1, <3>2
    <3> QED BY <3>1, <3>3, <3>4
  <2>6. first' \in 0..Len(sent')
    <3>1. Len(sent') = Len(sent) + 1 /\ Len(sent) \in Nat
      BY <1>0, <2>2, <2>3, AppendFacts
    <3>2. first \in 0..Len(sent)
      BY <1>0 DEF ConnectionTypeOK
    <3> QED BY <2>5, <3>1, <3>2
  <2> QED BY <1>0, <1>3, <2>4, <2>5, <2>6 DEF Send, ConnectionTypeOK, Sendings
<1>4. CASE NoSocket \/ ConnectFails \/ SendFails
  <2>1. charged' \in 0..MaxCharged
    BY <1>0, <1>4, ConnectionAssumption DEF NoSocket, ConnectFails, SendFails, ConnectionTypeOK, Charge
  <2>2. fds' \in Nat
    BY <1>0, <1>4 DEF NoSocket, ConnectFails, SendFails, ConnectionTypeOK, sockets, SocketInUse
  <2>3. /\ UNCHANGED <<queue, logged, stop_thread, joined, active, peer, sent, first, cut>>
        /\ thread' \in {"while", "reconnect"} /\ line' = NoLine /\ sock' \in {sock, FALSE}
    BY Zenon, <1>4 DEF NoSocket, ConnectFails, SendFails, sockets
  <2> QED BY Zenon, <1>0, <2>1, <2>2, <2>3 DEF ConnectionTypeOK
<1>5. CASE Stop \/ QueueWhile \/ Empty \/ EnsureConnected \/ BrokenPipe
  <2>1. UNCHANGED <<queue, logged, joined, line, sock, active, fds, peer, sent, first, cut, charged>>
    BY Zenon, <1>5 DEF Stop, QueueWhile, Empty, EnsureConnected, BrokenPipe, sockets, stream
  <2>2. /\ stop_thread' \in {stop_thread, TRUE}
        /\ thread' \in {thread, "empty?", "dequeue", "exited", "send", "connect", "killed"}
    BY Zenon, <1>5 DEF Stop, QueueWhile, Empty, EnsureConnected, BrokenPipe
  <2>3. stop_thread' \in BOOLEAN
    BY Zenon, <1>0, <2>2 DEF ConnectionTypeOK
  <2>4. thread' \in {"while", "empty?", "dequeue", "ensure_connected", "connect", "send",
                     "reconnect", "exited", "killed"}
    BY <1>0, <2>2 DEF ConnectionTypeOK
  <2> QED BY Zenon, <1>0, <2>1, <2>3, <2>4 DEF ConnectionTypeOK
<1>9. CASE Connects
  <2>1. first' \in 0..Len(sent') /\ cut' \in BOOLEAN
    <3>1. first' = Len(sent) /\ sent' = sent /\ cut' = FALSE
      BY Zenon, <1>9 DEF Connects
    <3>2. Len(sent) \in Nat
      BY <1>0, LenProperties
    <3>3. \A k \in Nat : k \in 0..k
      OBVIOUS
    <3> QED BY Zenon, <3>1, <3>2, <3>3
  <2>2. /\ UNCHANGED <<queue, logged, stop_thread, joined, line, sock, fds, sent, charged>>
        /\ thread' = "send" /\ active' = TRUE /\ peer' = "up"
    BY Zenon, <1>9 DEF Connects
  <2> QED BY Zenon, <1>0, <2>1, <2>2 DEF ConnectionTypeOK
<1>6. CASE Join \/ OpenSocket \/ Reconnect
  <2>1. fds' \in Nat
    BY <1>0, <1>6 DEF Join, OpenSocket, Reconnect, ConnectionTypeOK, SocketInUse
  <2> QED BY <1>0, <1>6, <2>1 DEF Join, OpenSocket, Reconnect, ConnectionTypeOK
<1>7. CASE PeerCloses
  <2>1. charged' \in 0..MaxCharged /\ sent' \in Seq(Sendings) /\ Len(sent') = Len(sent)
    BY Zenon, <1>7, PeerClosesFacts
  <2> QED BY <1>0, <1>7, <2>1 DEF PeerCloses, ConnectionTypeOK, Sendings
<1>8. CASE Ended \/ UNCHANGED connectionVars
  BY <1>0, <1>8 DEF Ended, connectionVars, sockets, ConnectionTypeOK
<1> QED
  BY <1>1, <1>2, <1>3, <1>4, <1>5, <1>6, <1>7, <1>8, <1>9 DEF ConnectionNext, ThreadStep

\* Lines move from the log to the queue, the thread and the database in order.
LEMMA OrderStep ==
  ASSUME ConnectionIInv, [ConnectionNext]_connectionVars
  PROVE  Ordered' /\ Logged'
<1>0. /\ ConnectionTypeOK /\ Ordered /\ Logged /\ LineAtHand
      /\ queue \in Seq(LogLines) /\ sent \in Seq(Sendings) /\ logged \in Nat
  BY DEF ConnectionIInv, ConnectionTypeOK, Sendings
<1>1. /\ \A i \in DOMAIN sent : sent[i].line \in Nat
      /\ \A j \in DOMAIN queue : queue[j] \in Nat
      /\ line \in Nat
  <2>1. DOMAIN sent = 1..Len(sent) /\ DOMAIN queue = 1..Len(queue)
    BY <1>0, LenProperties
  <2>2. \A i \in DOMAIN sent : sent[i] \in Sendings
    BY <1>0, <2>1, ElementOfSeq
  <2>3. \A j \in DOMAIN queue : queue[j] \in LogLines
    BY <1>0, <2>1, ElementOfSeq
  <2> QED BY <1>0, <2>2, <2>3 DEF Sendings, LogLines, ConnectionTypeOK, NoLine
<1>2. ASSUME Still PROVE Ordered' /\ Logged'
  BY <1>0, <1>2 DEF Still, Ordered, Logged
<1>3. ASSUME Forgets PROVE Ordered' /\ Logged'
  BY <1>0, <1>3 DEF Forgets, Ordered, Logged, NoLine
<1>4. CASE send_trade_log
  <2>1. logged' = logged + 1 /\ logged' \in LogLines /\ line' = line /\ sent' = sent
    BY <1>0, <1>4, ConnectionAssumption DEF send_trade_log, ConnectionTypeOK, LogLines
  <2>2. CASE queue' = Append(queue, logged')
    <3>1. /\ Len(queue) \in Nat /\ DOMAIN queue = 1..Len(queue) /\ DOMAIN queue' = 1..(Len(queue) + 1)
          /\ \A k \in DOMAIN queue : queue'[k] = queue[k]
          /\ queue'[Len(queue) + 1] = logged + 1
      BY <1>0, <2>1, <2>2, AppendFacts
    <3>2. \A k \in DOMAIN queue' : k \in DOMAIN queue \/ (k = Len(queue) + 1 /\ queue'[k] = logged + 1)
      BY <3>1
    <3>3. \A i, j \in DOMAIN queue' : i < j => i \in DOMAIN queue
      BY <3>1
    <3>4. \A i, j \in DOMAIN queue' : i < j => queue'[i] < queue'[j]
      BY <1>0, <1>1, <3>1, <3>2, <3>3 DEF Ordered, Logged
    <3>5. \A i \in DOMAIN sent, j \in DOMAIN queue' : sent[i].line < queue'[j]
      BY <1>0, <1>1, <3>1, <3>2 DEF Ordered, Logged
    <3>6. line # NoLine => \A j \in DOMAIN queue' : line < queue'[j]
      BY <1>0, <1>1, <3>1, <3>2 DEF Ordered, Logged
    <3>7. Ordered'
      BY <1>0, <2>1, <3>4, <3>5, <3>6 DEF Ordered
    <3>8. Logged'
      BY <1>0, <1>1, <2>1, <3>1, <3>2 DEF Logged
    <3> QED BY <3>7, <3>8
  <2>3. CASE queue' = queue
    BY <1>0, <1>1, <2>1, <2>3 DEF Ordered, Logged
  <2> QED BY <1>4, <2>2, <2>3 DEF send_trade_log
<1>5. CASE Dequeue
  <2>1. CASE queue = << >>
    <3>1. Still
      BY Zenon, <1>5, <2>1 DEF Dequeue, Still
    <3> QED BY <1>2, <3>1
  <2>2. CASE queue # << >>
    <3>1. line' = Head(queue) /\ queue' = Tail(queue) /\ UNCHANGED <<logged, sent>> /\ line = NoLine
      BY <1>0, <1>5, <2>2 DEF Dequeue, LineAtHand
    <3>2. /\ line' = queue[1] /\ 1 \in DOMAIN queue
          /\ \A k \in DOMAIN queue' : queue'[k] = queue[k + 1] /\ k + 1 \in DOMAIN queue /\ k \in Nat /\ 1 < k + 1
      BY <1>0, <2>2, <3>1, TailFacts
    <3>3. \A i, j \in DOMAIN queue' : i < j => queue'[i] < queue'[j]
      <4>1. \A i, j \in DOMAIN queue' : i < j => i + 1 < j + 1
        BY <3>2
      <4> QED BY <1>0, <3>2, <4>1 DEF Ordered
    <3>4. \A j \in DOMAIN queue' : line' < queue'[j]
      BY <1>0, <3>2 DEF Ordered
    <3>5. \A i \in DOMAIN sent : sent[i].line < line' /\ \A j \in DOMAIN queue' : sent[i].line < queue'[j]
      BY <1>0, <3>2 DEF Ordered
    <3>6. Logged'
      BY <1>0, <3>1, <3>2 DEF Logged
    <3> QED BY <1>0, <3>1, <3>3, <3>4, <3>5, <3>6 DEF Ordered
  <2> QED BY <2>1, <2>2
<1>6. CASE Send
  <2>1. line # NoLine /\ line \in LogLines /\ line' = NoLine /\ UNCHANGED <<logged, queue>>
    BY <1>0, <1>6 DEF Send, LineAtHand, ConnectionTypeOK
  <2>2. PICK w \in BOOLEAN : sent' = Append(sent, [line |-> line, whole |-> w])
    BY <1>6, SentAppends
  <2>3. [line |-> line, whole |-> w] \in Sendings
    BY <2>1, <2>2 DEF Sendings
  <2>4. /\ Len(sent) \in Nat /\ DOMAIN sent = 1..Len(sent) /\ DOMAIN sent' = 1..(Len(sent) + 1)
        /\ \A k \in DOMAIN sent : sent'[k] = sent[k]
        /\ sent'[Len(sent) + 1].line = line
    BY <1>0, <2>2, <2>3, AppendFacts
  <2>5. \A k \in DOMAIN sent' : \/ k \in DOMAIN sent /\ sent'[k].line = sent[k].line
                                \/ k = Len(sent) + 1 /\ sent'[k].line = line
    BY <2>4
  <2>6. \A i, j \in DOMAIN sent' : i < j => i \in DOMAIN sent
    BY <2>4
  <2>7. \A i, j \in DOMAIN sent' : i < j => sent'[i].line < sent'[j].line
    BY <1>0, <1>1, <2>1, <2>4, <2>5, <2>6 DEF Ordered
  <2>8. \A i \in DOMAIN sent', j \in DOMAIN queue : sent'[i].line < queue[j]
    BY <1>0, <2>1, <2>5 DEF Ordered
  <2>9. Logged'
    BY <1>0, <2>1, <2>5 DEF Logged, NoLine
  <2> QED BY <1>0, <2>1, <2>7, <2>8, <2>9 DEF Ordered
<1>7. CASE PeerCloses
  <2>1. /\ DOMAIN sent' = DOMAIN sent /\ \A k \in DOMAIN sent : sent'[k].line = sent[k].line
        /\ UNCHANGED <<queue, line, logged>>
    BY Zenon, <1>7, PeerClosesFacts DEF PeerCloses
  <2> QED BY <1>0, <2>1 DEF Ordered, Logged
<1> QED
  BY <1>2, <1>3, <1>4, <1>5, <1>6, <1>7, StillSteps, ForgettingSteps DEF ConnectionNext, ThreadStep

LEMMA SocketStep ==
  ASSUME ConnectionIInv, [ConnectionNext]_connectionVars
  PROVE  LineAtHand' /\ SocketInUse'
<1>0. ConnectionTypeOK /\ LineAtHand /\ SocketInUse
  BY DEF ConnectionIInv
<1>1. CASE send_trade_log \/ Stop
  BY <1>0, <1>1 DEF send_trade_log, Stop, LineAtHand, SocketInUse, sockets
<1>2. CASE Dequeue
  <2>1. queue # << >> => Head(queue) # NoLine
    <3>1. queue \in Seq(LogLines)
      BY <1>0 DEF ConnectionTypeOK
    <3>2. queue # << >> => Head(queue) \in LogLines
      BY <3>1, TailFacts
    <3> QED BY <3>2 DEF LogLines, NoLine
  <2> QED BY <1>0, <1>2, <2>1 DEF Dequeue, LineAtHand, SocketInUse, sockets
<1>3. CASE QueueWhile \/ Empty \/ EnsureConnected \/ BrokenPipe \/ Ended \/ UNCHANGED connectionVars
  BY <1>0, <1>3 DEF QueueWhile, Empty, EnsureConnected, BrokenPipe, Ended, connectionVars, LineAtHand, SocketInUse, sockets
<1>4. CASE NoSocket \/ OpenSocket \/ ConnectFails \/ Connects
  BY <1>0, <1>4 DEF NoSocket, OpenSocket, ConnectFails, Connects, LineAtHand, SocketInUse, sockets, ConnectionTypeOK
<1>5. CASE Send \/ SendFails
  BY <1>0, <1>5 DEF Send, SendFails, LineAtHand, SocketInUse, sockets
<1>6. CASE Reconnect \/ Join \/ PeerCloses
  BY <1>0, <1>6 DEF Reconnect, Join, PeerCloses, LineAtHand, SocketInUse, ConnectionTypeOK
<1> QED
  BY <1>1, <1>2, <1>3, <1>4, <1>5, <1>6 DEF ConnectionNext, ThreadStep

\* Whatever loses a line has been charged for it, or is charged for it now.
LEMMA LossStep ==
  ASSUME ConnectionIInv, [ConnectionNext]_connectionVars
  PROVE  LossesPaid'
<1> DEFINE n == Cardinality(Whole)
           m == Len(queue)
<1>0. /\ ConnectionTypeOK /\ LineAtHand /\ SocketInUse /\ LossesPaid
      /\ queue \in Seq(LogLines) /\ sent \in Seq(Sendings)
      /\ logged \in Nat /\ charged \in Nat /\ m \in Nat
  BY ConnectionAssumption, LenProperties DEF ConnectionIInv, ConnectionTypeOK, Sendings
<1>1. n \in Nat
  BY <1>0, WholeType
<1>2. sent' = sent => n' = n
  BY DEF Whole
<1> HIDE DEF n, m
<1>3. logged - (n + m + InHand) + Owed <= charged
  BY <1>0 DEF LossesPaid, n, m
<1>4. logged' - (n' + m' + InHand') + Owed' <= charged' => LossesPaid'
  BY DEF LossesPaid, n, m
<1>5. CASE send_trade_log
  <2>1. logged' = logged + 1 /\ n' = n /\ InHand' = InHand /\ Owed' = Owed
    BY <1>2, <1>5 DEF send_trade_log, InHand, Owed, sockets
  <2>2. \/ m' = m + 1 /\ charged' = charged
        \/ m' = m /\ charged' = charged + 1
    <3>1. logged' \in LogLines
      <4>1. logged' = logged + 1 /\ logged < MaxLines
        BY Zenon, <1>5 DEF send_trade_log
      <4> QED BY <1>0, <4>1, ConnectionAssumption DEF LogLines
    <3>2. Len(Append(queue, logged')) = Len(queue) + 1
      BY Zenon, <1>0, <3>1, AppendFacts
    <3>3. \/ queue' = Append(queue, logged') /\ charged' = charged
          \/ queue' = queue /\ charged' = charged + 1
      BY Zenon, <1>5 DEF send_trade_log, Charge
    <3> QED BY Zenon, <3>2, <3>3 DEF m
  <2>3. InHand \in {0, 1} /\ Owed \in {0, 1, 2}
    BY DEF InHand, Owed
  <2> QED BY <1>0, <1>1, <1>3, <1>4, <2>1, <2>2, <2>3
<1>6. CASE Dequeue
  <2>1. logged' = logged /\ n' = n /\ charged' = charged /\ Owed' = Owed /\ line = NoLine
    BY <1>0, <1>2, <1>6 DEF Dequeue, Owed, sockets, LineAtHand
  <2>2. CASE queue = << >>
    BY <1>3, <1>4, <1>6, <2>1, <2>2 DEF Dequeue, InHand, m
  <2>3. CASE queue # << >>
    <3>1. m' = m - 1 /\ line' # NoLine
      <4>1. queue' = Tail(queue) /\ line' = Head(queue)
        BY <1>6, <2>3 DEF Dequeue
      <4>2. Len(Tail(queue)) = Len(queue) - 1 /\ Head(queue) \in LogLines
        BY <1>0, <2>3, TailFacts
      <4> QED BY <4>1, <4>2 DEF m, LogLines, NoLine
    <3> QED BY <1>0, <1>1, <1>3, <1>4, <2>1, <3>1 DEF InHand, Owed
  <2> QED BY <2>2, <2>3
<1>7. CASE NoSocket \/ ConnectFails
  <2>1. /\ logged' = logged /\ n' = n /\ m' = m /\ charged' = charged + 1
        /\ line # NoLine /\ line' = NoLine /\ Owed' = 0 /\ Owed = 0
    BY <1>0, <1>2, <1>7 DEF NoSocket, ConnectFails, Owed, sockets, LineAtHand, SocketInUse, Charge, m
  <2> QED BY <1>0, <1>1, <1>3, <1>4, <2>1 DEF InHand
<1>8. CASE SendFails
  <2>1. /\ logged' = logged /\ n' = n /\ m' = m /\ line # NoLine /\ line' = NoLine /\ Owed' = 0
        /\ thread = "send" /\ active
    BY <1>0, <1>2, <1>8 DEF SendFails, Owed, LineAtHand, SocketInUse, m
  <2>2. CASE peer # "up"
    <3>1. Owed \in {1, 2} /\ charged' = charged
      BY <1>0, <1>8, <2>1, <2>2 DEF SendFails, Owed, ConnectionTypeOK
    <3> QED BY <1>0, <1>1, <1>3, <1>4, <2>1, <3>1 DEF InHand
  <2>3. CASE peer = "up"
    <3>1. charged' = charged + 1 /\ Owed \in Nat
      BY <1>8, <2>3 DEF SendFails, Charge, Owed
    <3> QED BY <1>0, <1>1, <1>3, <1>4, <2>1, <3>1 DEF InHand
  <2> QED BY <2>2, <2>3
<1>9. CASE Send
  <2>1. /\ logged' = logged /\ m' = m /\ line # NoLine /\ line \in LogLines /\ line' = NoLine
        /\ thread = "send" /\ active /\ active' /\ thread' = "while"
    BY <1>0, <1>9 DEF Send, LineAtHand, SocketInUse, ConnectionTypeOK, m
  <2>2. /\ sent' = Append(sent, [line |-> line, whole |-> TRUE]) => n' = n + 1
        /\ sent' = Append(sent, [line |-> line, whole |-> FALSE]) => n' = n
    <3>1. /\ [line |-> line, whole |-> TRUE] \in Sendings
          /\ [line |-> line, whole |-> FALSE] \in Sendings
      BY <2>1 DEF Sendings
    <3>2. n = Cardinality(Wholes(sent)) /\ n' = Cardinality(Wholes(sent'))
      BY DEF n, Whole, Wholes
    <3>3. \A x \in Sendings : sent' = Append(sent, x) => n' = n + (IF x.whole THEN 1 ELSE 0)
      BY <1>0, <3>2, WholesFacts
    <3> QED BY <1>1, <3>1, <3>3
  <2>3. \/ n' = n + 1 /\ charged' = charged /\ Owed = 0 /\ Owed' = 0
        \/ n' = n /\ charged' = charged /\ Owed = 1 /\ Owed' = 0
        \/ n' = n /\ charged' = charged + 2 /\ Owed \in {0, 1} /\ Owed' = 1
        \/ n' = n /\ charged' = charged /\ Owed = 2 /\ Owed' = 1
        \/ n' = n /\ charged' = charged + 1 /\ Owed = 2 /\ Owed' = 2
    <3>1. CASE peer = "up" /\ peer' = "up" /\ sent' = Append(sent, [line |-> line, whole |-> ~cut])
               /\ cut' = FALSE /\ charged' = charged
      <4>1. CASE cut
        <5>1. sent' = Append(sent, [line |-> line, whole |-> FALSE])
          <6>1. (~cut) = FALSE
            BY <4>1
          <6> QED BY Zenon, <3>1, <6>1
        <5>2. Owed = 1 /\ Owed' = 0
          BY <2>1, <3>1, <4>1 DEF Owed
        <5> QED BY Zenon, <2>2, <3>1, <5>1, <5>2
      <4>2. CASE ~cut
        <5>1. sent' = Append(sent, [line |-> line, whole |-> TRUE])
          <6>1. (~cut) = TRUE
            BY <4>2
          <6> QED BY Zenon, <3>1, <6>1
        <5>2. Owed = 0 /\ Owed' = 0
          BY <2>1, <3>1, <4>2 DEF Owed
        <5> QED BY Zenon, <2>2, <3>1, <5>1, <5>2
      <4> QED BY <4>1, <4>2
    <3>2. CASE peer = "up" /\ peer' = "up" /\ sent' = Append(sent, [line |-> line, whole |-> FALSE])
               /\ cut' = TRUE /\ charged' = charged + 2
      <4>1. Owed \in {0, 1} /\ Owed' = 1
        BY <2>1, <3>2 DEF Owed
      <4> QED BY Zenon, <2>2, <3>2, <4>1
    <3>3. CASE peer = "closed" /\ sent' = Append(sent, [line |-> line, whole |-> FALSE])
               /\ peer' = "reset" /\ charged' = charged
      <4>1. Owed = 2 /\ Owed' = 1
        BY <2>1, <3>3 DEF Owed
      <4> QED BY Zenon, <2>2, <3>3, <4>1
    <3>4. CASE peer = "closed" /\ sent' = Append(sent, [line |-> line, whole |-> FALSE])
               /\ peer' = "closed" /\ charged' = charged + 1
      <4>1. Owed = 2 /\ Owed' = 2
        BY <2>1, <3>4 DEF Owed
      <4> QED BY Zenon, <2>2, <3>4, <4>1
    <3> QED BY Zenon, <1>9, <3>1, <3>2, <3>3, <3>4 DEF Send, Charge
  <2> QED BY <1>0, <1>1, <1>3, <1>4, <2>1, <2>3 DEF InHand
<1>10. CASE PeerCloses
  <2>1. /\ logged' = logged /\ m' = m /\ InHand' = InHand
        /\ Owed \in Nat /\ Owed' \in {0, 2}
    BY <1>10 DEF PeerCloses, Owed, InHand, m
  <2>2. PICK unread \in Nat : charged' = charged + (unread + 2) /\ n <= n' + unread
    BY Zenon, <1>10, PeerClosesFacts, <1>0 DEF n
  <2>3. n' \in Nat
    <3>1. sent' \in Seq(Sendings)
      BY Zenon, <1>10, PeerClosesFacts
    <3>2. DOMAIN sent' = 1..Len(sent') /\ Len(sent') \in Nat
      BY <3>1, LenProperties
    <3>3. IsFiniteSet(1..Len(sent')) /\ Whole' \in SUBSET (1..Len(sent'))
      BY <3>2, FS_Interval DEF Whole
    <3> QED BY <3>3, FS_Subset, FS_CardinalityType DEF n
  <2>4. InHand \in {0, 1}
    BY DEF InHand
  <2>5. logged' - (n' + m' + InHand') + Owed' <= charged'
    <3>1. \A l, a, b, c, h, o, q, u, x \in Nat :
            l - (a + c + h) + o <= x /\ a <= b + u /\ q <= 2 => l - (b + c + h) + q <= x + (u + 2)
      OBVIOUS
    <3>2. Owed' \in Nat /\ Owed' <= 2 /\ InHand \in Nat
      BY <2>1, <2>4
    <3>3. logged - (n' + m + InHand) + Owed' <= charged + (unread + 2)
      BY <1>0, <1>1, <1>3, <2>1, <2>2, <2>3, <3>1, <3>2
    <3> QED BY Zenon, <2>1, <2>2, <3>3
  <2> QED BY <1>4, <2>5
<1>11. CASE Connects \/ Reconnect
  <2>1. logged' = logged /\ n' = n /\ m' = m /\ InHand' = InHand /\ charged' = charged /\ Owed' = 0
    BY <1>2, <1>11 DEF Connects, Reconnect, Owed, InHand, m
  <2> QED BY <1>0, <1>1, <1>3, <1>4, <2>1 DEF InHand, Owed
<1>12. CASE \/ Stop \/ Join \/ QueueWhile \/ Empty \/ EnsureConnected \/ OpenSocket \/ BrokenPipe
            \/ Ended \/ UNCHANGED connectionVars
  <2>1. logged' = logged /\ n' = n /\ m' = m /\ InHand' = InHand /\ charged' = charged
    BY <1>2, <1>12 DEF Stop, Join, QueueWhile, Empty, EnsureConnected, OpenSocket, BrokenPipe, Ended, connectionVars, InHand, m
  <2>2. Owed' = Owed
    BY <1>12 DEF Stop, Join, QueueWhile, Empty, EnsureConnected, OpenSocket, BrokenPipe, Ended, connectionVars, Owed, sockets
  <2> QED BY <1>3, <1>4, <2>1, <2>2
<1> QED
  BY <1>5, <1>6, <1>7, <1>8, <1>9, <1>10, <1>11, <1>12 DEF ConnectionNext, ThreadStep

(* The theorems *)

\* Lines are in order on their way, sockets are accounted for and losses paid
\* for, whatever the capacity of the queue and however many lines and charged.
THEOREM ConnectionInductive == ConnectionSpec => []ConnectionIInv
<1>1. ConnectionIInv /\ [ConnectionNext]_connectionVars => ConnectionIInv'
  BY TypeStep, OrderStep, SocketStep, LossStep DEF ConnectionIInv
<1> QED BY <1>1, ConnectionInitHolds, PTL DEF ConnectionSpec

\* The database sees no line twice and none before one that was logged earlier.
THEOREM AlwaysAtMostOnceInOrder == ConnectionSpec => []AtMostOnceInOrder
<1>1. ConnectionIInv => AtMostOnceInOrder
  <2> SUFFICES ASSUME ConnectionIInv PROVE AtMostOnceInOrder
    OBVIOUS
  <2> DEFINE a == [k \in DOMAIN sent |-> sent[k].line]
             b == IF line = NoLine THEN << >> ELSE <<line>>
             due == (a \o b) \o queue
             n == Len(sent)
             m == Len(b)
  <2>1. /\ queue \in Seq(LogLines) /\ sent \in Seq(Sendings) /\ line \in LogLines \cup {NoLine}
        /\ Ordered
    BY DEF ConnectionIInv, ConnectionTypeOK, Sendings
  <2>2. n \in Nat /\ DOMAIN sent = 1..n /\ DOMAIN queue = 1..Len(queue) /\ Len(queue) \in Nat
    BY <2>1, LenProperties
  <2>3. a \in Seq(LogLines) /\ Len(a) = n /\ \A k \in 1..n : a[k] = sent[k].line
    <3>1. \A k \in DOMAIN sent : sent[k] \in Sendings
      BY <2>1, <2>2, ElementOfSeq
    <3>2. a \in [1..n -> LogLines]
      BY <2>2, <3>1 DEF Sendings
    <3> QED BY <2>2, <3>2, FunctionIsSequence
  <2>4. /\ b \in Seq(LogLines) /\ m \in 0..1
        /\ m = 1 => line # NoLine /\ b[1] = line
    <3>1. CASE line = NoLine
      BY <3>1, EmptySeq
    <3>2. CASE line # NoLine
      BY <2>1, <3>2
    <3> QED BY <3>1, <3>2
  <2> HIDE DEF a, b, n, m
  <2>5. /\ a \o b \in Seq(LogLines) /\ Len(a \o b) = n + m
        /\ \A k \in 1..(n + m) : (a \o b)[k] = IF k <= n THEN a[k] ELSE b[k - n]
    BY <2>3, <2>4, ConcatProperties DEF m
  <2>6. /\ due \in Seq(LogLines) /\ Len(due) = n + m + Len(queue)
        /\ \A k \in 1..(n + m + Len(queue)) :
             due[k] = IF k <= n + m THEN (a \o b)[k] ELSE queue[k - (n + m)]
    BY <2>1, <2>5, ConcatProperties
  <2>7. DOMAIN due = 1..(n + m + Len(queue))
    BY <2>6, LenProperties
  <2> HIDE DEF due
  <2>8. \A k \in DOMAIN due :
          \/ k \in DOMAIN sent /\ due[k] = sent[k].line
          \/ k = n + 1 /\ line # NoLine /\ due[k] = line
          \/ k > n + m /\ k - (n + m) \in DOMAIN queue /\ due[k] = queue[k - (n + m)]
    <3> SUFFICES ASSUME NEW k \in DOMAIN due
                 PROVE  \/ k \in DOMAIN sent /\ due[k] = sent[k].line
                        \/ k = n + 1 /\ line # NoLine /\ due[k] = line
                        \/ k > n + m /\ k - (n + m) \in DOMAIN queue /\ due[k] = queue[k - (n + m)]
      OBVIOUS
    <3>1. CASE k <= n
      <4>1. k \in 1..n /\ k \in 1..(n + m) /\ k <= n + m
        BY <2>2, <2>4, <2>7, <3>1
      <4>2. due[k] = a[k]
        BY <2>5, <2>6, <2>7, <3>1, <4>1
      <4> QED BY <2>2, <2>3, <4>1, <4>2
    <3>2. CASE k > n /\ k <= n + m
      <4>1. k = n + 1 /\ m = 1 /\ k - n = 1 /\ k \in 1..(n + m) /\ ~(k <= n)
        BY <2>2, <2>4, <2>7, <3>2
      <4>2. due[k] = b[k - n]
        BY <2>5, <2>6, <2>7, <3>2, <4>1
      <4> QED BY <2>4, <4>1, <4>2
    <3>3. CASE k > n + m
      <4>1. k - (n + m) \in DOMAIN queue /\ ~(k <= n + m)
        BY <2>2, <2>4, <2>7, <3>3
      <4>2. due[k] = queue[k - (n + m)]
        BY <2>6, <2>7, <4>1
      <4> QED BY <3>3, <4>1, <4>2
    <3> QED BY <2>2, <2>4, <2>7, <3>1, <3>2, <3>3
  <2>9. \A i, j \in DOMAIN due : i < j => due[i] < due[j]
    BY <2>1, <2>2, <2>4, <2>7, <2>8 DEF Ordered
  <2> QED BY <2>9 DEF AtMostOnceInOrder, due, a, b
<1> QED BY <1>1, ConnectionInductive, PTL

\* No failure costs more than the line at hand, nor a closing peer more than two.
THEOREM FaultsAlwaysBoundLosses == ConnectionSpec => []FaultsBoundLosses
<1>1. ConnectionIInv => FaultsBoundLosses
  <2> SUFFICES ASSUME ConnectionIInv PROVE FaultsBoundLosses
    OBVIOUS
  <2>1. /\ logged \in Int /\ charged \in Int
        /\ queue \in Seq(LogLines) /\ sent \in Seq(Sendings)
    BY DEF ConnectionIInv, ConnectionTypeOK, Sendings
  <2>2. Len(queue) \in Nat /\ Cardinality(Whole) \in Nat
    BY <2>1, LenProperties, WholeType
  <2> QED BY <2>1, <2>2 DEF ConnectionIInv, LossesPaid, Owed, FaultsBoundLosses, InHand
<1> QED BY <1>1, ConnectionInductive, PTL

\* A socket is open exactly while sock_ names it, and none once the Connection
\* is destroyed.
THEOREM NoSocketEverLeaks == ConnectionSpec => []NoSocketLeak
<1>1. ConnectionIInv => NoSocketLeak
  BY DEF ConnectionIInv, SocketInUse, NoSocketLeak
<1> QED BY <1>1, ConnectionInductive, PTL
=============================================================================
