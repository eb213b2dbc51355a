--------------------- MODULE ConcurrentBacktesterProofs ---------------------
(***************************************************************************)
(* The concurrent backtester, for every number of instruments, files,      *)
(* starts and stops: its four safety properties, from an invariant about   *)
(* each Backtester and the place of its task (Sound), the threads that     *)
(* move it (Threads), and the connections they draw (Drawn).               *)
(*                                                                         *)
(* First the lemmas on times and paces, then the invariant, then what each *)
(* operator of Backtester leaves as it was, then each step of a task from  *)
(* its place to the next, and last the interleaving of the steps.          *)
(***************************************************************************)
EXTENDS ConcurrentBacktester, WellFoundedInduction, FiniteSetTheorems,
        SequenceTheorems, TLAPS

\* Some numbers have a least one.
LEMMA MinOfPart ==
  ASSUME NEW S, S \subseteq Nat, S # {}
  PROVE  /\ Min(S) \in S
         /\ \A x \in S : Min(S) <= x
<1>1. PICK m \in S : \A e \in S : ~(<<e, m>> \in OpToRel(<, Nat))
  BY NatLessThanWellFounded, WFMin, Zenon
<1>2. \A x \in S : ~(x < m)
  BY <1>1 DEF OpToRel
<1>3. \A x \in S : m <= x
  BY <1>2
<1>4. Min(S) \in S /\ \A x \in S : Min(S) <= x
  BY <1>3 DEF Min
<1> QED BY <1>4

\* Some of the numbers up to n have a largest one.
LEMMA MaxOfPart ==
  ASSUME NEW n \in Nat, NEW S, S \subseteq 1..n, S # {}
  PROVE  /\ Max(S) \in S
         /\ \A x \in S : x <= Max(S)
<1> DEFINE D == {n - x : x \in S}
<1>1. \A x \in S : n - x \in D /\ n - x \in Nat
  OBVIOUS
<1>2. D \subseteq Nat /\ D # {}
  BY <1>1
<1>3. PICK m \in S : Min(D) = n - m
  <2>1. Min(D) \in D
    BY <1>2, MinOfPart
  <2> QED BY <2>1
<1>4. \A x \in S : n - m <= n - x
  <2> HIDE DEF D
  <2> QED BY <1>1, <1>2, <1>3, MinOfPart
<1>5. \A x \in S : m >= x
  BY <1>4
<1>6. Max(S) \in S /\ \A x \in S : Max(S) >= x
  BY <1>5 DEF Max
<1> QED BY <1>6

\* Before the first message the clock stands at 0.
LEMMA TimeAtZero ==
  ASSUME NEW b, NEW msgs
  PROVE  TimeAt(b, msgs, 0) = 0
<1>1. {j \in 1..0 : msgs[j] # Filtered} = {}
  OBVIOUS
<1> QED BY <1>1 DEF TimeAt

\* A time is a number.
LEMMA TimeAtType ==
  ASSUME NEW b, NEW msgs \in Seq(Nat), NEW k \in 0..Len(msgs)
  PROVE  TimeAt(b, msgs, k) \in Nat
<1> DEFINE timed == {j \in 1..k : msgs[j] # Filtered}
<1>1. CASE timed = {} \/ ~b.clock_runs
  BY <1>1 DEF TimeAt
<1>2. CASE ~(timed = {} \/ ~b.clock_runs)
  <2>1. Max(timed) \in timed
    <3>1. timed \subseteq 1..k /\ timed # {} /\ k \in Nat
      BY <1>2
    <3> HIDE DEF timed
    <3> QED BY <3>1, MaxOfPart
  <2>2. TimeAt(b, msgs, k) = msgs[Max(timed)]
    BY <1>2 DEF TimeAt
  <2> HIDE DEF timed
  <2>3. Max(timed) \in 1..Len(msgs)
    BY <2>1 DEF timed
  <2> QED BY <2>2, <2>3
<1> QED BY <1>1, <1>2

\* Each message moves the clock as get_formatted_time_fast reads it.
LEMMA TimeAtNext ==
  ASSUME NEW b, NEW msgs, NEW k \in Nat
  PROVE  TimeAt(b, msgs, k + 1) = Clock(b, TimeAt(b, msgs, k), msgs[k + 1])
<1> DEFINE timed == {j \in 1..k : msgs[j] # Filtered}
           more  == {j \in 1..(k + 1) : msgs[j] # Filtered}
<1>1. CASE msgs[k + 1] = Filtered
  <2>1. more = timed
    BY <1>1
  <2> QED BY <1>1, <2>1 DEF TimeAt, Clock
<1>2. CASE msgs[k + 1] # Filtered
  <2>1. k + 1 \in more /\ more \subseteq 1..(k + 1) /\ more # {} /\ k + 1 \in Nat
    BY <1>2
  <2>2. Max(more) \in more /\ \A x \in more : x <= Max(more)
    <3> HIDE DEF more
    <3> QED BY <2>1, MaxOfPart
  <2>3. Max(more) = k + 1
    <3> HIDE DEF more
    <3>1. Max(more) \in 1..(k + 1) /\ k + 1 <= Max(more)
      BY <2>1, <2>2
    <3>2. \A m \in 1..(k + 1) : k + 1 <= m => m = k + 1
      OBVIOUS
    <3> QED BY <3>1, <3>2
  <2>4. TimeAt(b, msgs, k + 1) = IF ~b.clock_runs THEN 0 ELSE msgs[k + 1]
    BY <2>1, <2>3 DEF TimeAt
  <2>5. ~b.clock_runs => TimeAt(b, msgs, k) = 0
    BY DEF TimeAt
  <2> QED BY <1>2, <2>4, <2>5 DEF Clock
<1> QED BY <1>1, <1>2

\* The time at a message depends on the messages up to it.
LEMMA TimeAtSame ==
  ASSUME NEW b, NEW c, c.clock_runs = b.clock_runs,
         NEW msgs, NEW more, NEW k \in Nat, \A j \in 1..k : more[j] = msgs[j]
  PROVE  TimeAt(c, more, k) = TimeAt(b, msgs, k)
<1> DEFINE timed == {j \in 1..k : msgs[j] # Filtered}
<1>1. timed = {j \in 1..k : more[j] # Filtered}
  OBVIOUS
<1>2. timed # {} => Max(timed) \in 1..k
  <2>1. timed \subseteq 1..k
    OBVIOUS
  <2> HIDE DEF timed
  <2> QED BY <2>1, MaxOfPart
<1>3. timed # {} => more[Max(timed)] = msgs[Max(timed)]
  BY <1>2
<1> QED BY <1>1, <1>3 DEF TimeAt

\* The places of a run whose time is in the window.
Within(b, msgs, from, to) ==
  {k \in (from + 1)..to : TimeAt(b, msgs, k) >= b.start_time}

\* prev_seconds is the latest of these times, and 0 before there is any.
Paced(b, msgs, from, to, prev) ==
  /\ Within(b, msgs, from, to) = {} => prev = 0
  /\ \A j \in Within(b, msgs, from, to) : TimeAt(b, msgs, j) <= prev
  /\ Within(b, msgs, from, to) # {} =>
       \E j \in Within(b, msgs, from, to) : TimeAt(b, msgs, j) = prev

\* One more message is an update exactly when it is due, and leaves prev_seconds
\* the latest time: whichever loop it is.
KeepsPace(b, msgs, from, to, prev) ==
  LET clock == TimeAt(b, msgs, to + 1)
      due   == Due(b, clock, prev)
  IN  /\ Paced(b, msgs, from, to + 1, IF due THEN clock ELSE Armed(b, clock, prev))
      /\ NewSeconds(b, msgs, from, to + 1) =
           IF due THEN NewSeconds(b, msgs, from, to) \cup {to + 1}
           ELSE NewSeconds(b, msgs, from, to)

\* Whichever loop it is: the window may begin late, and times may go back.
LEMMA Pace ==
  ASSUME NEW b, b.start_time \in Nat, NEW msgs \in Seq(Nat),
         NEW from \in Nat, NEW to \in Nat, from <= to, to < Len(msgs),
         NEW prev, Paced(b, msgs, from, to, prev),
         Within(b, msgs, from, to) # {} => b.start_time > 0
  PROVE  KeepsPace(b, msgs, from, to, prev)
<1> DEFINE clock == TimeAt(b, msgs, to + 1)
           now   == IF Due(b, clock, prev) THEN clock ELSE Armed(b, clock, prev)
<1> DEFINE T(k) == TimeAt(b, msgs, k)
           W == Within(b, msgs, from, to)
           X == Within(b, msgs, from, to + 1)
<1>1. \A k \in (from + 1)..(to + 1) : T(k) \in Nat
  BY TimeAtType
<1>2. clock \in Nat /\ clock = T(to + 1)
  BY <1>1
<1>3. W \subseteq (from + 1)..to /\ X = IF clock >= b.start_time THEN W \cup {to + 1} ELSE W
  <2>1. /\ W = {k \in (from + 1)..to : T(k) >= b.start_time}
        /\ X = {k \in (from + 1)..(to + 1) : T(k) >= b.start_time}
    BY Zenon DEF Within
  <2>2. \A k : k \in (from + 1)..(to + 1) <=> k \in (from + 1)..to \/ k = to + 1
    OBVIOUS
  <2> HIDE DEF T, W, X, clock
  <2> QED BY <1>2, <2>1, <2>2
<1>4. /\ NewSeconds(b, msgs, from, to) =
           {k \in W : (\E j \in W : j < k) /\ \A j \in W : j < k => T(j) < T(k)}
      /\ NewSeconds(b, msgs, from, to + 1) =
           {k \in X : (\E j \in X : j < k) /\ \A j \in X : j < k => T(j) < T(k)}
  BY DEF NewSeconds, Within
<1>5. /\ W = {} => prev = 0
      /\ \A j \in W : T(j) <= prev
      /\ W # {} => \E j \in W : T(j) = prev
      /\ W # {} => b.start_time > 0
  BY DEF Paced
<1>6. \A j \in W : T(j) \in Nat /\ T(j) >= b.start_time /\ j < to + 1 /\ j \in Nat
  BY <1>1 DEF Within
<1>7. prev \in Nat /\ (W # {} => prev # 0)
  BY <1>5, <1>6
<1>8. SUFFICES /\ X = {} => now = 0
               /\ \A j \in X : T(j) <= now
               /\ X # {} => \E j \in X : T(j) = now
               /\ NewSeconds(b, msgs, from, to + 1) =
                    IF Due(b, clock, prev) THEN NewSeconds(b, msgs, from, to) \cup {to + 1}
                    ELSE NewSeconds(b, msgs, from, to)
  BY DEF Paced, KeepsPace
<1>n. now = IF Due(b, clock, prev) THEN clock ELSE Armed(b, clock, prev)
  OBVIOUS
<1> HIDE DEF T, W, X, clock, now
<1>9. CASE ~(clock >= b.start_time)
  <2>1. X = W /\ now = prev /\ ~Due(b, clock, prev)
    BY <1>n, <1>3, <1>9 DEF Due, Armed
  <2> QED BY <1>4, <1>5, <2>1
<1>10. CASE clock >= b.start_time /\ W = {}
  <2>1. prev = 0 /\ Armed(b, clock, prev) = clock
    BY <1>5, <1>10 DEF Armed
  <2>2. ~Due(b, clock, prev) /\ now = clock
    BY <1>n, <1>2, <2>1 DEF Due
  <2>3. X = {to + 1}
    BY <1>3, <1>10
  <2> QED BY <1>2, <1>4, <1>10, <2>2, <2>3
<1>11. CASE clock >= b.start_time /\ W # {}
  <2>1. Armed(b, clock, prev) = prev
    BY <1>7, <1>11 DEF Armed
  <2>2. Due(b, clock, prev) <=> clock > prev
    BY <1>2, <1>7, <1>11, <2>1 DEF Due
  <2>3. X = W \cup {to + 1} /\ T(to + 1) = clock
    BY <1>2, <1>3, <1>11
  <2>4. /\ \A k \in W : (\E j \in X : j < k) <=> (\E j \in W : j < k)
        /\ \A k \in W : (\A j \in X : j < k => T(j) < T(k)) <=> (\A j \in W : j < k => T(j) < T(k))
    BY <1>6, <2>3
  <2>5. \E j \in X : j < to + 1
    BY <1>6, <1>11, <2>3
  <2>6. CASE clock > prev
    <3>1. now = clock
      BY <1>n, <2>2, <2>6
    <3>2. \A j \in W : T(j) < T(to + 1)
      BY <1>2, <1>5, <1>6, <1>7, <2>6
    <3>3. \A j \in X : j < to + 1 => T(j) < T(to + 1)
      BY <2>3, <3>2
    <3>4. NewSeconds(b, msgs, from, to + 1) = NewSeconds(b, msgs, from, to) \cup {to + 1}
      BY <1>4, <2>3, <2>4, <2>5, <3>3
    <3>5. \A j \in X : T(j) <= now
      BY <1>2, <1>6, <2>3, <3>1, <3>2
    <3> QED BY <2>2, <2>3, <2>6, <3>1, <3>4, <3>5
  <2>7. CASE ~(clock > prev)
    <3>1. now = prev /\ ~Due(b, clock, prev)
      BY <1>n, <2>1, <2>2, <2>7
    <3>2. PICK j \in W : T(j) = prev
      BY <1>5, <1>11
    <3>3. j \in X /\ j < to + 1 /\ ~(T(j) < T(to + 1))
      BY <1>2, <1>6, <1>7, <2>3, <2>7, <3>2
    <3>6. ~(\A x \in X : x < to + 1 => T(x) < T(to + 1))
      BY <3>3
    <3>7. to + 1 \notin NewSeconds(b, msgs, from, to + 1)
      BY <1>4, <3>6
    <3>8. \A k \in W : k \in NewSeconds(b, msgs, from, to + 1) <=> k \in NewSeconds(b, msgs, from, to)
      BY <1>4, <2>3, <2>4
    <3>4. NewSeconds(b, msgs, from, to + 1) = NewSeconds(b, msgs, from, to)
      BY <1>4, <2>3, <3>7, <3>8
    <3>5. \A x \in X : T(x) <= now
      BY <1>2, <1>5, <1>7, <2>3, <2>7, <3>1
    <3> QED BY <2>3, <3>1, <3>2, <3>3, <3>4, <3>5
  <2> QED BY <2>6, <2>7
<1> QED BY <1>9, <1>10, <1>11

\* What a run has seen depends on its times and on its window alone.
LEMMA SamePace ==
  ASSUME NEW b, NEW c, c.start_time = b.start_time, NEW msgs, NEW more,
         NEW from, NEW to,
         \A k \in (from + 1)..to : TimeAt(c, more, k) = TimeAt(b, msgs, k)
  PROVE  /\ Within(c, more, from, to) = Within(b, msgs, from, to)
         /\ NewSeconds(c, more, from, to) = NewSeconds(b, msgs, from, to)
         /\ \A prev : Paced(b, msgs, from, to, prev) => Paced(c, more, from, to, prev)
<1>1. Within(c, more, from, to) = Within(b, msgs, from, to)
  BY DEF Within
<1>2. \A k \in Within(b, msgs, from, to) : TimeAt(c, more, k) = TimeAt(b, msgs, k)
  BY DEF Within
<1>3. /\ NewSeconds(b, msgs, from, to) =
           {k \in Within(b, msgs, from, to) :
              /\ \E j \in Within(b, msgs, from, to) : j < k
              /\ \A j \in Within(b, msgs, from, to) : j < k => TimeAt(b, msgs, j) < TimeAt(b, msgs, k)}
      /\ NewSeconds(c, more, from, to) =
           {k \in Within(c, more, from, to) :
              /\ \E j \in Within(c, more, from, to) : j < k
              /\ \A j \in Within(c, more, from, to) : j < k => TimeAt(c, more, j) < TimeAt(c, more, k)}
  BY DEF NewSeconds, Within
<1>4. NewSeconds(c, more, from, to) = NewSeconds(b, msgs, from, to)
  BY <1>1, <1>2, <1>3
<1> QED BY <1>1, <1>2, <1>4 DEF Paced

-----------------------------------------------------------------------------
(* The invariant.  Its parts about one instrument are stated of its          *)
(* Backtester b and of the place p of its task.                              *)

Backtesters ==
  [messages : Seq(Nat), train_messages : Seq(Nat), file_named : BOOLEAN,
   clock_runs : BOOLEAN, running : BOOLEAN, index : Nat, prev_seconds : Nat,
   late : Nat, start_time : Nat, end_time : Nat, clock : Nat, train_clock : Nat,
   train_index : Nat, train_voi : Nat, voi_history : Nat, voi_history_curr : Nat,
   strategy : {"none", "imbalance", "linear"}, fitted : BOOLEAN,
   position : -max_pos..max_pos, given : Seq(Nat), before : Nat, updates : SUBSET Nat]

Ready   == {"train", "start", "enter", "while", "body", "exit"}
Looping == {"while", "body", "exit"}
Places  == {"none", "create", "failed", "stuck", "prepare", "done"} \cup Ready

\* Well typed, and every place that was given is one of a message.
Typed(b) ==
  /\ b \in Backtesters
  /\ b.index <= Len(b.messages) /\ b.before <= Len(b.given)
  /\ \A k \in DOMAIN b.given : b.given[k] \in 1..Len(b.messages)

\* The trading times are set before any message is looked at.
TimesSet(b) ==
  /\ b.start_time = IF b.file_named THEN Start ELSE Unset
  /\ b.end_time = IF b.file_named THEN End ELSE Unset
Timed(b, p) == TimesSet(b) \/ (b.file_named /\ p \notin Ready /\ b.given = << >>)

\* Between its creation and its first message the strategy has no position.
Holds(b, p) ==
  /\ p \in Ready \cup {"prepare"} => b.strategy = kind
  /\ p \in {"prepare", "train", "start", "enter"} => b.position = 0

\* running_ is set only while the loop runs, and cleared only by a stop.
Stoppable(b, p) ==
  /\ b.running => p \in Looping /\ b.late = 0
  /\ p = "body" => b.late = 0
  /\ b.late <= 1
  /\ p \in {"while", "body"} /\ stops = 0 => b.running

\* The clock is the time of the last message given, and the index is next to its
\* place, or at it if it ended a session.
Advances(b) ==
  /\ b.clock = TimeAt(b, Given(b), Len(b.given))
  /\ IF b.given = << >> THEN b.index = 0
     ELSE b.index = b.given[Len(b.given)] - IF Ends(b, Len(b.given)) THEN 1 ELSE 0
  /\ \A k \in DOMAIN b.given : IF k = 1 THEN b.given[k] = 1
       ELSE b.given[k] = b.given[k - 1] + IF Ends(b, k - 1) THEN 0 ELSE 1

\* The loop ends with the session, and the session with the position.
InSession(b, p) ==
  /\ p = "body" => b.index < Len(b.messages)
  /\ p \in {"while", "body"} => \A k \in InRun(b) : ~Ends(b, k)
  /\ b.position # 0 => b.updates # {} /\ \A k \in InRun(b) : ~Ends(b, k)
  /\ p \in {"exit", "done"} /\ stops = 0 /\ main = "waiting" =>
       b.index = Len(b.messages) \/ Ends(b, Len(b.given))

\* What the loop has done so far is what the times of its messages ask for.
Paces(b, p) ==
  /\ p \in Looping => b.updates = NewSeconds(b, Given(b), b.before, Len(b.given))
  /\ p \in {"while", "body"} => Paced(b, Given(b), b.before, Len(b.given), b.prev_seconds)

\* The samples that the training of a first run is to collect.
Samples(b) ==
  LET n    == Len(b.train_messages)
      over == {k \in 1..n : TimeAt(b, b.train_messages, k) >= b.end_time}
  IN  NewSeconds(b, b.train_messages, 0, IF over = {} THEN n ELSE Min(over))

\* The same for the training loop of a first run.
Trains(b, p) ==
  /\ p = "train" => b.train_index <= Len(b.train_messages)
  /\ starts = 0 \/ (starts = 1 /\ p \in {"create", "prepare"}) =>
       b.train_clock = 0 /\ b.train_voi = 0
  /\ p = "train" /\ starts = 1 =>
       /\ b.train_clock = TimeAt(b, b.train_messages, b.train_index)
       /\ b.train_voi = Cardinality(NewSeconds(b, b.train_messages, 0, b.train_index))
       /\ Paced(b, b.train_messages, 0, b.train_index, b.prev_seconds)
       /\ \A k \in 1..(b.train_index - 1) : TimeAt(b, b.train_messages, k) < b.end_time
  /\ p \in Ready \ {"train"} /\ kind = "linear" /\ starts = 1 =>
       b.voi_history = Cardinality(Samples(b))

Sound(b, p) ==
  /\ Typed(b) /\ Timed(b, p) /\ Holds(b, p) /\ Stoppable(b, p)
  /\ Advances(b) /\ InSession(b, p) /\ Paces(b, p) /\ Trains(b, p)

\* The threads: tasks run only while the owner waits for them, and a stop is in
\* progress only if one was called or the destructor makes it.
Threads ==
  /\ Added \subseteq Instruments /\ bt = [i \in Added |-> bt[i]]
  /\ pc \in [Instruments -> Places]
  /\ main \in {"setup", "waiting", "idle", "destroying", "destroyed", "crashed"}
  /\ kind \in Kinds /\ free \in 0..Connections
  /\ starts \in Nat /\ stops \in Nat /\ stopping \subseteq Added
  /\ (main = "setup") <=> (starts = 0)
  /\ main = "setup" => \A i \in Instruments : pc[i] = "none"
  /\ main \notin {"waiting", "crashed"} =>
       \A i \in Instruments : pc[i] \in {"none", "done", "failed"}
  /\ stopping # {} => stops > 0 \/ main = "destroying"

\* The pool has lost no more connections than strategies were made.
Made  == {i \in Added : pc[i] \notin {"none", "create", "stuck"}}
Drawn ==
  /\ starts = 0 => free = Connections
  /\ starts > 0 => Connections - free <= Cardinality(Added) * (starts - 1) + Cardinality(Made)
  /\ \A i \in Instruments : pc[i] # "none" /\ starts > 0 => i \in Added
  /\ Hangs => free = 0

IInv == Threads /\ Drawn /\ \A i \in Added : Sound(bt[i], pc[i])
-----------------------------------------------------------------------------
(* What the operators of Backtester do to the members of a record. *)

\* The members that the meaning of what was given rests on.
SameFeed(b, c) ==
  /\ c.messages = b.messages /\ c.train_messages = b.train_messages
  /\ c.file_named = b.file_named /\ c.clock_runs = b.clock_runs
  /\ c.given = b.given /\ c.clock = b.clock /\ c.index = b.index

\* The members that the replay writes, but for its prev_seconds.
SameRun(b, c) ==
  /\ c.running = b.running /\ c.late = b.late /\ c.before = b.before
  /\ c.updates = b.updates /\ c.voi_history_curr = b.voi_history_curr

SameTimes(b, c) == c.start_time = b.start_time /\ c.end_time = b.end_time

SameTraining(b, c) ==
  /\ c.train_clock = b.train_clock /\ c.train_index = b.train_index
  /\ c.train_voi = b.train_voi /\ c.voi_history = b.voi_history

SameStrategy(b, c) ==
  c.strategy = b.strategy /\ c.fitted = b.fitted /\ c.position = b.position

\* A record of another module's operator is still a Backtester.
LEMMA WithoutStrategyFields ==
  ASSUME NEW b \in Backtesters, NEW c, c = WithoutStrategy(b)
  PROVE  /\ c \in Backtesters /\ SameFeed(b, c) /\ SameRun(b, c)
         /\ SameTimes(b, c) /\ SameTraining(b, c)
         /\ c.prev_seconds = b.prev_seconds /\ c.position = 0 /\ c.strategy = "none"
<1>1. 0 \in -max_pos..max_pos
  BY BacktesterAssumption DEF BacktesterAssumption
<1> QED BY <1>1 DEF WithoutStrategy, Backtesters, SameFeed, SameRun, SameTimes, SameTraining

\* A new strategy: no position, and nothing of the replay changes.
LEMMA CreateFields ==
  ASSUME NEW b \in Backtesters, NEW k \in {"imbalance", "linear"},
         NEW c, c = create_strategy(b, k)
  PROVE  /\ c \in Backtesters /\ SameFeed(b, c) /\ SameRun(b, c)
         /\ SameTimes(b, c) /\ SameTraining(b, c)
         /\ c.prev_seconds = b.prev_seconds /\ c.position = 0 /\ c.strategy = k
<1> DEFINE w == WithoutStrategy(b)
<1>1. /\ w \in Backtesters /\ SameFeed(b, w) /\ SameRun(b, w)
      /\ SameTimes(b, w) /\ SameTraining(b, w)
      /\ w.prev_seconds = b.prev_seconds /\ w.position = 0
  BY WithoutStrategyFields
<1>2. c = [w EXCEPT !.strategy = k]
  BY DEF create_strategy
<1> HIDE DEF w
<1>3. c \in Backtesters
  BY <1>1, <1>2 DEF Backtesters
<1>5. SameFeed(b, c) /\ SameRun(b, c)
  BY <1>1, <1>2 DEF Backtesters, SameFeed, SameRun
<1>4. /\ SameTimes(b, c) /\ SameTraining(b, c)
      /\ c.prev_seconds = b.prev_seconds /\ c.position = 0 /\ c.strategy = k
  BY <1>1, <1>2 DEF Backtesters, SameTimes, SameTraining
<1> QED BY <1>3, <1>4, <1>5

\* The trading times are written, and nothing else.
LEMMA TimesFields ==
  ASSUME NEW b \in Backtesters, NEW c, c = set_trading_times(b)
  PROVE  /\ c \in Backtesters /\ SameFeed(b, c) /\ SameRun(b, c)
         /\ SameTraining(b, c) /\ SameStrategy(b, c)
         /\ c.prev_seconds = b.prev_seconds
         /\ c.start_time = IF b.file_named THEN Start ELSE b.start_time
         /\ c.end_time = IF b.file_named THEN End ELSE b.end_time
<1>1. Start \in Nat /\ End \in Nat
  BY BacktesterAssumption DEF BacktesterAssumption
<1> QED BY <1>1 DEF set_trading_times, Backtesters, SameFeed, SameRun, SameTraining, SameStrategy

\* The training begins anew, but its book and its samples stay.
LEMMA EnterTrainingFields ==
  ASSUME NEW b \in Backtesters, NEW c, c = EnterTraining(b)
  PROVE  /\ c \in Backtesters /\ SameFeed(b, c) /\ SameRun(b, c)
         /\ SameTimes(b, c) /\ SameStrategy(b, c)
         /\ c.train_index = 0 /\ c.prev_seconds = 0
         /\ c.train_clock = b.train_clock /\ c.train_voi = b.train_voi
         /\ c.voi_history = b.voi_history
BY DEF EnterTraining, Backtesters, SameFeed, SameRun, SameTimes, SameStrategy

\* c is what one message of the training leaves of b, by the values it writes.
TrainedTo(b, c, clock, next, now, voi) ==
  c = [b EXCEPT !.train_clock = clock, !.train_index = next,
                !.prev_seconds = now, !.train_voi = voi]

\* With values of the right type it is still a Backtester.
LEMMA TrainedFields ==
  ASSUME NEW b \in Backtesters, NEW clock \in Nat, NEW next \in Nat,
         NEW now \in Nat, NEW voi \in Nat,
         NEW c, TrainedTo(b, c, clock, next, now, voi)
  PROVE  /\ c \in Backtesters /\ SameFeed(b, c) /\ SameRun(b, c)
         /\ SameTimes(b, c) /\ SameStrategy(b, c)
         /\ c.voi_history = b.voi_history
         /\ c.train_index = next /\ c.train_clock = clock
         /\ c.prev_seconds = now /\ c.train_voi = voi
<1>1. c \in Backtesters
  BY DEF TrainedTo, Backtesters
<1>2. SameFeed(b, c) /\ SameRun(b, c)
  BY DEF TrainedTo, Backtesters, SameFeed, SameRun
<1>3. SameTimes(b, c) /\ SameStrategy(b, c)
  BY DEF TrainedTo, Backtesters, SameTimes, SameStrategy
<1>4. /\ c.voi_history = b.voi_history
      /\ c.train_index = next /\ c.train_clock = clock
      /\ c.prev_seconds = now /\ c.train_voi = voi
  BY DEF TrainedTo, Backtesters
<1> QED BY <1>1, <1>2, <1>3, <1>4

\* The time of the next message of the training.
TrainClock(b) == Clock(b, b.train_clock, b.train_messages[b.train_index + 1])

\* The values that TrainOn writes.
LEMMA TrainOnFields ==
  ASSUME NEW b \in Backtesters, b.train_index + 1 \in 1..Len(b.train_messages),
         NEW c, c = TrainOn(b)
  PROVE  /\ c \in Backtesters /\ SameFeed(b, c) /\ SameRun(b, c)
         /\ SameTimes(b, c) /\ SameStrategy(b, c)
         /\ c.voi_history = b.voi_history
         /\ c.train_index = b.train_index + 1 /\ c.train_clock = TrainClock(b)
         /\ c.prev_seconds = IF Due(b, TrainClock(b), b.prev_seconds) THEN TrainClock(b)
                             ELSE Armed(b, TrainClock(b), b.prev_seconds)
         /\ c.train_voi = IF Due(b, TrainClock(b), b.prev_seconds) THEN b.train_voi + 1
                          ELSE b.train_voi
<1> DEFINE next == b.train_index + 1
           now  == IF Due(b, TrainClock(b), b.prev_seconds) THEN TrainClock(b)
                   ELSE Armed(b, TrainClock(b), b.prev_seconds)
           voi  == IF Due(b, TrainClock(b), b.prev_seconds) THEN b.train_voi + 1
                   ELSE b.train_voi
<1>1. /\ b.train_messages \in Seq(Nat) /\ b.train_clock \in Nat /\ b.train_index \in Nat
      /\ b.prev_seconds \in Nat /\ b.train_voi \in Nat
  BY DEF Backtesters
<1>2. b.train_messages[next] \in Nat
  BY <1>1
<1>3. TrainClock(b) \in Nat
  BY <1>1, <1>2 DEF TrainClock, Clock
<1>4. next \in Nat /\ voi \in Nat /\ now \in Nat
  BY <1>1, <1>3 DEF Armed
<1>5. TrainedTo(b, c, TrainClock(b), next, now, voi)
  BY DEF TrainOn, TrainedTo, TrainClock
<1>6. PICK k \in Nat, n \in Nat, w \in Nat, v \in Nat :
        k = TrainClock(b) /\ n = next /\ w = now /\ v = voi
  <2> HIDE DEF next, now, voi
  <2> QED BY Zenon, <1>3, <1>4
<1>7. TrainedTo(b, c, k, n, w, v)
  <2> HIDE DEF next, now, voi
  <2> QED BY Zenon, <1>5, <1>6
<1>8. /\ c \in Backtesters /\ SameFeed(b, c) /\ SameRun(b, c)
      /\ SameTimes(b, c) /\ SameStrategy(b, c)
      /\ c.voi_history = b.voi_history
      /\ c.train_index = n /\ c.train_clock = k
      /\ c.prev_seconds = w /\ c.train_voi = v
  BY <1>7, TrainedFields
<1> QED BY Zenon, <1>6, <1>8

\* The samples move, the model is fitted or not, and the feed stays.
LEMMA FitFields ==
  ASSUME NEW b \in Backtesters, NEW c, c = Moved(b) \/ c \in fit_model(Moved(b))
  PROVE  /\ c \in Backtesters /\ SameFeed(b, c) /\ SameRun(b, c)
         /\ SameTimes(b, c) /\ c.strategy = b.strategy /\ c.position = b.position
         /\ c.prev_seconds = b.prev_seconds
         /\ c.voi_history = b.train_voi
<1> DEFINE m == Moved(b)
<1>1. /\ m \in Backtesters /\ SameFeed(b, m) /\ SameRun(b, m)
      /\ SameTimes(b, m) /\ SameStrategy(b, m)
      /\ m.prev_seconds = b.prev_seconds
      /\ m.voi_history = b.train_voi
  BY DEF Moved, Backtesters, SameFeed, SameRun, SameTimes, SameStrategy
<1>2. c = m \/ \E f \in BOOLEAN : c = [m EXCEPT !.fitted = f]
  <2> HIDE DEF m
  <2>1. (Rows(m) > 0) \in BOOLEAN
    OBVIOUS
  <2>2. CASE Rows(m) < 0
    BY Zenon, <2>2 DEF fit_model, m
  <2>3. CASE ~(Rows(m) < 0) /\ c # m
    <3>1. c \in {[m EXCEPT !.fitted = (Rows(m) > 0)]}
      BY Zenon, <2>3 DEF fit_model, m
    <3> QED BY Zenon, <2>1, <3>1
  <2> QED BY Zenon, <2>2, <2>3
<1> HIDE DEF m
<1>3. CASE c = m
  BY <1>1, <1>3 DEF SameStrategy
<1>4. CASE \E f \in BOOLEAN : c = [m EXCEPT !.fitted = f]
  <2>1. PICK f \in BOOLEAN : c = [m EXCEPT !.fitted = f]
    BY <1>4
  <2>2. /\ c \in Backtesters /\ SameFeed(m, c) /\ SameRun(m, c)
        /\ SameTimes(m, c) /\ c.strategy = m.strategy /\ c.position = m.position
        /\ c.prev_seconds = m.prev_seconds /\ c.voi_history = m.voi_history
    BY <1>1, <2>1 DEF Backtesters, SameFeed, SameRun, SameTimes
  <2> QED BY <1>1, <2>2 DEF SameFeed, SameRun, SameTimes, SameStrategy
<1> QED BY <1>2, <1>3, <1>4

\* A run begins where the last one left the feed.
LEMMA EnterFields ==
  ASSUME NEW b \in Backtesters, NEW c, c = Enter(b)
  PROVE  /\ c \in Backtesters /\ SameFeed(b, c) /\ SameTimes(b, c)
         /\ SameTraining(b, c) /\ SameStrategy(b, c)
         /\ c.running = TRUE /\ c.prev_seconds = 0 /\ c.late = 0
         /\ c.before = Len(b.given) /\ c.updates = {}
<1>1. Len(b.given) \in Nat
  BY DEF Backtesters
<1> QED BY <1>1 DEF Enter, Backtesters, SameFeed, SameTimes, SameTraining, SameStrategy

\* A stop clears running_ and nothing else.
LEMMA StopFields ==
  ASSUME NEW b \in Backtesters, NEW c, c = stop_backtest(b)
  PROVE  /\ c \in Backtesters /\ SameFeed(b, c) /\ SameTimes(b, c)
         /\ SameTraining(b, c) /\ SameStrategy(b, c)
         /\ c.running = FALSE /\ c.prev_seconds = b.prev_seconds /\ c.late = b.late
         /\ c.before = b.before /\ c.updates = b.updates
BY DEF stop_backtest, Backtesters, SameFeed, SameTimes, SameTraining, SameStrategy

\* One pass of the loop: the next message, its time, an update when it is due,
\* and the end of the session or the next index.
BodyEffect(b, c, clock, due) ==
  /\ c \in Backtesters
  /\ c.messages = b.messages /\ c.train_messages = b.train_messages
  /\ c.file_named = b.file_named /\ c.clock_runs = b.clock_runs
  /\ SameTimes(b, c) /\ SameTraining(b, c) /\ c.strategy = b.strategy
  /\ c.running = b.running /\ c.before = b.before
  /\ c.given = Append(b.given, b.index + 1) /\ c.clock = clock
  /\ c.late = IF b.running THEN b.late ELSE b.late + 1
  /\ c.prev_seconds = IF due THEN clock ELSE Armed(b, clock, b.prev_seconds)
  /\ c.updates = IF due THEN b.updates \cup {Len(b.given) + 1} ELSE b.updates
  /\ clock >= b.end_time => c.position = 0
  /\ ~due /\ ~(clock >= b.end_time) => c.position = b.position
  /\ c.index = IF clock >= b.end_time THEN b.index ELSE b.index + 1

\* Body does no more and no less, whatever the strategy trades.
LEMMA BodyFields ==
  ASSUME NEW b \in Backtesters, b.index + 1 \in 1..Len(b.messages),
         NEW clock, clock = Clock(b, b.clock, b.messages[b.index + 1]),
         NEW due, due = Due(b, clock, b.prev_seconds),
         NEW c, c \in Body(b)
  PROVE  BodyEffect(b, c, clock, due)
<1> DEFINE f == Fed(b)
           armed == [f EXCEPT !.prev_seconds = Armed(f, f.clock, f.prev_seconds)]
<1> DEFINE late == IF b.running THEN b.late ELSE b.late + 1
<1>1. /\ clock \in Nat /\ late \in Nat
      /\ Len(b.given) + 1 \in Nat /\ b.given \in Seq(Nat) /\ b.index + 1 \in Nat
  <2>1. /\ b.messages \in Seq(Nat) /\ b.clock \in Nat /\ b.late \in Nat
        /\ b.given \in Seq(Nat) /\ b.index \in Nat
    BY DEF Backtesters
  <2>2. b.messages[b.index + 1] \in Nat
    BY <2>1
  <2> QED BY <2>1, <2>2 DEF Clock
<1>2. Append(b.given, b.index + 1) \in Seq(Nat) /\ Len(Append(b.given, b.index + 1)) = Len(b.given) + 1
  BY <1>1, AppendProperties
<1>3. f = [b EXCEPT !.clock = clock, !.given = Append(b.given, b.index + 1),
                    !.late = late]
  BY DEF Fed
<1>l. late = IF b.running THEN b.late ELSE b.late + 1
  OBVIOUS
<1> HIDE DEF f, late
<1>4. /\ f \in Backtesters
      /\ f.messages = b.messages /\ f.train_messages = b.train_messages
      /\ f.file_named = b.file_named /\ f.clock_runs = b.clock_runs
      /\ SameTimes(b, f) /\ SameTraining(b, f) /\ SameStrategy(b, f)
      /\ f.running = b.running /\ f.before = b.before
      /\ f.given = Append(b.given, b.index + 1) /\ f.clock = clock /\ f.index = b.index
      /\ f.late = late
      /\ f.prev_seconds = b.prev_seconds /\ f.updates = b.updates
  BY <1>1, <1>2, <1>3 DEF Backtesters, SameTimes, SameTraining, SameStrategy
<1>5. /\ Armed(f, f.clock, f.prev_seconds) = Armed(b, clock, b.prev_seconds)
      /\ Due(f, f.clock, f.prev_seconds) <=> due
      /\ Armed(b, clock, b.prev_seconds) \in Nat
  BY <1>1, <1>4 DEF Armed, Due, SameTimes, Backtesters
<1>6. armed = [f EXCEPT !.prev_seconds = Armed(b, clock, b.prev_seconds)]
  BY <1>5
<1> HIDE DEF armed
<1>7. /\ armed \in Backtesters
      /\ armed.messages = b.messages /\ armed.train_messages = b.train_messages
      /\ armed.file_named = b.file_named /\ armed.clock_runs = b.clock_runs
      /\ SameTimes(b, armed) /\ SameTraining(b, armed) /\ SameStrategy(b, armed)
      /\ armed.running = b.running /\ armed.before = b.before
      /\ armed.given = Append(b.given, b.index + 1) /\ armed.clock = clock
      /\ armed.index = b.index
      /\ armed.late = late
      /\ armed.prev_seconds = Armed(b, clock, b.prev_seconds) /\ armed.updates = b.updates
  BY <1>4, <1>5, <1>6 DEF Backtesters, SameTimes, SameTraining, SameStrategy
<1>8. PICK u \in Updated(f) : c = IF SessionOver(u) THEN Closed(u) ELSE Advanced(u)
  BY DEF Body, f
<1>9. /\ u \in Backtesters
      /\ u.messages = b.messages /\ u.train_messages = b.train_messages
      /\ u.file_named = b.file_named /\ u.clock_runs = b.clock_runs
      /\ SameTimes(b, u) /\ SameTraining(b, u) /\ u.strategy = b.strategy
      /\ u.running = b.running /\ u.before = b.before
      /\ u.given = Append(b.given, b.index + 1) /\ u.clock = clock /\ u.index = b.index
      /\ u.late = late
      /\ u.prev_seconds = IF due THEN clock ELSE Armed(b, clock, b.prev_seconds)
      /\ u.updates = IF due THEN b.updates \cup {Len(b.given) + 1} ELSE b.updates
      /\ ~due => u.position = b.position
  <2>1. CASE ~due
    <3>1. u = armed
      BY <1>5, <1>8, <2>1 DEF Updated, armed
    <3> QED BY <1>7, <2>1, <3>1 DEF SameStrategy
  <2>2. CASE due
    <3>1. PICK v \in on_book_update(armed) : u = [v EXCEPT !.prev_seconds = clock]
      BY <1>4, <1>5, <1>8, <2>2 DEF Updated, armed
    <3>2. PICK n \in Nat, p \in -max_pos..max_pos :
            v = [armed EXCEPT !.voi_history_curr = n, !.position = p,
                              !.updates = b.updates \cup {Len(b.given) + 1}]
      <4> DEFINE n == IF armed.strategy = "linear" THEN armed.voi_history_curr + 1
                      ELSE armed.voi_history_curr
      <4>1. n \in Nat
        <5>1. armed.voi_history_curr \in Nat
          BY <1>7 DEF Backtesters
        <5> QED BY <5>1
      <4>2. Len(armed.given) = Len(b.given) + 1 /\ armed.updates = b.updates
        BY <1>2, <1>7
      <4>3. \E p \in -max_pos..max_pos :
              v = [armed EXCEPT !.voi_history_curr = n, !.position = p,
                                !.updates = b.updates \cup {Len(b.given) + 1}]
        BY <4>2 DEF on_book_update
      <4> HIDE DEF n
      <4> QED BY <4>1, <4>3
    <3>3. b.updates \cup {Len(b.given) + 1} \in SUBSET Nat
      BY <1>1 DEF Backtesters
    <3>4. /\ v \in Backtesters
          /\ v.messages = armed.messages /\ v.train_messages = armed.train_messages
          /\ v.file_named = armed.file_named /\ v.clock_runs = armed.clock_runs
          /\ SameTimes(armed, v) /\ SameTraining(armed, v) /\ v.strategy = armed.strategy
          /\ v.running = armed.running /\ v.before = armed.before
          /\ v.given = armed.given /\ v.clock = armed.clock /\ v.index = armed.index
          /\ v.late = armed.late /\ v.updates = b.updates \cup {Len(b.given) + 1}
      BY <1>7, <3>2, <3>3 DEF Backtesters, SameTimes, SameTraining
    <3>5. /\ u \in Backtesters
          /\ u.messages = v.messages /\ u.train_messages = v.train_messages
          /\ u.file_named = v.file_named /\ u.clock_runs = v.clock_runs
          /\ SameTimes(v, u) /\ SameTraining(v, u) /\ u.strategy = v.strategy
          /\ u.running = v.running /\ u.before = v.before
          /\ u.given = v.given /\ u.clock = v.clock /\ u.index = v.index
          /\ u.late = v.late /\ u.updates = v.updates /\ u.prev_seconds = clock
      BY <1>1, <3>1, <3>4 DEF Backtesters, SameTimes, SameTraining
    <3> QED BY <1>7, <2>2, <3>4, <3>5 DEF SameTimes, SameTraining, SameStrategy
  <2> QED BY <2>1, <2>2
<1>10. SessionOver(u) <=> clock >= b.end_time
  BY <1>9 DEF SessionOver, SameTimes
<1>11. CASE clock >= b.end_time
  <2>1. c = [u EXCEPT !.position = 0]
    BY <1>8, <1>10, <1>11 DEF Closed
  <2>2. 0 \in -max_pos..max_pos
    BY BacktesterAssumption DEF BacktesterAssumption
  <2>3. /\ c \in Backtesters
        /\ c.messages = u.messages /\ c.train_messages = u.train_messages
        /\ c.file_named = u.file_named /\ c.clock_runs = u.clock_runs
        /\ SameTimes(u, c) /\ SameTraining(u, c) /\ c.strategy = u.strategy
        /\ c.running = u.running /\ c.before = u.before
        /\ c.given = u.given /\ c.clock = u.clock /\ c.index = u.index
        /\ c.late = u.late /\ c.updates = u.updates /\ c.prev_seconds = u.prev_seconds
        /\ c.position = 0
    BY <1>9, <2>1, <2>2 DEF Backtesters, SameTimes, SameTraining
  <2> QED BY <1>9, <1>11, <1>l, <2>3 DEF BodyEffect, SameTimes, SameTraining
<1>12. CASE ~(clock >= b.end_time)
  <2>1. c = [u EXCEPT !.index = u.index + 1]
    BY <1>8, <1>10, <1>12 DEF Advanced
  <2>2. u.index + 1 \in Nat
    BY <1>1, <1>9
  <2>3. /\ c \in Backtesters
        /\ c.messages = u.messages /\ c.train_messages = u.train_messages
        /\ c.file_named = u.file_named /\ c.clock_runs = u.clock_runs
        /\ SameTimes(u, c) /\ SameTraining(u, c) /\ c.strategy = u.strategy
        /\ c.running = u.running /\ c.before = u.before
        /\ c.given = u.given /\ c.clock = u.clock /\ c.index = u.index + 1
        /\ c.late = u.late /\ c.updates = u.updates /\ c.prev_seconds = u.prev_seconds
        /\ c.position = u.position
    BY <1>9, <2>1, <2>2 DEF Backtesters, SameTimes, SameTraining
  <2> QED BY <1>9, <1>12, <1>l, <2>3 DEF BodyEffect, SameTimes, SameTraining
<1> QED BY <1>11, <1>12

\* What is said of the messages depends on the feed and the times alone.
LEMMA FeedSame ==
  ASSUME NEW b, NEW c, SameFeed(b, c)
  PROVE  /\ Given(c) = Given(b)
         /\ \A msgs, k : TimeAt(c, msgs, k) = TimeAt(b, msgs, k)
BY DEF SameFeed, Given, TimeAt

\* So does what the window and the pace make of them.
LEMMA SeenSame ==
  ASSUME NEW b, NEW c, SameFeed(b, c), SameTimes(b, c)
  PROVE  /\ \A k : Ends(c, k) = Ends(b, k)
         /\ \A msgs, from, to :
              /\ NewSeconds(c, msgs, from, to) = NewSeconds(b, msgs, from, to)
              /\ \A prev : Paced(b, msgs, from, to, prev) => Paced(c, msgs, from, to, prev)
         /\ Samples(c) = Samples(b)
<1>1. /\ Given(c) = Given(b)
      /\ \A msgs, k : TimeAt(c, msgs, k) = TimeAt(b, msgs, k)
  BY FeedSame
<1>2. c.start_time = b.start_time /\ c.end_time = b.end_time
  BY DEF SameTimes
<1>3. \A k : Ends(c, k) = Ends(b, k)
  BY Zenon, <1>1, <1>2 DEF Ends
<1>4. ASSUME NEW msgs, NEW from, NEW to
      PROVE  /\ NewSeconds(c, msgs, from, to) = NewSeconds(b, msgs, from, to)
             /\ \A prev : Paced(b, msgs, from, to, prev) => Paced(c, msgs, from, to, prev)
  BY <1>1, <1>2, SamePace
<1>5. Samples(c) = Samples(b)
  <2>1. c.train_messages = b.train_messages
    BY DEF SameFeed
  <2>2. \A k : TimeAt(c, b.train_messages, k) >= c.end_time
               <=> TimeAt(b, b.train_messages, k) >= b.end_time
    BY Zenon, <1>1, <1>2
  <2>3. {k \in 1..Len(b.train_messages) : TimeAt(c, b.train_messages, k) >= c.end_time} =
        {k \in 1..Len(b.train_messages) : TimeAt(b, b.train_messages, k) >= b.end_time}
    BY Zenon, <2>2
  <2>4. \A to : NewSeconds(c, b.train_messages, 0, to) = NewSeconds(b, b.train_messages, 0, to)
    BY Zenon, <1>4
  <2> QED BY Zenon, <2>1, <2>3, <2>4 DEF Samples
<1> QED BY <1>3, <1>4, <1>5

\* A step that leaves the feed and the times as they are keeps its order.
LEMMA AdvancesSame ==
  ASSUME NEW b, NEW c, SameFeed(b, c), SameTimes(b, c), Advances(b)
  PROVE  Advances(c)
<1>1. /\ Given(c) = Given(b)
      /\ \A msgs, k : TimeAt(c, msgs, k) = TimeAt(b, msgs, k)
      /\ \A k : Ends(c, k) = Ends(b, k)
  BY FeedSame, SeenSame
<1>2. c.given = b.given /\ c.clock = b.clock /\ c.index = b.index
  BY DEF SameFeed
<1>3. c.clock = TimeAt(c, Given(c), Len(c.given))
  <2>1. b.clock = TimeAt(b, Given(b), Len(b.given))
    BY DEF Advances
  <2> QED BY Zenon, <1>1, <1>2, <2>1
<1>4. IF c.given = << >> THEN c.index = 0
      ELSE c.index = c.given[Len(c.given)] - IF Ends(c, Len(c.given)) THEN 1 ELSE 0
  BY <1>1, <1>2 DEF Advances
<1>5. \A k \in DOMAIN c.given : IF k = 1 THEN c.given[k] = 1
        ELSE c.given[k] = c.given[k - 1] + IF Ends(c, k - 1) THEN 0 ELSE 1
  BY <1>1, <1>2 DEF Advances
<1> QED BY <1>3, <1>4, <1>5 DEF Advances

\* A step that writes neither the feed nor the run.
LEMMA InSessionSame ==
  ASSUME NEW b, NEW c, SameFeed(b, c), SameTimes(b, c),
         c.before = b.before, c.updates = b.updates
  PROVE  /\ InRun(c) = InRun(b)
         /\ (\A k \in InRun(b) : ~Ends(b, k)) => (\A k \in InRun(c) : ~Ends(c, k))
<1>1. \A k : Ends(c, k) = Ends(b, k)
  BY SeenSame
<1>2. InRun(c) = InRun(b)
  BY DEF InRun, SameFeed
<1> QED BY Zenon, <1>1, <1>2

\* And it keeps the types.
LEMMA TypedSame ==
  ASSUME NEW b, NEW c \in Backtesters, SameFeed(b, c), c.before = b.before, Typed(b)
  PROVE  Typed(c)
BY DEF Typed, SameFeed

-----------------------------------------------------------------------------
(* One step of a task, from its place p to its place q.                      *)

\* A step that leaves the feed, the times and the run as they are.
LEMMA CreatedSound ==
  ASSUME NEW b, Sound(b, "create"), kind \in {"imbalance", "linear"},
         NEW c, NEW q,
         \/ q = "prepare" /\ c = create_strategy(b, kind)
         \/ q \in {"failed", "stuck"} /\ c = WithoutStrategy(b)
  PROVE  Sound(c, q)
<1>1. b \in Backtesters
  BY DEF Sound, Typed
<1>2. /\ c \in Backtesters /\ SameFeed(b, c) /\ SameRun(b, c)
      /\ SameTimes(b, c) /\ SameTraining(b, c)
      /\ c.position = 0 /\ (q = "prepare" => c.strategy = kind)
  <2>1. CASE q = "prepare" /\ c = create_strategy(b, kind)
    BY <1>1, <2>1, CreateFields
  <2>2. CASE q \in {"failed", "stuck"} /\ c = WithoutStrategy(b)
    BY <1>1, <2>2, WithoutStrategyFields
  <2> QED BY <2>1, <2>2
<1>3. q \in {"prepare", "failed", "stuck"}
  OBVIOUS
<1>4. /\ c.before = b.before /\ c.updates = b.updates /\ c.running = b.running
      /\ c.late = b.late
  BY <1>2 DEF SameRun
<1>5. Typed(c)
  BY <1>2, <1>4, TypedSame DEF Sound
<1>6. Timed(c, q)
  BY <1>2, <1>3 DEF Sound, Timed, TimesSet, SameFeed, SameTimes, Ready
<1>7. Holds(c, q)
  BY <1>2, <1>3 DEF Holds, Ready
<1>8. Stoppable(c, q)
  BY <1>3, <1>4 DEF Sound, Stoppable, Looping
<1>9. Advances(c)
  BY <1>2, AdvancesSame DEF Sound
<1>10. InSession(c, q)
  BY <1>2, <1>3 DEF InSession
<1>11. Paces(c, q)
  BY <1>3 DEF Paces, Looping
<1>12. Trains(c, q)
  BY <1>2, <1>3 DEF Sound, Trains, SameTraining, Ready
<1> QED BY <1>5, <1>6, <1>7, <1>8, <1>9, <1>10, <1>11, <1>12 DEF Sound

\* The times are set before the feed begins, or are the same again.
LEMMA TimesSetOnce ==
  ASSUME NEW b, Sound(b, "prepare"), NEW c, c = set_trading_times(b)
  PROVE  /\ c \in Backtesters /\ SameFeed(b, c) /\ SameRun(b, c)
         /\ SameTraining(b, c) /\ SameStrategy(b, c)
         /\ TimesSet(c) /\ Advances(c)
<1>1. b \in Backtesters /\ Timed(b, "prepare") /\ Advances(b)
  BY DEF Sound, Typed
<1>2. /\ c \in Backtesters /\ SameFeed(b, c) /\ SameRun(b, c)
      /\ SameTraining(b, c) /\ SameStrategy(b, c)
      /\ c.start_time = IF b.file_named THEN Start ELSE b.start_time
      /\ c.end_time = IF b.file_named THEN End ELSE b.end_time
  BY <1>1, TimesFields
<1>3. TimesSet(c)
  <2>1. c.file_named = b.file_named
    BY <1>2 DEF SameFeed
  <2> QED BY <1>1, <1>2, <2>1 DEF Timed, TimesSet
<1>4. Advances(c)
  <2>1. CASE TimesSet(b)
    <3>1. SameTimes(b, c)
      BY <1>2, <2>1 DEF TimesSet, SameTimes
    <3> QED BY <1>1, <1>2, <3>1, AdvancesSame
  <2>2. CASE b.given = << >>
    <3>1. /\ c.given = << >> /\ c.index = b.index /\ c.clock = b.clock
          /\ Given(c) = Given(b)
      BY <1>2, <2>2, FeedSame DEF SameFeed
    <3>2. b.index = 0 /\ b.clock = TimeAt(b, Given(b), 0)
      BY <1>1, <2>2 DEF Advances
    <3>3. c.clock = TimeAt(c, Given(c), 0)
      BY <3>1, <3>2, TimeAtZero
    <3> QED BY <3>1, <3>2, <3>3 DEF Advances
  <2> QED BY <1>1, <2>1, <2>2 DEF Timed
<1> QED BY <1>2, <1>3, <1>4

\* Without training: from the preparation to the test of running_.
LEMMA PreparedSound ==
  ASSUME NEW b, Sound(b, "prepare"), kind # "linear",
         NEW c, c = set_trading_times(b)
  PROVE  Sound(c, "start")
<1>1. /\ c \in Backtesters /\ SameFeed(b, c) /\ SameRun(b, c)
      /\ SameTraining(b, c) /\ SameStrategy(b, c)
      /\ TimesSet(c) /\ Advances(c)
  BY TimesSetOnce
<1>2. /\ c.before = b.before /\ c.updates = b.updates /\ c.running = b.running
      /\ c.late = b.late
  BY <1>1 DEF SameRun
<1>3. c.position = b.position /\ c.strategy = b.strategy
  BY <1>1 DEF SameStrategy
<1>4. Holds(b, "prepare") /\ Stoppable(b, "prepare") /\ Typed(b) /\ Trains(b, "prepare")
  BY DEF Sound
<1>5. c.position = 0 /\ c.strategy = kind
  BY <1>3, <1>4 DEF Holds
<1>6. Typed(c) /\ Timed(c, "start")
  BY <1>1, <1>2, <1>4, TypedSame DEF Timed
<1>7. Holds(c, "start")
  BY <1>5 DEF Holds
<1>8. Stoppable(c, "start")
  BY <1>2, <1>4 DEF Stoppable, Looping
<1>9. InSession(c, "start") /\ Paces(c, "start")
  BY <1>5 DEF InSession, Paces, Looping
<1>10. Trains(c, "start")
  <2>1. c.train_clock = b.train_clock /\ c.train_voi = b.train_voi
    BY <1>1 DEF SameTraining
  <2>2. starts = 0 => b.train_clock = 0 /\ b.train_voi = 0
    BY <1>4 DEF Trains
  <2> QED BY <2>1, <2>2 DEF Trains
<1> QED BY <1>1, <1>6, <1>7, <1>8, <1>9, <1>10 DEF Sound

\* With training: from the preparation into the first loop.
LEMMA TrainingSound ==
  ASSUME NEW b, Sound(b, "prepare"), NEW c, c = EnterTraining(set_trading_times(b))
  PROVE  Sound(c, "train")
<1> DEFINE d == set_trading_times(b)
<1>1. /\ d \in Backtesters /\ SameFeed(b, d) /\ SameRun(b, d)
      /\ SameTraining(b, d) /\ SameStrategy(b, d)
      /\ TimesSet(d) /\ Advances(d)
  BY TimesSetOnce
<1>c. c = EnterTraining(d)
  OBVIOUS
<1> HIDE DEF d
<1>2. /\ c \in Backtesters /\ SameFeed(d, c) /\ SameRun(d, c)
      /\ SameTimes(d, c) /\ SameStrategy(d, c)
      /\ c.train_index = 0 /\ c.prev_seconds = 0
      /\ c.train_clock = d.train_clock /\ c.train_voi = d.train_voi
  BY <1>1, <1>c, EnterTrainingFields
<1>3. /\ c.before = b.before /\ c.running = b.running /\ c.late = b.late
      /\ c.position = b.position /\ c.strategy = b.strategy
      /\ c.train_clock = b.train_clock /\ c.train_voi = b.train_voi
  BY <1>1, <1>2 DEF SameRun, SameStrategy, SameTraining
<1>4. SameFeed(b, c)
  BY <1>1, <1>2 DEF SameFeed
<1>5. Holds(b, "prepare") /\ Stoppable(b, "prepare") /\ Typed(b) /\ Trains(b, "prepare")
  BY DEF Sound
<1>6. c.position = 0 /\ c.strategy = kind
  BY <1>3, <1>5 DEF Holds
<1>7. Typed(c)
  BY <1>2, <1>3, <1>4, <1>5, TypedSame
<1>8. TimesSet(c)
  BY <1>1, <1>2 DEF TimesSet, SameFeed, SameTimes
<1>9. Advances(c)
  BY <1>1, <1>2, AdvancesSame
<1>10. Holds(c, "train")
  BY <1>6 DEF Holds
<1>11. Stoppable(c, "train")
  BY <1>3, <1>5 DEF Stoppable, Looping
<1>12. InSession(c, "train") /\ Paces(c, "train")
  BY <1>6 DEF InSession, Paces, Looping
<1>13. Trains(c, "train")
  <2>1. starts \in {0, 1} => c.train_clock = 0 /\ c.train_voi = 0
    BY <1>3, <1>5 DEF Trains
  <2>2. Len(c.train_messages) \in Nat
    BY <1>2 DEF Backtesters
  <2>3. TimeAt(c, c.train_messages, 0) = 0
    BY TimeAtZero
  <2>4. /\ NewSeconds(c, c.train_messages, 0, 0) = {}
        /\ Paced(c, c.train_messages, 0, 0, 0)
    BY DEF NewSeconds, Paced, Within
  <2>5. Cardinality(NewSeconds(c, c.train_messages, 0, 0)) = 0
    BY <2>4, FS_EmptySet
  <2> QED BY <1>2, <2>1, <2>2, <2>3, <2>4, <2>5 DEF Trains
<1> QED BY <1>7, <1>8, <1>9, <1>10, <1>11, <1>12, <1>13 DEF Sound, Timed

\* One message of the training.
LEMMA TrainStepSound ==
  ASSUME NEW b, Sound(b, "train"), ~TrainingOver(b), starts # 0,
         NEW c, c = TrainOn(b)
  PROVE  Sound(c, "train")
<1>0. PICK n \in Nat : n = b.train_index
  BY DEF Sound, Typed, Backtesters
<1> DEFINE msgs == b.train_messages
           clock == TrainClock(b)
           now == IF Due(b, clock, b.prev_seconds) THEN clock
                  ELSE Armed(b, clock, b.prev_seconds)
<1>1. /\ b \in Backtesters /\ Typed(b) /\ TimesSet(b) /\ Trains(b, "train")
      /\ Holds(b, "train") /\ Stoppable(b, "train") /\ Advances(b)
  BY DEF Sound, Typed, Timed, Ready
<1>2. /\ msgs \in Seq(Nat) /\ n <= Len(msgs) /\ n # Len(msgs)
      /\ n + 1 \in 1..Len(msgs)
  <2>1. msgs \in Seq(Nat) /\ Len(msgs) \in Nat
    BY <1>1 DEF Backtesters
  <2>2. n <= Len(msgs) /\ n # Len(msgs)
    BY <1>0, <1>1 DEF Trains, TrainingOver
  <2> QED BY <2>1, <2>2
<1>3. /\ c \in Backtesters /\ SameFeed(b, c) /\ SameRun(b, c)
      /\ SameTimes(b, c) /\ SameStrategy(b, c)
      /\ c.train_index = n + 1 /\ c.train_clock = clock /\ c.prev_seconds = now
      /\ c.train_voi = IF Due(b, clock, b.prev_seconds) THEN b.train_voi + 1
                       ELSE b.train_voi
  BY <1>0, <1>1, <1>2, TrainOnFields
<1> HIDE DEF msgs, clock, now
<1>4. /\ c.before = b.before /\ c.running = b.running /\ c.late = b.late
      /\ c.position = b.position /\ c.strategy = b.strategy
      /\ c.train_messages = msgs
  BY <1>3 DEF SameRun, SameStrategy, SameFeed, msgs
<1>5. c.position = 0 /\ c.strategy = kind
  BY <1>1, <1>4 DEF Holds, Ready
<1>6. Typed(c)
  BY <1>1, <1>3, <1>4, TypedSame
<1>7. TimesSet(c)
  BY <1>1, <1>3 DEF TimesSet, SameFeed, SameTimes
<1>8. Advances(c)
  BY <1>1, <1>3, AdvancesSame
<1>9. Holds(c, "train")
  BY <1>5 DEF Holds
<1>10. Stoppable(c, "train")
  BY <1>1, <1>4 DEF Stoppable, Looping
<1>11. InSession(c, "train") /\ Paces(c, "train")
  BY <1>5 DEF InSession, Paces, Looping
<1>12. Trains(c, "train")
  <2>1. n + 1 <= Len(msgs)
    BY <1>2
  <2>2. CASE starts = 1
    <3>1. /\ b.train_clock = TimeAt(b, msgs, n)
          /\ b.train_voi = Cardinality(NewSeconds(b, msgs, 0, n))
          /\ Paced(b, msgs, 0, n, b.prev_seconds)
          /\ \A k \in 1..(n - 1) : TimeAt(b, msgs, k) < b.end_time
      BY <1>0, <1>1, <2>2 DEF Trains, msgs
    <3>2. clock = TimeAt(b, msgs, n + 1)
      BY <1>0, <3>1, TimeAtNext DEF clock, TrainClock, msgs
    <3>3. n > 0 => b.train_clock < b.end_time
      <4>1. b.train_clock \in Nat /\ b.end_time \in Nat
        BY <1>1 DEF Backtesters
      <4> QED BY <1>0, <4>1 DEF TrainingOver
    <3>4. \A k \in 1..n : TimeAt(b, msgs, k) < b.end_time
      <4>1. \A k \in 1..n : k \in 1..(n - 1) \/ (k = n /\ n > 0)
        BY <1>2
      <4> QED BY Zenon, <3>1, <3>3, <4>1
    <3>5. Within(b, msgs, 0, n) # {} => b.start_time > 0
      <4>1. SUFFICES ASSUME n > 0 PROVE b.start_time > 0
        BY <1>2 DEF Within
      <4>2. b.end_time # 0
        <5>1. b.train_clock \in Nat /\ b.end_time \in Nat
          BY <1>1 DEF Backtesters
        <5> QED BY <3>3, <4>1, <5>1
      <4> QED BY <1>1, <4>2, BacktesterAssumption
            DEF TimesSet, Unset, BacktesterAssumption
    <3>6. b.start_time \in Nat
      BY <1>1 DEF Backtesters
    <3>7. /\ Paced(b, msgs, 0, n + 1, now)
          /\ NewSeconds(b, msgs, 0, n + 1) =
               IF Due(b, clock, b.prev_seconds) THEN NewSeconds(b, msgs, 0, n) \cup {n + 1}
               ELSE NewSeconds(b, msgs, 0, n)
      <4>1. 0 <= n /\ n < Len(msgs) /\ Len(msgs) \in Nat
        BY <1>2
      <4>2. now = IF Due(b, clock, b.prev_seconds) THEN clock
                  ELSE Armed(b, clock, b.prev_seconds)
        BY DEF now
      <4>3. /\ msgs \in Seq(Nat) /\ Paced(b, msgs, 0, n, b.prev_seconds) /\ 0 \in Nat
        BY <1>2, <3>1
      <4>4. KeepsPace(b, msgs, 0, n, b.prev_seconds)
        BY <3>5, <3>6, <4>1, <4>3, Pace
      <4> QED BY Zenon, <3>2, <4>2, <4>4 DEF KeepsPace
    <3>8. c.train_voi = Cardinality(NewSeconds(b, msgs, 0, n + 1))
      <4>1. NewSeconds(b, msgs, 0, n) \subseteq 1..n
        BY DEF NewSeconds
      <4>2. IsFiniteSet(NewSeconds(b, msgs, 0, n)) /\ n + 1 \notin NewSeconds(b, msgs, 0, n)
        <5>1. IsFiniteSet(1..n)
          BY FS_Interval
        <5> QED BY <4>1, <5>1, FS_Subset
      <4>3. Cardinality(NewSeconds(b, msgs, 0, n) \cup {n + 1}) = b.train_voi + 1
        BY <3>1, <4>2, FS_AddElement
      <4> QED BY <1>3, <3>1, <3>7, <4>3
    <3>9. /\ \A k : TimeAt(c, msgs, k) = TimeAt(b, msgs, k)
          /\ NewSeconds(c, msgs, 0, n + 1) = NewSeconds(b, msgs, 0, n + 1)
          /\ Paced(c, msgs, 0, n + 1, now)
          /\ c.end_time = b.end_time
      BY <1>3, <3>7, FeedSame, SeenSame DEF SameTimes
    <3>10. c.train_index - 1 = n
      BY <1>2, <1>3
    <3> QED BY <1>3, <1>4, <2>1, <2>2, <3>2, <3>4, <3>7, <3>8, <3>9, <3>10 DEF Trains
  <2>3. CASE starts # 1
    BY <1>3, <1>4, <2>1, <2>3 DEF Trains
  <2> QED BY <2>2, <2>3
<1> QED BY <1>6, <1>7, <1>8, <1>9, <1>10, <1>11, <1>12 DEF Sound, Timed

\* Trains rests on the training messages, the times and the training's own members.
LEMMA SamplesSame ==
  ASSUME NEW b, NEW c, c.train_messages = b.train_messages,
         c.clock_runs = b.clock_runs, SameTimes(b, c)
  PROVE  Samples(c) = Samples(b)
<1>1. \A msgs, k : TimeAt(c, msgs, k) = TimeAt(b, msgs, k)
  BY DEF TimeAt
<1>2. c.start_time = b.start_time /\ c.end_time = b.end_time
  BY DEF SameTimes
<1>3. {k \in 1..Len(b.train_messages) : TimeAt(c, b.train_messages, k) >= c.end_time} =
      {k \in 1..Len(b.train_messages) : TimeAt(b, b.train_messages, k) >= b.end_time}
  BY Zenon, <1>1, <1>2
<1>4. ASSUME NEW to
      PROVE  NewSeconds(c, b.train_messages, 0, to) = NewSeconds(b, b.train_messages, 0, to)
  <2>1. \A k \in (0 + 1)..to : TimeAt(c, b.train_messages, k) = TimeAt(b, b.train_messages, k)
    BY <1>1
  <2>2. c.start_time = b.start_time
    BY <1>2
  <2> QED BY <2>1, <2>2, SamePace
<1> QED BY Zenon, <1>3, <1>4 DEF Samples

\* The training ends at the first time past the session, or with the messages.
LEMMA TrainingEnd ==
  ASSUME NEW b \in Backtesters, TrainingOver(b), Trains(b, "train"), starts = 1
  PROVE  b.train_voi = Cardinality(Samples(b))
<1> DEFINE msgs == b.train_messages
           over == {k \in 1..Len(msgs) : TimeAt(b, msgs, k) >= b.end_time}
<1>1. PICK n \in Nat : n = b.train_index
  BY DEF Backtesters
<1>2. PICK m \in Nat : m = Len(msgs)
  BY DEF Backtesters
<1>3. /\ n <= m
      /\ b.train_clock = TimeAt(b, msgs, n)
      /\ b.train_voi = Cardinality(NewSeconds(b, msgs, 0, n))
      /\ \A k \in 1..(n - 1) : TimeAt(b, msgs, k) < b.end_time
  BY <1>1, <1>2 DEF Trains
<1>4. n = m \/ (n > 0 /\ TimeAt(b, msgs, n) >= b.end_time)
  BY <1>1, <1>2, <1>3 DEF TrainingOver
<1>5. \A k \in 1..m : TimeAt(b, msgs, k) \in Nat /\ b.end_time \in Nat
  <2>1. msgs \in Seq(Nat) /\ b.end_time \in Nat
    BY DEF Backtesters
  <2>2. \A k \in 1..m : k \in 0..Len(msgs)
    BY <1>2
  <2> HIDE DEF msgs
  <2> QED BY <2>1, <2>2, TimeAtType
<1>6. over \subseteq 1..m /\ \A k \in over : n <= k
  <2>1. \A k \in over : k \in 1..m /\ ~(TimeAt(b, msgs, k) < b.end_time)
    BY <1>2, <1>5
  <2>2. \A k \in over : k \notin 1..(n - 1)
    BY <1>3, <2>1
  <2> QED BY <2>1, <2>2
<1>7. n < m => n \in over
  BY <1>2, <1>4
<1>8. Samples(b) = NewSeconds(b, msgs, 0, IF over = {} THEN m ELSE Min(over))
  BY Zenon, <1>2 DEF Samples
<1> HIDE DEF over, msgs
<1>9. n = IF over = {} THEN m ELSE Min(over)
  <2>1. CASE over = {}
    BY <1>3, <1>7, <2>1
  <2>2. CASE over # {}
    <3>1. Min(over) \in over /\ \A x \in over : Min(over) <= x
      <4>1. over \subseteq Nat
        BY <1>6
      <4> QED BY <2>2, <4>1, MinOfPart
    <3>2. Min(over) \in 1..m /\ n <= Min(over)
      BY <1>6, <3>1
    <3>3. n < m => Min(over) <= n
      BY <1>7, <3>1
    <3> QED BY <1>3, <2>2, <3>2, <3>3
  <2> QED BY <2>1, <2>2
<1> QED BY Zenon, <1>3, <1>8, <1>9

\* The samples are handed over, and the model fitted or not.
LEMMA FittedSound ==
  ASSUME NEW b, Sound(b, "train"), TrainingOver(b), starts # 0,
         NEW c, c = Moved(b) \/ c \in fit_model(Moved(b)),
         NEW q \in {"start", "failed"}
  PROVE  Sound(c, q)
<1>1. /\ b \in Backtesters /\ Typed(b) /\ TimesSet(b) /\ Trains(b, "train")
      /\ Holds(b, "train") /\ Stoppable(b, "train") /\ Advances(b)
  BY DEF Sound, Typed, Timed, Ready
<1>2. /\ c \in Backtesters /\ SameFeed(b, c) /\ SameRun(b, c)
      /\ SameTimes(b, c) /\ c.strategy = b.strategy /\ c.position = b.position
      /\ c.voi_history = b.train_voi
  BY <1>1, FitFields
<1>3. c.before = b.before /\ c.running = b.running /\ c.late = b.late
  BY <1>2 DEF SameRun
<1>4. c.position = 0 /\ c.strategy = kind
  BY <1>1, <1>2 DEF Holds, Ready
<1>5. Typed(c)
  BY <1>1, <1>2, <1>3, TypedSame
<1>6. TimesSet(c)
  BY <1>1, <1>2 DEF TimesSet, SameFeed, SameTimes
<1>7. Advances(c)
  BY <1>1, <1>2, AdvancesSame
<1>8. Holds(c, q)
  BY <1>4 DEF Holds
<1>9. Stoppable(c, q)
  BY <1>1, <1>3 DEF Stoppable, Looping
<1>10. InSession(c, q) /\ Paces(c, q)
  BY <1>4 DEF InSession, Paces, Looping
<1>11. starts = 1 => c.voi_history = Cardinality(Samples(c))
  <2>1. Samples(c) = Samples(b)
    BY <1>2, SamplesSame DEF SameFeed
  <2> QED BY Zenon, <1>1, <1>2, <2>1, TrainingEnd
<1>12. Trains(c, q)
  BY <1>11 DEF Trains
<1> QED BY <1>5, <1>6, <1>7, <1>8, <1>9, <1>10, <1>12 DEF Sound, Timed

\* running_ is clear before the loop: the task always goes on to set it.
LEMMA TestedSound ==
  ASSUME NEW b, Sound(b, "start"), starts # 0
  PROVE  ~b.running /\ Sound(b, "enter")
<1>1. /\ Typed(b) /\ TimesSet(b) /\ Trains(b, "start")
      /\ Holds(b, "start") /\ Stoppable(b, "start") /\ Advances(b)
  BY DEF Sound, Timed, Ready
<1>2. ~b.running /\ Stoppable(b, "enter")
  BY <1>1 DEF Stoppable, Looping
<1>3. b.position = 0 /\ Holds(b, "enter")
  BY <1>1 DEF Holds, Ready
<1>4. InSession(b, "enter") /\ Paces(b, "enter")
  BY <1>3 DEF InSession, Paces, Looping
<1>5. Trains(b, "enter")
  BY <1>1 DEF Trains, Ready
<1> QED BY <1>1, <1>2, <1>3, <1>4, <1>5 DEF Sound, Timed

\* A run begins with nothing seen.
LEMMA EnteredSound ==
  ASSUME NEW b, Sound(b, "enter"), starts # 0, NEW c, c = Enter(b)
  PROVE  Sound(c, "while")
<1>1. /\ b \in Backtesters /\ Typed(b) /\ TimesSet(b) /\ Trains(b, "enter")
      /\ Holds(b, "enter") /\ Advances(b)
  BY DEF Sound, Typed, Timed, Ready
<1>2. /\ c \in Backtesters /\ SameFeed(b, c) /\ SameTimes(b, c)
      /\ SameTraining(b, c) /\ SameStrategy(b, c)
      /\ c.running = TRUE /\ c.prev_seconds = 0 /\ c.late = 0
      /\ c.before = Len(b.given) /\ c.updates = {}
  BY <1>1, EnterFields
<1>3. /\ c.given = b.given /\ c.messages = b.messages /\ c.index = b.index
      /\ c.position = 0 /\ c.strategy = kind
      /\ c.voi_history = b.voi_history
  BY <1>1, <1>2 DEF SameFeed, SameStrategy, SameTraining, Holds, Ready
<1>4. PICK n \in Nat : n = Len(b.given)
  BY <1>1 DEF Backtesters
<1>5. Typed(c)
  BY <1>1, <1>2, <1>3, <1>4 DEF Typed
<1>6. TimesSet(c)
  BY <1>1, <1>2 DEF TimesSet, SameFeed, SameTimes
<1>7. Advances(c)
  BY <1>1, <1>2, AdvancesSame
<1>8. Holds(c, "while")
  BY <1>3 DEF Holds
<1>9. Stoppable(c, "while")
  BY <1>2 DEF Stoppable, Looping
<1>10. InSession(c, "while")
  <2>1. InRun(c) = {}
    BY <1>2, <1>3, <1>4 DEF InRun
  <2> QED BY <1>3, <2>1 DEF InSession
<1>11. Paces(c, "while")
  <2>1. Within(c, Given(c), n, n) = {} /\ NewSeconds(c, Given(c), n, n) = {}
    BY DEF Within, NewSeconds
  <2>2. Paced(c, Given(c), n, n, 0)
    BY <2>1 DEF Paced
  <2> QED BY <1>2, <1>3, <1>4, <2>1, <2>2 DEF Paces
<1>12. Trains(c, "while")
  <2>1. Samples(c) = Samples(b)
    BY <1>2, SamplesSame DEF SameFeed
  <2>2. kind = "linear" /\ starts = 1 => b.voi_history = Cardinality(Samples(b))
    BY <1>1 DEF Trains, Ready
  <2>3. kind = "linear" /\ starts = 1 => c.voi_history = Cardinality(Samples(c))
    BY Zenon, <1>3, <2>1, <2>2
  <2> QED BY <2>3 DEF Trains
<1> QED BY <1>5, <1>6, <1>7, <1>8, <1>9, <1>10, <1>11, <1>12 DEF Sound, Timed

\* The condition of the loop: another message, or the end of the run.
LEMMA WhileSound ==
  ASSUME NEW b, Sound(b, "while"), starts # 0,
         NEW q, q = IF Continues(b) THEN "body" ELSE "exit"
  PROVE  Sound(b, q)
<1>1. /\ b \in Backtesters /\ Typed(b) /\ TimesSet(b) /\ Trains(b, "while")
      /\ Holds(b, "while") /\ Stoppable(b, "while") /\ Advances(b)
      /\ InSession(b, "while") /\ Paces(b, "while")
  BY DEF Sound, Typed, Timed, Ready
<1>2. q \in {"body", "exit"}
  OBVIOUS
<1>3. Holds(b, q)
  BY <1>1, <1>2 DEF Holds, Ready
<1>4. Stoppable(b, q)
  BY <1>1 DEF Stoppable, Looping, Continues
<1>5. InSession(b, q)
  <2>1. q = "body" => b.index < Len(b.messages)
    BY DEF Continues
  <2>2. q = "exit" /\ stops = 0 => b.index = Len(b.messages)
    <3>1. b.index \in Nat /\ Len(b.messages) \in Nat /\ b.index <= Len(b.messages)
      BY <1>1 DEF Typed, Backtesters
    <3>2. stops = 0 => b.running
      BY <1>1 DEF Stoppable
    <3> QED BY <3>1, <3>2 DEF Continues
  <2> QED BY <1>1, <1>2, <2>1, <2>2 DEF InSession
<1>6. Paces(b, q)
  BY <1>1, <1>2 DEF Paces, Looping
<1>7. Trains(b, q)
  BY <1>1, <1>2 DEF Trains, Ready
<1> QED BY <1>1, <1>3, <1>4, <1>5, <1>6, <1>7 DEF Sound, Timed

\* The end of a run.
LEMMA ExitedSound ==
  ASSUME NEW b, Sound(b, "exit"), starts # 0, NEW c, c = stop_backtest(b)
  PROVE  Sound(c, "done")
<1>1. /\ b \in Backtesters /\ Typed(b) /\ TimesSet(b) /\ Stoppable(b, "exit")
      /\ Advances(b) /\ InSession(b, "exit")
  BY DEF Sound, Typed, Timed, Ready
<1>2. /\ c \in Backtesters /\ SameFeed(b, c) /\ SameTimes(b, c)
      /\ SameTraining(b, c) /\ SameStrategy(b, c)
      /\ c.running = FALSE /\ c.late = b.late
      /\ c.before = b.before /\ c.updates = b.updates
  BY <1>1, StopFields
<1>3. /\ c.given = b.given /\ c.messages = b.messages /\ c.index = b.index
      /\ c.position = b.position
  BY <1>2 DEF SameFeed, SameStrategy
<1>4. Typed(c)
  BY <1>1, <1>2, TypedSame
<1>5. TimesSet(c)
  BY <1>1, <1>2 DEF TimesSet, SameFeed, SameTimes
<1>6. Advances(c)
  BY <1>1, <1>2, AdvancesSame
<1>7. Stoppable(c, "done")
  BY <1>1, <1>2 DEF Stoppable
<1>8. InSession(c, "done")
  <2>1. \A k : Ends(c, k) = Ends(b, k)
    BY <1>2, SeenSame
  <2>2. InRun(c) = InRun(b)
    BY <1>2, <1>3 DEF InRun
  <2> QED BY <1>1, <1>2, <1>3, <2>1, <2>2 DEF InSession
<1>9. Holds(c, "done") /\ Paces(c, "done") /\ Trains(c, "done")
  BY DEF Holds, Paces, Trains, Ready, Looping
<1> QED BY <1>4, <1>5, <1>6, <1>7, <1>8, <1>9 DEF Sound, Timed

\* A stop from outside, wherever the task is.
LEMMA StoppedSound ==
  ASSUME NEW b, NEW p, Sound(b, p), stops # 0 \/ p \in {"none", "done", "failed"},
         NEW c, c = stop_backtest(b)
  PROVE  Sound(c, p)
<1>1. /\ b \in Backtesters /\ Typed(b) /\ Timed(b, p) /\ Trains(b, p)
      /\ Holds(b, p) /\ Stoppable(b, p) /\ Advances(b)
      /\ InSession(b, p) /\ Paces(b, p)
  BY DEF Sound, Typed
<1>2. /\ c \in Backtesters /\ SameFeed(b, c) /\ SameTimes(b, c)
      /\ SameTraining(b, c) /\ SameStrategy(b, c)
      /\ c.running = FALSE /\ c.prev_seconds = b.prev_seconds /\ c.late = b.late
      /\ c.before = b.before /\ c.updates = b.updates
  BY <1>1, StopFields
<1>3. /\ c.given = b.given /\ c.messages = b.messages /\ c.index = b.index
      /\ c.train_messages = b.train_messages
      /\ c.position = b.position /\ c.strategy = b.strategy
      /\ c.train_clock = b.train_clock /\ c.train_index = b.train_index
      /\ c.train_voi = b.train_voi /\ c.voi_history = b.voi_history
      /\ c.end_time = b.end_time
  BY <1>2 DEF SameFeed, SameStrategy, SameTraining, SameTimes
<1>4. Typed(c)
  BY <1>1, <1>2, TypedSame
<1>5. Timed(c, p)
  BY <1>1, <1>2 DEF Timed, TimesSet, SameFeed, SameTimes
<1>6. Advances(c)
  BY <1>1, <1>2, AdvancesSame
<1>7. Holds(c, p)
  BY <1>1, <1>3 DEF Holds
<1>8. Stoppable(c, p)
  BY <1>1, <1>2 DEF Stoppable
<1>9. /\ \A k : Ends(c, k) = Ends(b, k)
      /\ \A msgs, from, to :
           /\ NewSeconds(c, msgs, from, to) = NewSeconds(b, msgs, from, to)
           /\ \A prev : Paced(b, msgs, from, to, prev) => Paced(c, msgs, from, to, prev)
      /\ Samples(c) = Samples(b)
      /\ Given(c) = Given(b)
      /\ \A msgs, k : TimeAt(c, msgs, k) = TimeAt(b, msgs, k)
  BY <1>2, SeenSame, FeedSame
<1>10. InSession(c, p)
  <2>1. InRun(c) = InRun(b)
    BY <1>2, <1>3 DEF InRun
  <2> QED BY <1>1, <1>2, <1>3, <1>9, <2>1 DEF InSession
<1>11. Paces(c, p)
  BY <1>1, <1>2, <1>3, <1>9 DEF Paces
<1>12. Trains(c, p)
  <2>1. p \in Ready \ {"train"} /\ kind = "linear" /\ starts = 1 =>
          c.voi_history = Cardinality(Samples(c))
    BY Zenon, <1>1, <1>3, <1>9 DEF Trains
  <2>2. p = "train" /\ starts = 1 =>
          /\ c.train_clock = TimeAt(c, c.train_messages, c.train_index)
          /\ c.train_voi = Cardinality(NewSeconds(c, c.train_messages, 0, c.train_index))
    <3>1. p = "train" /\ starts = 1 =>
            /\ b.train_clock = TimeAt(b, b.train_messages, b.train_index)
            /\ b.train_voi = Cardinality(NewSeconds(b, b.train_messages, 0, b.train_index))
      BY <1>1 DEF Trains
    <3> QED BY <1>3, <1>9, <3>1
  <2>3. p = "train" /\ starts = 1 =>
          /\ Paced(c, c.train_messages, 0, c.train_index, c.prev_seconds)
          /\ \A k \in 1..(c.train_index - 1) : TimeAt(c, c.train_messages, k) < c.end_time
    <3>1. p = "train" /\ starts = 1 =>
            /\ Paced(b, b.train_messages, 0, b.train_index, b.prev_seconds)
            /\ \A k \in 1..(b.train_index - 1) : TimeAt(b, b.train_messages, k) < b.end_time
      BY <1>1 DEF Trains
    <3> QED BY <1>2, <1>3, <1>9, <3>1
  <2>4. /\ p = "train" => c.train_index <= Len(c.train_messages)
        /\ starts = 0 \/ (starts = 1 /\ p \in {"create", "prepare"}) =>
             c.train_clock = 0 /\ c.train_voi = 0
    BY Zenon, <1>1, <1>3 DEF Trains
  <2> QED BY Zenon, <2>1, <2>2, <2>3, <2>4 DEF Trains
<1> QED BY <1>4, <1>5, <1>6, <1>7, <1>8, <1>10, <1>11, <1>12 DEF Sound

\* One message of the replay: c is given what b was, and the next message.
LEMMA BodySound ==
  ASSUME NEW b, Sound(b, "body"), starts # 0, NEW c, c \in Body(b),
         NEW q, q = IF SessionOver(c) THEN "exit" ELSE "while"
  PROVE  Sound(c, q)
<1>1. /\ b \in Backtesters /\ Typed(b) /\ TimesSet(b) /\ Trains(b, "body")
      /\ Holds(b, "body") /\ Stoppable(b, "body") /\ Advances(b)
      /\ InSession(b, "body") /\ Paces(b, "body")
  BY DEF Sound, Typed, Timed, Ready
<1>2. PICK n \in Nat, i \in Nat, from \in Nat, last \in Nat :
        n = Len(b.given) /\ i = b.index /\ from = b.before /\ last = Len(b.messages)
  BY <1>1 DEF Backtesters
<1>3. i < last /\ from <= n /\ b.given \in Seq(Nat) /\ b.messages \in Seq(Nat)
  BY <1>1, <1>2 DEF InSession, Typed, Backtesters
<1>4. PICK clock : clock = Clock(b, b.clock, b.messages[i + 1])
  OBVIOUS
<1>5. PICK due : due = Due(b, clock, b.prev_seconds)
  OBVIOUS
<1>6. BodyEffect(b, c, clock, due)
  <2>1. b.index + 1 \in 1..Len(b.messages)
    BY <1>2, <1>3
  <2>2. clock = Clock(b, b.clock, b.messages[b.index + 1])
    BY <1>2, <1>4
  <2> QED BY <1>1, <1>5, <2>1, <2>2, BodyFields
<1>7. /\ c \in Backtesters /\ SameTimes(b, c) /\ SameTraining(b, c)
      /\ c.messages = b.messages /\ c.train_messages = b.train_messages
      /\ c.file_named = b.file_named /\ c.clock_runs = b.clock_runs
      /\ c.strategy = b.strategy /\ c.running = b.running /\ c.before = from
      /\ c.given = Append(b.given, i + 1) /\ c.clock = clock
      /\ c.late = IF b.running THEN b.late ELSE b.late + 1
  BY <1>2, <1>6 DEF BodyEffect
<1>8. /\ c.prev_seconds = IF due THEN clock ELSE Armed(b, clock, b.prev_seconds)
      /\ c.updates = IF due THEN b.updates \cup {n + 1} ELSE b.updates
      /\ clock >= b.end_time => c.position = 0
      /\ ~due /\ ~(clock >= b.end_time) => c.position = b.position
      /\ c.index = IF clock >= b.end_time THEN i ELSE i + 1
  BY <1>2, <1>6 DEF BodyEffect
<1>9. /\ c.start_time = b.start_time /\ c.end_time = b.end_time
      /\ c.voi_history = b.voi_history
  BY <1>7 DEF SameTimes, SameTraining
<1>10. /\ Len(c.given) = n + 1 /\ c.given[n + 1] = i + 1
       /\ \A k \in 1..n : c.given[k] = b.given[k]
       /\ c.given \in Seq(Nat)
       /\ DOMAIN c.given = 1..(n + 1) /\ DOMAIN b.given = 1..n
  <2>1. i + 1 \in Nat
    OBVIOUS
  <2>2. /\ Len(c.given) = n + 1 /\ c.given[n + 1] = i + 1
        /\ \A k \in 1..n : c.given[k] = b.given[k]
        /\ c.given \in Seq(Nat)
    BY <1>2, <1>3, <1>7, <2>1, AppendProperties
  <2> QED BY <1>2, <1>3, <2>2
<1>11. q \in {"exit", "while"} /\ (q = "exit" <=> clock >= b.end_time)
  BY <1>7, <1>9 DEF SessionOver
<1>12. /\ Len(Given(c)) = n + 1 /\ Given(c)[n + 1] = b.messages[i + 1]
       /\ \A k \in 1..n : Given(c)[k] = Given(b)[k]
       /\ Given(c) \in Seq(Nat)
  <2>1. DOMAIN c.given = 1..(n + 1) /\ DOMAIN b.given = 1..n
    BY <1>10
  <2>2. Given(c) = [k \in 1..(n + 1) |-> b.messages[c.given[k]]]
    BY Zenon, <1>7, <2>1 DEF Given
  <2>3. Given(b) = [k \in 1..n |-> b.messages[b.given[k]]]
    BY Zenon, <2>1 DEF Given
  <2>4. \A k \in 1..(n + 1) : c.given[k] \in 1..last
    <3>1. \A k \in 1..n : b.given[k] \in 1..last
      BY <1>1, <1>2, <2>1 DEF Typed
    <3>2. i + 1 \in 1..last
      BY <1>3
    <3>3. \A k \in 1..(n + 1) : k \in 1..n \/ k = n + 1
      OBVIOUS
    <3> QED BY <1>10, <3>1, <3>2, <3>3
  <2>5. \A k \in 1..(n + 1) : b.messages[c.given[k]] \in Nat
    <3>1. \A x \in 1..last : b.messages[x] \in Nat
      BY <1>2, <1>3
    <3> QED BY Zenon, <2>4, <3>1
  <2>6. \A k \in 1..n : k \in 1..(n + 1)
    OBVIOUS
  <2>7. n + 1 \in 1..(n + 1) /\ n + 1 \in Nat
    OBVIOUS
  <2>11. /\ \A k \in 1..(n + 1) : Given(c)[k] = b.messages[c.given[k]]
         /\ \A k \in 1..n : Given(b)[k] = b.messages[b.given[k]]
    BY <2>2, <2>3
  <2>8. \A k \in 1..n : Given(c)[k] = Given(b)[k]
    BY Zenon, <1>10, <2>6, <2>11
  <2>9. Given(c)[n + 1] = b.messages[i + 1]
    BY <1>10, <2>7, <2>11
  <2>10. Given(c) \in Seq(Nat) /\ Len(Given(c)) = n + 1
    BY <2>2, <2>5, <2>7
  <2> QED BY <2>8, <2>9, <2>10
<1>13. \A k \in 0..n : TimeAt(c, Given(c), k) = TimeAt(b, Given(b), k)
  <2>1. ASSUME NEW k \in 0..n
        PROVE  TimeAt(c, Given(c), k) = TimeAt(b, Given(b), k)
    <3>1. k \in Nat /\ \A j \in 1..k : j \in 1..n
      OBVIOUS
    <3>2. \A j \in 1..k : Given(c)[j] = Given(b)[j]
      BY Zenon, <1>12, <3>1
    <3> QED BY <1>7, <3>1, <3>2, TimeAtSame
  <2> QED BY <2>1
<1>14. TimeAt(c, Given(c), n + 1) = clock /\ clock \in Nat
  <2>1. TimeAt(c, Given(c), n + 1) = Clock(c, TimeAt(c, Given(c), n), Given(c)[n + 1])
    BY TimeAtNext
  <2>2. b.clock = TimeAt(b, Given(b), n)
    BY Zenon, <1>1, <1>2 DEF Advances
  <2>3. n \in 0..n /\ n + 1 \in 0..(n + 1) /\ n + 1 \in 0..Len(Given(c))
    BY <1>12
  <2>4. TimeAt(c, Given(c), n) = b.clock
    BY Zenon, <1>13, <2>2, <2>3
  <2>5. Clock(c, b.clock, b.messages[i + 1]) = clock
    BY <1>4, <1>7 DEF Clock
  <2>6. TimeAt(c, Given(c), n + 1) \in Nat
    BY <1>12, <2>3, TimeAtType
  <2> QED BY Zenon, <1>12, <2>1, <2>4, <2>5, <2>6
<1>15. /\ \A k \in 0..n : Ends(c, k) = Ends(b, k)
       /\ Ends(c, n + 1) <=> clock >= b.end_time
  BY Zenon, <1>9, <1>13, <1>14 DEF Ends
<1>16. Typed(c)
  <2>1. c.index <= Len(c.messages) /\ c.before <= Len(c.given)
    BY <1>2, <1>3, <1>7, <1>8, <1>10
  <2>2. \A k \in DOMAIN c.given : c.given[k] \in 1..Len(c.messages)
    <3>1. DOMAIN c.given = 1..(n + 1) /\ DOMAIN b.given = 1..n
      BY <1>10
    <3>2. \A k \in 1..n : b.given[k] \in 1..last
      BY <1>1, <1>2, <3>1 DEF Typed
    <3>3. i + 1 \in 1..last
      BY <1>3
    <3>4. \A k \in 1..(n + 1) : k \in 1..n \/ k = n + 1
      OBVIOUS
    <3> QED BY <1>2, <1>7, <1>10, <3>1, <3>2, <3>3, <3>4
  <2> QED BY <1>7, <2>1, <2>2 DEF Typed
<1>17. TimesSet(c)
  BY <1>1, <1>7, <1>9 DEF TimesSet
<1>18. Holds(c, q)
  BY <1>1, <1>7, <1>11 DEF Holds, Ready
<1>19. Stoppable(c, q)
  <2>1. b.late = 0 /\ (stops = 0 => b.running)
    BY <1>1 DEF Stoppable
  <2>2. c.late = 0 \/ (c.late = 1 /\ ~c.running)
    BY <1>7, <2>1
  <2> QED BY <1>7, <1>11, <2>1, <2>2 DEF Stoppable, Looping
<1>20. Advances(c)
  <2>1. c.clock = TimeAt(c, Given(c), Len(c.given))
    BY <1>7, <1>10, <1>14
  <2>2. c.given # << >>
    BY <1>10
  <2>3. c.index = c.given[Len(c.given)] - IF Ends(c, Len(c.given)) THEN 1 ELSE 0
    BY <1>8, <1>10, <1>15
  <2>4. ASSUME NEW k \in DOMAIN c.given
        PROVE  IF k = 1 THEN c.given[k] = 1
               ELSE c.given[k] = c.given[k - 1] + IF Ends(c, k - 1) THEN 0 ELSE 1
    <3>1. k \in 1..(n + 1) /\ DOMAIN b.given = 1..n
      BY <1>10
    <3>2. CASE k \in 1..n
      <4>1. IF k = 1 THEN b.given[k] = 1
            ELSE b.given[k] = b.given[k - 1] + IF Ends(b, k - 1) THEN 0 ELSE 1
        BY <1>1, <3>1, <3>2 DEF Advances
      <4>2. k - 1 \in 0..n /\ (k # 1 => k - 1 \in 1..n)
        BY <3>2
      <4> QED BY <1>10, <1>15, <3>2, <4>1, <4>2
    <3>3. CASE k = n + 1 /\ n = 0
      <4>1. i = 0
        <5>1. b.given = << >>
          BY <1>2, <1>3, <3>3, EmptySeq
        <5> QED BY <1>1, <1>2, <5>1 DEF Advances
      <4> QED BY <1>10, <3>3, <4>1
    <3>4. CASE k = n + 1 /\ n # 0
      <4>1. b.given # << >> /\ n \in 1..n /\ n \in 0..n
        BY <1>2, <1>3, <3>4
      <4>2. i = b.given[n] - IF Ends(b, n) THEN 1 ELSE 0
        BY <1>1, <1>2, <4>1 DEF Advances
      <4>3. b.given[n] \in Nat
        BY <1>2, <1>3, <4>1
      <4>4. c.given[n] = b.given[n] /\ (Ends(c, n) <=> Ends(b, n))
        BY <1>10, <1>15, <4>1
      <4> QED BY <1>10, <3>4, <4>2, <4>3, <4>4
    <3> QED BY <3>1, <3>2, <3>3, <3>4
  <2> QED BY <2>1, <2>2, <2>3, <2>4 DEF Advances
<1>21. \A k \in InRun(b) : ~Ends(b, k)
  BY <1>1 DEF InSession
<1>22. ~(clock >= b.end_time) => \A k \in InRun(c) : ~Ends(c, k)
  <2>1. \A k \in InRun(c) : (k \in InRun(b) /\ k \in 0..n) \/ k = n + 1
    BY <1>2, <1>7, <1>10 DEF InRun
  <2> QED BY Zenon, <1>15, <1>21, <2>1
<1>23. InSession(c, q)
  <2>1. c.position # 0 => c.updates # {}
    BY <1>1, <1>8 DEF InSession
  <2> QED BY <1>8, <1>10, <1>11, <1>15, <1>22, <2>1 DEF InSession
<1>24. Paces(c, q)
  <2>1. /\ b.updates = NewSeconds(b, Given(b), from, n)
        /\ Paced(b, Given(b), from, n, b.prev_seconds)
    BY <1>1, <1>2 DEF Paces, Looping
  <2>2. \A k \in (from + 1)..n : k \in 0..n
    OBVIOUS
  <2>3. \A k \in (from + 1)..n : TimeAt(c, Given(c), k) = TimeAt(b, Given(b), k)
    BY Zenon, <1>13, <2>2
  <2>4. /\ Within(c, Given(c), from, n) = Within(b, Given(b), from, n)
        /\ NewSeconds(c, Given(c), from, n) = NewSeconds(b, Given(b), from, n)
        /\ Paced(c, Given(c), from, n, b.prev_seconds)
    <3>1. c.start_time = b.start_time
      BY <1>9
    <3> QED BY <2>1, <2>3, <3>1, SamePace
  <2>5. Within(c, Given(c), from, n) # {} => c.start_time > 0
    <3>1. SUFFICES ASSUME NEW k \in Within(b, Given(b), from, n)
                   PROVE  b.start_time > 0
      BY <1>9, <2>4
    <3>2. k \in InRun(b) /\ k \in 0..n
      BY <1>2 DEF Within, InRun
    <3>3. TimeAt(c, Given(c), k) \in Nat
      <4>1. k \in 0..Len(Given(c))
        BY <1>12, <3>2
      <4> QED BY <1>12, <4>1, TimeAtType
    <3>4. TimeAt(b, Given(b), k) \in Nat
      BY Zenon, <1>13, <3>2, <3>3
    <3>5. ~(TimeAt(b, Given(b), k) >= b.end_time)
      BY Zenon, <1>21, <3>2 DEF Ends
    <3>6. b.end_time # 0
      BY <3>4, <3>5
    <3> QED BY <1>1, <3>6, BacktesterAssumption DEF TimesSet, Unset, BacktesterAssumption
  <2>6. KeepsPace(c, Given(c), from, n, b.prev_seconds)
    <3>2. c.start_time \in Nat
      BY <1>7 DEF Backtesters
    <3>1. c.start_time \in Nat /\ n < Len(Given(c))
      BY <1>12, <3>2
    <3> QED BY <1>3, <1>12, <2>4, <2>5, <3>1, Pace
  <2>7. /\ Due(c, clock, b.prev_seconds) = due
        /\ Armed(c, clock, b.prev_seconds) = Armed(b, clock, b.prev_seconds)
    BY <1>5, <1>9 DEF Due, Armed
  <2>8. /\ Paced(c, Given(c), from, n + 1, c.prev_seconds)
        /\ NewSeconds(c, Given(c), from, n + 1) =
             IF due THEN NewSeconds(c, Given(c), from, n) \cup {n + 1}
             ELSE NewSeconds(c, Given(c), from, n)
    BY Zenon, <1>8, <1>14, <2>6, <2>7 DEF KeepsPace
  <2>9. c.updates = NewSeconds(c, Given(c), from, n + 1)
    BY Zenon, <1>8, <2>1, <2>4, <2>8
  <2> QED BY <1>7, <1>10, <2>8, <2>9 DEF Paces
<1>25. Trains(c, q)
  <2>1. Samples(c) = Samples(b)
    BY <1>7, SamplesSame
  <2>2. kind = "linear" /\ starts = 1 => b.voi_history = Cardinality(Samples(b))
    BY <1>1 DEF Trains, Ready
  <2>3. kind = "linear" /\ starts = 1 => c.voi_history = Cardinality(Samples(c))
    BY Zenon, <1>9, <2>1, <2>2
  <2> QED BY <1>11, <2>3 DEF Trains
<1> QED BY <1>16, <1>17, <1>18, <1>19, <1>20, <1>23, <1>24, <1>25 DEF Sound, Timed

-----------------------------------------------------------------------------
(* The steps of the owner and of the stopping thread, as one task sees them. *)

\* A step that leaves a task where it is, and starts no new run.
LEMMA SoundFrame ==
  ASSUME NEW b, NEW p, Sound(b, p), kind' = kind, starts' = starts,
         main' = main \/ main' # "waiting", stops' = stops \/ stops' # 0
  PROVE  Sound(b, p)'
<1>1. Typed(b)' /\ Timed(b, p)' /\ Holds(b, p)' /\ Advances(b)' /\ Paces(b, p)'
  BY DEF Sound, Typed, Timed, Holds, Advances, Paces
<1>2. Stoppable(b, p)' /\ Trains(b, p)'
  BY DEF Sound, Stoppable, Trains
<1>3. InSession(b, p)'
  BY DEF Sound, InSession
<1> QED BY <1>1, <1>2, <1>3 DEF Sound

\* A new run of a task that is not running.
LEMMA SoundStart ==
  ASSUME NEW b, NEW p \in {"none", "done", "failed"}, Sound(b, p),
         starts \in Nat, starts' = starts + 1
  PROVE  Sound(b, "create")'
<1>1. Typed(b)' /\ Advances(b)'
  BY DEF Sound, Typed, Advances
<1>2. Timed(b, "create")' /\ Holds(b, "create")' /\ Paces(b, "create")'
  BY DEF Sound, Timed, Holds, Paces, Ready, Looping
<1>3. Stoppable(b, "create")' /\ InSession(b, "create")'
  BY DEF Sound, Stoppable, InSession, Looping
<1>4. Trains(b, "create")'
  BY DEF Sound, Trains, Ready
<1> QED BY <1>1, <1>2, <1>3, <1>4 DEF Sound

\* A step of the task of i from one place to another.
LEMMA AtSound ==
  ASSUME IInv, NEW i \in Added, NEW here \in Places, NEW there \in Places, NEW c,
         At(i, here, there, c), Sound(c, there)
  PROVE  \A j \in Added' : Sound(bt[j], pc[j])'
<1>1. /\ Added \subseteq Instruments /\ bt = [j \in Added |-> bt[j]] /\ pc \in [Instruments -> Places]
      /\ \A j \in Added : Sound(bt[j], pc[j])
  BY DEF IInv, Threads
<1>2. /\ bt' = [bt EXCEPT ![i] = c] /\ pc' = [pc EXCEPT ![i] = there]
      /\ main' = main /\ kind' = kind /\ starts' = starts /\ stops' = stops
  BY DEF At
<1>3. Added' = Added /\ bt'[i] = c /\ pc'[i] = there
  BY <1>1, <1>2 DEF Added
<1>4. \A j \in Added : j # i => bt'[j] = bt[j] /\ pc'[j] = pc[j]
  BY <1>1, <1>2 DEF Added
<1>5. Sound(bt[i], pc[i])'
  <2>1. Sound(c, there)'
    BY <1>2, SoundFrame
  <2> QED BY <1>3, <2>1
<1>6. ASSUME NEW j \in Added, j # i
      PROVE  Sound(bt[j], pc[j])'
  <2>1. PICK b, p : b = bt[j] /\ p = pc[j]
    OBVIOUS
  <2>2. Sound(b, p)
    BY <1>1, <2>1
  <2>3. Sound(b, p)'
    BY <1>2, <2>2, SoundFrame
  <2> QED BY <1>4, <1>6, <2>1, <2>3
<1> QED BY <1>3, <1>5, <1>6

\* It draws a connection, or none; and it leaves the threads as they should be.
LEMMA AtThreads ==
  ASSUME IInv, NEW i \in Added, NEW here \in Places, NEW there \in Places, NEW c,
         here # "none", there # "none", At(i, here, there, c),
         \/ /\ free' = free - 1 /\ free > 0
            /\ here = "create" /\ there # "create" /\ there # "stuck"
         \/ /\ free' = free
            /\ there = "stuck" => free = 0
            /\ (here \in {"create", "stuck"}) <=> (there \in {"create", "stuck"})
  PROVE  Threads' /\ Drawn'
<1>1. Threads /\ Drawn
  BY DEF IInv
<1>2. /\ Added \subseteq Instruments /\ bt = [j \in Added |-> bt[j]]
      /\ pc \in [Instruments -> Places] /\ free \in 0..Connections
      /\ starts \in Nat
  BY <1>1 DEF Threads
<1>3. /\ bt' = [bt EXCEPT ![i] = c] /\ pc' = [pc EXCEPT ![i] = there]
      /\ main' = main /\ kind' = kind /\ starts' = starts /\ stops' = stops
      /\ stopping' = stopping /\ main = "waiting" /\ pc[i] = here
  BY DEF At
<1>4. Added' = Added /\ bt' = [j \in Added' |-> bt'[j]] /\ pc' \in [Instruments -> Places]
  BY <1>2, <1>3 DEF Added
<1>5. free' \in 0..Connections
  BY <1>2, ConcurrentAssumption DEF ConcurrentAssumption
<1>6. Threads'
  <2>1. /\ kind \in Kinds /\ stops \in Nat /\ stopping \subseteq Added
        /\ (main = "setup") <=> (starts = 0)
        /\ stopping # {} => stops > 0 \/ main = "destroying"
    BY <1>1 DEF Threads
  <2> QED BY <1>2, <1>3, <1>4, <1>5, <2>1 DEF Threads
<1>7. starts > 0 /\ pc'[i] = there /\ \A j \in Instruments : j # i => pc'[j] = pc[j]
  BY <1>1, <1>2, <1>3 DEF Threads
<1>8. IsFiniteSet(Added) /\ IsFiniteSet(Made) /\ Made \subseteq Added
  <2>1. IsFiniteSet(Added)
    BY <1>2, FS_Subset, ConcurrentAssumption DEF ConcurrentAssumption
  <2>2. Made \subseteq Added
    BY DEF Made
  <2> QED BY <2>1, <2>2, FS_Subset
<1>9. Connections - free' <= Cardinality(Added) * (starts - 1) + Cardinality(Made')
  <2>1. Connections - free <= Cardinality(Added) * (starts - 1) + Cardinality(Made)
    BY <1>1, <1>7 DEF Drawn
  <2>2. Cardinality(Added) * (starts - 1) \in Int /\ Cardinality(Made) \in Nat
    <3>1. Cardinality(Added) \in Nat /\ Cardinality(Made) \in Nat
      BY <1>8, FS_CardinalityType
    <3>2. starts - 1 \in Int
      BY <1>2
    <3> QED BY <3>1, <3>2
  <2>3. CASE free' = free - 1 /\ here = "create" /\ there # "create" /\ there # "stuck"
    <3>1. Made' = Made \cup {i} /\ i \notin Made
      BY <1>2, <1>3, <1>4, <1>7, <2>3 DEF Made
    <3>2. Cardinality(Made') = Cardinality(Made) + 1
      BY <1>8, <3>1, FS_AddElement
    <3> DEFINE drawn == Cardinality(Added) * (starts - 1)
    <3> HIDE DEF drawn
    <3>3. Connections - free <= drawn + Cardinality(Made) /\ drawn \in Int
      BY <2>1, <2>2 DEF drawn
    <3>4. Connections - free' <= drawn + Cardinality(Made')
      BY <1>2, <2>2, <2>3, <3>2, <3>3, ConcurrentAssumption DEF ConcurrentAssumption
    <3> QED BY <3>4 DEF drawn
  <2>4. CASE free' = free /\ ((here \in {"create", "stuck"}) <=> (there \in {"create", "stuck"}))
    <3>1. Made' = Made
      BY <1>2, <1>3, <1>4, <1>7, <2>4 DEF Made
    <3> QED BY <2>1, <2>4, <3>1
  <2> QED BY <2>3, <2>4
<1>10. \A j \in Instruments : pc'[j] # "none" => j \in Added
  BY <1>1, <1>2, <1>7 DEF Drawn
<1>11. Hangs' => free' = 0
  <2>1. Hangs => free = 0
    BY <1>1 DEF Drawn
  <2>2. Hangs' => Hangs \/ there = "stuck"
    BY <1>2, <1>7 DEF Hangs
  <2> QED BY <2>1, <2>2
<1>12. Drawn'
  BY <1>3, <1>4, <1>7, <1>9, <1>10, <1>11 DEF Drawn
<1> QED BY <1>6, <1>12

-----------------------------------------------------------------------------
(* One step of a task preserves the invariant. *)

\* What a step of the task of i may rely on.
LEMMA TaskKnows ==
  ASSUME IInv, NEW i \in Added, NEW here, NEW there, NEW c, At(i, here, there, c)
  PROVE  /\ Sound(bt[i], here) /\ starts # 0
         /\ kind \in {"imbalance", "linear"}
<1>1. main = "waiting" /\ pc[i] = here
  BY DEF At
<1>2. Sound(bt[i], pc[i])
  BY DEF IInv
<1>3. starts # 0 /\ kind \in {"imbalance", "linear"}
  BY <1>1, ConcurrentAssumption DEF IInv, Threads, ConcurrentAssumption
<1> QED BY <1>1, <1>2, <1>3

\* The strategy is made, or not, or waits for the pool for good.
LEMMA CreateKeeps ==
  ASSUME IInv, NEW i \in Added, Create(i) \/ CreateStuck(i)
  PROVE  IInv'
<1>1. PICK there, c :
        /\ there \in {"prepare", "failed", "stuck"}
        /\ At(i, "create", there, c)
        /\ \/ there = "prepare" /\ c = create_strategy(bt[i], kind)
           \/ there \in {"failed", "stuck"} /\ c = WithoutStrategy(bt[i])
        /\ \/ there # "stuck" /\ free' = free - 1 /\ free > 0
           \/ there = "stuck" /\ free' = free /\ free = 0
  BY DEF Create, CreateStuck
<1>2. Sound(bt[i], "create") /\ kind \in {"imbalance", "linear"}
  BY <1>1, TaskKnows
<1>3. Sound(c, there)
  <2>1. PICK b : b = bt[i]
    OBVIOUS
  <2> QED BY <1>1, <1>2, <2>1, CreatedSound
<1>4. "create" \in Places /\ there \in Places
  BY <1>1 DEF Places
<1>5. Threads' /\ Drawn'
  BY <1>1, <1>4, AtThreads
<1>6. \A j \in Added' : Sound(bt[j], pc[j])'
  BY <1>1, <1>3, <1>4, AtSound
<1> QED BY <1>5, <1>6 DEF IInv

\* The other steps of a task draw nothing: one lemma for all of them.
LEMMA StepKeeps ==
  ASSUME IInv, NEW i \in Added, UNCHANGED free,
         NEW here \in Ready \cup {"prepare"}, NEW there \in Ready \cup {"failed", "done"}, NEW c,
         At(i, here, there, c), Sound(c, there)
  PROVE  IInv'
<1>1. here \in Places /\ there \in Places
  BY DEF Places
<1>2. /\ here # "none" /\ there # "none" /\ there # "stuck"
      /\ here \notin {"create", "stuck"} /\ there \notin {"create", "stuck"}
  BY DEF Ready
<1>3. Threads' /\ Drawn'
  BY <1>1, <1>2, AtThreads
<1>4. \A j \in Added' : Sound(bt[j], pc[j])'
  BY <1>1, AtSound
<1> QED BY <1>3, <1>4 DEF IInv

\* set_trading_times, and the beginning of the training.
LEMMA PrepareKeeps ==
  ASSUME IInv, NEW i \in Added, Prepare(i)
  PROVE  IInv'
<1>1. PICK b : b = bt[i]
  OBVIOUS
<1>2. CASE kind = "linear"
  <2>1. PICK c : c = EnterTraining(set_trading_times(b))
    OBVIOUS
  <2>2. At(i, "prepare", "train", c) /\ UNCHANGED free
    BY <1>1, <1>2, <2>1 DEF Prepare
  <2>3. Sound(c, "train")
    BY <1>1, <2>1, <2>2, TaskKnows, TrainingSound
  <2> QED BY <2>2, <2>3, StepKeeps DEF Ready
<1>3. CASE kind # "linear"
  <2>1. PICK c : c = set_trading_times(b)
    OBVIOUS
  <2>2. At(i, "prepare", "start", c) /\ UNCHANGED free
    BY <1>1, <1>3, <2>1 DEF Prepare
  <2>3. Sound(c, "start")
    BY <1>1, <1>3, <2>1, <2>2, TaskKnows, PreparedSound
  <2> QED BY <2>2, <2>3, StepKeeps DEF Ready
<1> QED BY <1>2, <1>3

\* A message of the training.
LEMMA TrainKeeps ==
  ASSUME IInv, NEW i \in Added, TrainMessage(i)
  PROVE  IInv'
<1>1. PICK b : b = bt[i]
  OBVIOUS
<1>2. PICK c : c = TrainOn(b)
  OBVIOUS
<1>3. At(i, "train", "train", c) /\ UNCHANGED free /\ ~TrainingOver(b)
  BY <1>1, <1>2 DEF TrainMessage
<1>4. Sound(b, "train") /\ starts # 0
  BY <1>1, <1>3, TaskKnows
<1>5. Sound(c, "train")
  BY <1>2, <1>3, <1>4, TrainStepSound
<1> QED BY <1>3, <1>5, StepKeeps DEF Ready

\* The end of the training.
LEMMA FitKeeps ==
  ASSUME IInv, NEW i \in Added, FitModel(i)
  PROVE  IInv'
<1>1. PICK b : b = bt[i]
  OBVIOUS
<1>2. PICK there, c :
        /\ there \in {"start", "failed"}
        /\ At(i, "train", there, c)
        /\ c = Moved(b) \/ c \in fit_model(Moved(b))
  BY <1>1 DEF FitModel
<1>3. UNCHANGED free /\ TrainingOver(b)
  BY <1>1 DEF FitModel
<1>4. Sound(b, "train") /\ starts # 0
  BY <1>1, <1>2, TaskKnows
<1>5. Sound(c, there)
  BY <1>2, <1>3, <1>4, FittedSound
<1> QED BY <1>2, <1>3, <1>5, StepKeeps DEF Ready

\* The tests of running_ and its setting.
LEMMA RunKeeps ==
  ASSUME IInv, NEW i \in Added, TestRunning(i) \/ SetRunning(i) \/ While(i)
  PROVE  IInv'
<1>1. PICK b : b = bt[i]
  OBVIOUS
<1>2. CASE TestRunning(i)
  <2>1. PICK q : q = IF b.running THEN "done" ELSE "enter"
    OBVIOUS
  <2>2. At(i, "start", q, b) /\ UNCHANGED free
    BY <1>1, <1>2, <2>1 DEF TestRunning
  <2>3. ~b.running /\ Sound(b, "enter")
    BY <1>1, <2>2, TaskKnows, TestedSound
  <2>4. q = "enter"
    BY <2>1, <2>3
  <2> QED BY <2>2, <2>3, <2>4, StepKeeps DEF Ready
<1>3. CASE SetRunning(i)
  <2>1. PICK c : c = Enter(b)
    OBVIOUS
  <2>2. At(i, "enter", "while", c) /\ UNCHANGED free
    BY <1>1, <1>3, <2>1 DEF SetRunning
  <2>3. Sound(c, "while")
    BY <1>1, <2>1, <2>2, TaskKnows, EnteredSound
  <2> QED BY <2>2, <2>3, StepKeeps DEF Ready
<1>4. CASE While(i)
  <2>1. PICK q : q = IF Continues(b) THEN "body" ELSE "exit"
    OBVIOUS
  <2>2. At(i, "while", q, b) /\ UNCHANGED free
    BY <1>1, <1>4, <2>1 DEF While
  <2>3. Sound(b, q)
    BY <1>1, <2>1, <2>2, TaskKnows, WhileSound
  <2> QED BY <2>1, <2>2, <2>3, StepKeeps DEF Ready
<1> QED BY <1>2, <1>3, <1>4

\* A message of the replay, and the end of the run.
LEMMA ReplayKeeps ==
  ASSUME IInv, NEW i \in Added, ReplayMessage(i) \/ Exit(i)
  PROVE  IInv'
<1>1. PICK b : b = bt[i]
  OBVIOUS
<1>2. CASE ReplayMessage(i)
  <2>1. PICK c \in Body(b) : At(i, "body", IF SessionOver(c) THEN "exit" ELSE "while", c)
    BY <1>1, <1>2 DEF ReplayMessage
  <2>2. PICK q : q = IF SessionOver(c) THEN "exit" ELSE "while"
    OBVIOUS
  <2>3. At(i, "body", q, c) /\ UNCHANGED free
    BY <1>2, <2>1, <2>2 DEF ReplayMessage
  <2>4. Sound(b, "body") /\ starts # 0
    BY <1>1, <2>3, TaskKnows
  <2>5. Sound(c, q)
    BY <2>1, <2>2, <2>4, BodySound
  <2> QED BY <2>2, <2>3, <2>5, StepKeeps DEF Ready
<1>3. CASE Exit(i)
  <2>1. PICK c : c = stop_backtest(b)
    OBVIOUS
  <2>2. At(i, "exit", "done", c) /\ UNCHANGED free
    BY <1>1, <1>3, <2>1 DEF Exit
  <2>3. Sound(c, "done")
    BY <1>1, <2>1, <2>2, TaskKnows, ExitedSound
  <2> QED BY <2>2, <2>3, StepKeeps DEF Ready
<1> QED BY <1>2, <1>3

-----------------------------------------------------------------------------
(* The owner and the stopping thread. *)

\* A step that touches no task and starts no run leaves the tasks sound.
LEMMA OthersSound ==
  ASSUME IInv, bt' = bt, pc' = pc, kind' = kind, starts' = starts,
         main' = main \/ main' # "waiting", stops' = stops \/ stops' # 0
  PROVE  \A j \in Added' : Sound(bt[j], pc[j])'
<1>1. ASSUME NEW j \in Added'
      PROVE  Sound(bt[j], pc[j])'
  <2>1. PICK b, p : b = bt[j] /\ p = pc[j]
    OBVIOUS
  <2>2. j \in Added
    BY DEF Added
  <2>3. Sound(b, p)
    BY <2>1, <2>2 DEF IInv
  <2>4. Sound(b, p)'
    BY <2>3, SoundFrame
  <2> QED BY <2>1, <2>4
<1> QED BY <1>1

\* The pool counts as before.
LEMMA DrawnSame ==
  ASSUME Drawn, Added' = Added, pc' = pc, free' = free, starts' = starts
  PROVE  Drawn'
<1>1. Made' = Made /\ (Hangs' <=> Hangs)
  BY DEF Made, Hangs
<1> QED BY <1>1 DEF Drawn

\* The steps that touch no Backtester.
LEMMA OwnerKeeps ==
  ASSUME IInv, \/ AllWaited \/ StopBacktest \/ Destroy \/ Destroyed \/ UNCHANGED vars
               \/ \E i \in Added : Crash(i)
  PROVE  IInv'
<1>1. /\ bt' = bt /\ pc' = pc /\ kind' = kind /\ starts' = starts /\ free' = free
      /\ main' = main \/ main' # "waiting"
  BY DEF AllWaited, StopBacktest, Destroy, Destroyed, vars, Crash
<1>2. Threads /\ Drawn
  BY DEF IInv
<1>3. stops' = stops \/ stops' # 0
  BY <1>2 DEF AllWaited, StopBacktest, Destroy, Destroyed, vars, Crash, Threads
<1>4. Added' = Added
  BY <1>1 DEF Added
<1>5. Drawn'
  BY <1>1, <1>2, <1>4, DrawnSame
<1>6. \A j \in Added' : Sound(bt[j], pc[j])'
  BY <1>1, <1>3, OthersSound
<1>7. Threads'
  <2>1. CASE AllWaited
    <3>1. \A i \in Instruments : pc[i] # "none" => i \in Added
      BY <1>2, <2>1 DEF Drawn, Threads, AllWaited
    <3> QED BY <1>1, <1>2, <1>4, <2>1, <3>1 DEF AllWaited, Threads
  <2>2. CASE StopBacktest
    BY <1>1, <1>2, <1>4, <2>2 DEF StopBacktest, Threads
  <2>3. CASE Destroy
    BY <1>1, <1>2, <1>4, <2>3 DEF Destroy, Threads
  <2>4. CASE Destroyed
    BY <1>1, <1>2, <1>4, <2>4 DEF Destroyed, Threads
  <2>5. CASE UNCHANGED vars
    BY <1>1, <1>2, <1>4, <2>5 DEF vars, Threads
  <2>6. CASE \E i \in Added : Crash(i)
    BY <1>1, <1>2, <1>4, <2>6 DEF Crash, Threads
  <2> QED BY <2>1, <2>2, <2>3, <2>4, <2>5, <2>6
<1> QED BY <1>5, <1>6, <1>7 DEF IInv

\* One instrument of a stop in progress, wherever its task is.
LEMMA StopKeeps ==
  ASSUME IInv, StopOne
  PROVE  IInv'
<1>1. Threads /\ Drawn /\ \A j \in Added : Sound(bt[j], pc[j])
  BY DEF IInv
<1>2. PICK m : m = Min(stopping)
  OBVIOUS
<1>3. /\ stopping # {} /\ stopping \subseteq Added /\ Added \subseteq Instruments
      /\ bt = [j \in Added |-> bt[j]] /\ stops \in Nat
  BY <1>1 DEF StopOne, Threads
<1>4. m \in stopping
  <2>1. stopping \subseteq Nat
    BY <1>3, ConcurrentAssumption DEF ConcurrentAssumption
  <2> QED BY <1>2, <1>3, <2>1, MinOfPart
<1>5. PICK b, p, c : b = bt[m] /\ p = pc[m] /\ c = stop_backtest(b)
  OBVIOUS
<1>6. /\ bt' = [bt EXCEPT ![m] = c] /\ stopping' = stopping \ {m}
      /\ pc' = pc /\ main' = main /\ kind' = kind /\ free' = free
      /\ starts' = starts /\ stops' = stops
  BY <1>2, <1>5 DEF StopOne
<1>7. /\ Added' = Added /\ bt'[m] = c
      /\ bt' = [j \in Added' |-> bt'[j]]
      /\ \A j \in Added : j # m => bt'[j] = bt[j]
  BY <1>3, <1>4, <1>6 DEF Added
<1>8. Drawn'
  BY <1>1, <1>6, <1>7, DrawnSame
<1>9. Threads'
  BY <1>1, <1>6, <1>7 DEF Threads
<1>10. Sound(c, p)'
  <2>1. Sound(b, p)
    BY <1>1, <1>3, <1>4, <1>5
  <2>2. stops # 0 \/ p \in {"none", "done", "failed"}
    <3>1. stops > 0 \/ main = "destroying"
      BY <1>1, <1>3 DEF Threads
    <3>2. m \in Instruments
      BY <1>3, <1>4
    <3>3. main = "destroying" => pc[m] \in {"none", "done", "failed"}
      BY <1>1, <3>2 DEF Threads
    <3> QED BY <1>3, <1>5, <3>1, <3>3
  <2>3. Sound(c, p)
    BY <1>5, <2>1, <2>2, StoppedSound
  <2> QED BY <1>6, <2>3, SoundFrame
<1>11. ASSUME NEW j \in Added
       PROVE  Sound(bt[j], pc[j])'
  <2>1. CASE j = m
    BY <1>5, <1>6, <1>7, <1>10, <2>1
  <2>2. CASE j # m
    <3>1. PICK d, q : d = bt[j] /\ q = pc[j]
      OBVIOUS
    <3>2. Sound(d, q)
      BY <1>1, <3>1
    <3>3. Sound(d, q)'
      BY <1>6, <3>2, SoundFrame
    <3> QED BY <1>6, <1>7, <2>2, <3>1, <3>3
  <2> QED BY <2>1, <2>2
<1> QED BY <1>7, <1>8, <1>9, <1>11 DEF IInv

\* A start finds every task at rest, and resets none of the counts of the last.
LEMMA StartKeeps ==
  ASSUME IInv, NEW k \in Kinds, start_backtest(k)
  PROVE  IInv'
<1>1. Threads /\ Drawn /\ \A j \in Added : Sound(bt[j], pc[j])
  BY DEF IInv
<1>2. /\ bt' = bt /\ free' = free /\ stopping' = stopping /\ stops' = stops
      /\ main \in {"setup", "idle"} /\ main' = "waiting" /\ starts' = starts + 1 /\ kind' = k
      /\ pc' = [i \in Instruments |-> IF i \in Added THEN "create" ELSE "none"]
  BY DEF start_backtest
<1>3. /\ Added' = Added /\ starts \in Nat /\ Added \subseteq Instruments
      /\ free \in 0..Connections /\ pc \in [Instruments -> Places]
  BY <1>1, <1>2 DEF Threads, Added
<1>4. \A i \in Instruments : pc[i] \in {"none", "done", "failed"}
  BY <1>1, <1>2 DEF Threads
<1>5. Threads'
  <2>1. pc' \in [Instruments -> Places]
    BY <1>2 DEF Places
  <2> QED BY <1>1, <1>2, <1>3, <2>1 DEF Threads
<1>6. Drawn'
  <2>1. Made' = {} /\ ~Hangs'
    BY <1>2, <1>3 DEF Made, Hangs
  <2>2. Made \subseteq Added /\ IsFiniteSet(Added)
    BY <1>3, FS_Subset, ConcurrentAssumption DEF ConcurrentAssumption, Made
  <2>3. /\ Cardinality(Made) \in Nat /\ Cardinality(Added) \in Nat
        /\ Cardinality(Made) <= Cardinality(Added)
    BY <2>2, FS_Subset, FS_CardinalityType
  <2>4. Cardinality(Made') = 0
    BY <2>1, FS_EmptySet
  <2>5. Connections - free <= Cardinality(Added) * starts
    <3> DEFINE a == Cardinality(Added)
    <3>1. CASE starts = 0
      <4>1. a * starts = 0
        BY <2>3, <3>1
      <4> QED BY <1>1, <3>1, <4>1, ConcurrentAssumption DEF Drawn, ConcurrentAssumption
    <3>2. CASE starts > 0
      <4>1. Connections - free <= a * (starts - 1) + Cardinality(Made)
        BY <1>1, <3>2 DEF Drawn
      <4>2. a * (starts - 1) + a = a * starts
        BY <1>3, <2>3
      <4>3. a * (starts - 1) \in Int /\ a * starts \in Int
        BY <1>3, <2>3
      <4> DEFINE x == a * (starts - 1)
                 y == a * starts
      <4>4. x \in Int /\ y \in Int /\ x + a = y /\ Connections - free <= x + Cardinality(Made)
        BY <4>1, <4>2, <4>3
      <4> HIDE DEF x, y
      <4>5. Connections - free <= y
        BY <1>3, <2>3, <4>4, ConcurrentAssumption DEF ConcurrentAssumption
      <4> QED BY <4>5 DEF y
    <3> QED BY <1>3, <3>1, <3>2
  <2>6. starts' - 1 = starts /\ starts' > 0
    BY <1>2, <1>3
  <2>7. Cardinality(Added) * starts \in Int
    BY <1>3, <2>3
  <2>8. Connections - free' <= Cardinality(Added') * (starts' - 1) + Cardinality(Made')
    BY <1>2, <1>3, <2>4, <2>5, <2>6, <2>7
  <2>9. \A i \in Instruments : pc'[i] # "none" => i \in Added'
    BY <1>2, <1>3
  <2> QED BY <2>1, <2>6, <2>8, <2>9 DEF Drawn
<1>7. ASSUME NEW j \in Added
      PROVE  Sound(bt[j], pc[j])'
  <2>1. PICK b, p : b = bt[j] /\ p = pc[j]
    OBVIOUS
  <2>2. Sound(b, p) /\ p \in {"none", "done", "failed"}
    BY <1>1, <1>3, <1>4, <2>1
  <2>3. Sound(b, "create")'
    BY <1>2, <1>3, <2>2, SoundStart
  <2>4. bt'[j] = b /\ pc'[j] = "create"
    BY <1>2, <1>3, <2>1
  <2> QED BY <2>3, <2>4
<1> QED BY <1>3, <1>5, <1>6, <1>7 DEF IInv

\* An instrument is added with its book empty and its index at the beginning.
LEMMA NewSound ==
  ASSUME NEW messages \in Seq(Nat), NEW train_messages \in Seq(Nat),
         NEW file_named \in BOOLEAN, NEW clock_runs \in BOOLEAN, starts = 0,
         NEW b, b = New(messages, train_messages, file_named, clock_runs)
  PROVE  Sound(b, "none")
<1>1. 0 \in -max_pos..max_pos
  BY BacktesterAssumption DEF BacktesterAssumption
<1>2. << >> \in Seq(Nat) /\ Len(<< >>) = 0 /\ DOMAIN << >> = {} /\ {} \in SUBSET Nat
  OBVIOUS
<1>3. b \in Backtesters
  BY <1>1, <1>2 DEF New, Backtesters, Unset
<1>4. /\ b.given = << >> /\ b.index = 0 /\ b.before = 0 /\ b.clock = 0
      /\ b.start_time = 0 /\ b.end_time = 0 /\ b.running = FALSE /\ b.late = 0
      /\ b.position = 0 /\ b.train_clock = 0 /\ b.train_voi = 0
      /\ b.file_named = file_named /\ b.messages = messages
  BY DEF New, Unset
<1>5. Typed(b)
  BY <1>2, <1>3, <1>4 DEF Typed
<1>6. Timed(b, "none")
  BY <1>4 DEF Timed, TimesSet, Ready, Unset
<1>7. Advances(b)
  <2>1. TimeAt(b, Given(b), 0) = 0
    BY TimeAtZero
  <2> QED BY <1>2, <1>4, <2>1 DEF Advances
<1>8. Holds(b, "none") /\ Stoppable(b, "none") /\ InSession(b, "none")
  BY <1>4 DEF Holds, Stoppable, InSession, Ready, Looping
<1>9. Paces(b, "none") /\ Trains(b, "none")
  BY <1>4 DEF Paces, Trains, Ready, Looping
<1> QED BY <1>5, <1>6, <1>7, <1>8, <1>9 DEF Sound

\* One more instrument, before the first start.
LEMMA AddKeeps ==
  ASSUME IInv, NEW i \in Instruments, NEW clock_runs \in Clocks, NEW f \in Files(i),
         add_instrument(i, f, clock_runs)
  PROVE  IInv'
<1>1. Threads /\ Drawn /\ \A j \in Added : Sound(bt[j], pc[j])
  BY DEF IInv
<1>2. PICK b : b = New(f.messages, f.train_messages, f.file_named, clock_runs)
  OBVIOUS
<1>3. /\ main = "setup" /\ i \notin Added
      /\ bt' = [j \in Added \cup {i} |-> IF j = i THEN b ELSE bt[j]]
      /\ pc' = pc /\ main' = main /\ kind' = kind /\ free' = free
      /\ starts' = starts /\ stopping' = stopping /\ stops' = stops
  <2>1. i \in Nat
    BY ConcurrentAssumption DEF ConcurrentAssumption
  <2> QED BY <1>2, <2>1 DEF add_instrument
<1>4. /\ starts = 0 /\ pc[i] = "none" /\ \A j \in Instruments : pc[j] = "none"
      /\ free = Connections
  BY <1>1, <1>3 DEF Threads, Drawn
<1>5. /\ Added' = Added \cup {i} /\ bt' = [j \in Added' |-> bt'[j]] /\ bt'[i] = b
      /\ \A j \in Added : bt'[j] = bt[j]
  BY <1>3 DEF Added
<1>6. Threads'
  BY <1>1, <1>3, <1>5 DEF Threads
<1>7. Drawn'
  BY <1>1, <1>3, <1>4 DEF Drawn, Hangs
<1>8. Sound(b, "none")'
  <2>1. /\ f.messages \in Seq(Nat) /\ f.train_messages \in Seq(Nat)
        /\ f.file_named \in BOOLEAN /\ clock_runs \in BOOLEAN
    BY ConcurrentAssumption DEF ConcurrentAssumption
  <2>2. Sound(b, "none")
    BY <1>2, <1>4, <2>1, NewSound
  <2> QED BY <1>3, <2>2, SoundFrame
<1>9. ASSUME NEW j \in Added
      PROVE  Sound(bt[j], pc[j])'
  <2>1. PICK d, q : d = bt[j] /\ q = pc[j]
    OBVIOUS
  <2>2. Sound(d, q)
    BY <1>1, <2>1
  <2>3. Sound(d, q)'
    BY <1>3, <2>2, SoundFrame
  <2> QED BY <1>3, <1>5, <2>1, <2>3
<1>10. Sound(bt[i], pc[i])'
  BY <1>3, <1>4, <1>5, <1>8
<1> QED BY <1>5, <1>6, <1>7, <1>9, <1>10 DEF IInv

-----------------------------------------------------------------------------
\* The process begins with no instrument and every connection in the pool.
LEMMA InitInv ==
  ASSUME Init
  PROVE  IInv
<1>1. Added = {} /\ bt = << >>
  BY DEF Init, Added
<1>2. kind \in Kinds /\ free \in 0..Connections /\ starts = 0 /\ stops = 0
  BY ConcurrentAssumption DEF Init, ConcurrentAssumption
<1>3. Threads
  <2>1. pc \in [Instruments -> Places] /\ \A i \in Instruments : pc[i] = "none"
    BY DEF Init, Places
  <2>2. bt = [i \in Added |-> bt[i]]
    BY <1>1
  <2> QED BY <1>1, <1>2, <2>1, <2>2 DEF Init, Threads
<1>4. Drawn
  BY <1>2 DEF Init, Drawn, Hangs
<1> QED BY <1>1, <1>3, <1>4 DEF IInv

\* The invariant is inductive.
LEMMA StepInv ==
  ASSUME IInv, [Next]_vars
  PROVE  IInv'
<1>1. CASE \E i \in Instruments, clock_runs \in Clocks :
             \E f \in Files(i) : add_instrument(i, f, clock_runs)
  BY <1>1, AddKeeps
<1>2. CASE \E k \in Kinds : start_backtest(k)
  BY <1>2, StartKeeps
<1>3. ASSUME NEW i \in Added, TaskStep(i)
      PROVE  IInv'
  <2>1. CASE Create(i) \/ CreateStuck(i)
    BY <2>1, CreateKeeps
  <2>2. CASE Prepare(i)
    BY <2>2, PrepareKeeps
  <2>3. CASE TrainMessage(i)
    BY <2>3, TrainKeeps
  <2>4. CASE FitModel(i)
    BY <2>4, FitKeeps
  <2>5. CASE Crash(i)
    BY <2>5, OwnerKeeps
  <2>6. CASE TestRunning(i) \/ SetRunning(i) \/ While(i)
    BY <2>6, RunKeeps
  <2>7. CASE ReplayMessage(i) \/ Exit(i)
    BY <2>7, ReplayKeeps
  <2> QED BY <1>3, <2>1, <2>2, <2>3, <2>4, <2>5, <2>6, <2>7 DEF TaskStep
<1>4. CASE AllWaited \/ StopBacktest \/ Destroy \/ Destroyed \/ UNCHANGED vars
  BY <1>4, OwnerKeeps
<1>5. CASE StopOne
  BY <1>5, StopKeeps
<1>6. CASE Terminated
  BY <1>6, OwnerKeeps DEF Terminated
<1> QED BY <1>1, <1>2, <1>3, <1>4, <1>5, <1>6 DEF Next

\* Tasks, stops and the pool, in every state of every interleaving: the threads
\* are where they should be, the pool counts what it gave away, and every
\* Backtester is in step with its messages, its window and its running_.
THEOREM Inductive == Spec => []IInv
<1>1. Init => IInv
  BY InitInv
<1>2. IInv /\ [Next]_vars => IInv'
  BY StepInv
<1> QED BY <1>1, <1>2, PTL DEF Spec

\* A stop that finds a replay running lets it take at most one more message
\* (the test of running_ in the loop of run_backtest), whatever the interleaving.
THEOREM StopAlwaysPrompt == Spec => []StopIsPrompt
<1>1. IInv => StopIsPrompt
  BY DEF IInv, Sound, Stoppable, StopIsPrompt
<1> QED BY <1>1, Inductive, PTL

\* There is a position only between an update of the run and the end of its
\* session (close_positions before the break of run_backtest).
THEOREM AlwaysFlatOutsideSession == Spec => []FlatOutsideSession
<1>1. IInv => FlatOutsideSession
  BY DEF IInv, Sound, InSession, FlatOutsideSession
<1> QED BY <1>1, Inductive, PTL

\* The book is given every message once and in order over all runs, but for the
\* one that ends a session; a run nobody stopped ends with the session or with
\* the messages (the loop of run_backtest and its index).
THEOREM NoMessageEverSkipped == Spec => []NoMessageSkipped
<1>1. ASSUME IInv
      PROVE  TypeOK
  <2>1. /\ Added \subseteq Instruments
        /\ main \in {"setup", "waiting", "idle", "destroying", "destroyed", "crashed"}
        /\ free \in 0..Connections /\ stopping \subseteq Added
    BY <1>1 DEF IInv, Threads
  <2>2. ASSUME NEW i \in Added
        PROVE  /\ bt[i].index \in 0..Len(bt[i].messages)
               /\ bt[i].position \in -max_pos..max_pos
               /\ InLoop(i) => bt[i].strategy = kind
    <3>1. Typed(bt[i]) /\ Holds(bt[i], pc[i])
      BY <1>1 DEF IInv, Sound
    <3>2. /\ bt[i].index \in Nat /\ bt[i].index <= Len(bt[i].messages)
          /\ bt[i].messages \in Seq(Nat) /\ bt[i].position \in -max_pos..max_pos
      BY <3>1 DEF Typed, Backtesters
    <3>3. InLoop(i) => bt[i].strategy = kind
      BY <3>1 DEF Holds, InLoop, Ready
    <3> QED BY <3>2, <3>3
  <2> QED BY <2>1, <2>2 DEF TypeOK
<1>2. ASSUME IInv, NEW i \in Added
      PROVE  /\ \A k \in DOMAIN bt[i].given :
                  IF k = 1 THEN bt[i].given[k] = 1
                  ELSE bt[i].given[k] = bt[i].given[k - 1] + IF Ends(bt[i], k - 1) THEN 0 ELSE 1
             /\ pc[i] = "done" /\ stops = 0 /\ main = "waiting" =>
                  bt[i].index = Len(bt[i].messages) \/ Ends(bt[i], Len(bt[i].given))
  BY <1>2 DEF IInv, Sound, Advances, InSession
<1>3. IInv => NoMessageSkipped
  BY <1>1, <1>2 DEF NoMessageSkipped
<1> QED BY <1>3, Inductive, PTL

\* A strategy is called at the first message of each new second within the window
\* but the first, and the training of a first run has collected exactly as many
\* samples (prev_seconds in run_backtest and train_model).
THEOREM AlwaysPacedBySeconds == Spec => []PacedBySeconds
<1>1. ASSUME IInv, NEW i \in Added
      PROVE  /\ InLoop(i) => bt[i].updates = NewSeconds(bt[i], Given(bt[i]), bt[i].before, Len(bt[i].given))
             /\ InLoop(i) /\ kind = "linear" /\ starts = 1 =>
                  bt[i].voi_history = Cardinality(Samples(bt[i]))
  BY <1>1 DEF IInv, Sound, Paces, Trains, InLoop, Looping, Ready
<1>2. IInv => PacedBySeconds
  BY <1>1 DEF PacedBySeconds, Samples
<1> QED BY <1>2, Inductive, PTL

\* No task hangs on the pool as long as the pool had a connection for every
\* strategy ever started: the second half of StartReturns.
THEOREM HangsOnlyWhenDrained ==
  Spec => [](Hangs => Cardinality(Added) * starts > Connections)
<1>1. ASSUME IInv, Hangs
      PROVE  Cardinality(Added) * starts > Connections
  <2>1. PICK i \in Instruments : pc[i] = "stuck"
    BY <1>1 DEF Hangs
  <2>2. Threads /\ Drawn
    BY <1>1 DEF IInv
  <2>3. starts \in Nat /\ starts > 0 /\ free = 0 /\ Added \subseteq Instruments
    BY <1>1, <2>1, <2>2 DEF Threads, Drawn
  <2>4. i \in Added /\ i \notin Made /\ Made \subseteq Added
    BY <2>1, <2>2, <2>3 DEF Drawn, Made
  <2>5. IsFiniteSet(Added) /\ IsFiniteSet(Made)
    BY <2>3, <2>4, FS_Subset, ConcurrentAssumption DEF ConcurrentAssumption
  <2>6. /\ Cardinality(Added) \in Nat /\ Cardinality(Made) \in Nat
        /\ Cardinality(Made) + 1 <= Cardinality(Added)
    <3>1. Cardinality(Made \cup {i}) = Cardinality(Made) + 1
      BY <2>4, <2>5, FS_AddElement
    <3>2. Made \cup {i} \subseteq Added
      BY <2>4
    <3>3. Cardinality(Made \cup {i}) <= Cardinality(Added)
      BY <2>5, <3>2, FS_Subset
    <3> QED BY <2>5, <3>1, <3>3, FS_CardinalityType
  <2>7. Connections <= Cardinality(Added) * (starts - 1) + Cardinality(Made)
    BY <2>2, <2>3, ConcurrentAssumption DEF Drawn, ConcurrentAssumption
  <2> DEFINE a == Cardinality(Added)
             x == a * (starts - 1)
             y == a * starts
  <2>8. x + a = y /\ x \in Int /\ y \in Int
    BY <2>3, <2>6
  <2>9. Connections <= x + Cardinality(Made) /\ Cardinality(Made) + 1 <= a
    BY <2>6, <2>7
  <2> HIDE DEF x, y
  <2>10. y > Connections
    BY <2>6, <2>8, <2>9, ConcurrentAssumption DEF ConcurrentAssumption
  <2> QED BY <2>10 DEF y
<1>2. IInv => (Hangs => Cardinality(Added) * starts > Connections)
  BY <1>1
<1> QED BY <1>2, Inductive, PTL
=============================================================================
