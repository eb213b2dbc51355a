------------------------- MODULE MarketDataIngestor -------------------------
(***************************************************************************)
(* src/market_data_ingestor.cpp: a thread that feeds a file's messages to  *)
(* an order book, the flags and counters it shares with the thread that    *)
(* owns it, and that thread's calls: start, stop, waiting for is_completed *)
(* as benchmark/main.cpp does, and the destructor.                         *)
(*                                                                         *)
(* The book is the sequence of messages given to it, and the window it was *)
(* built for; module Orderbook has the rest.  Times are left out.          *)
(***************************************************************************)
EXTENDS Integers, Sequences, FiniteSetsExt

CONSTANTS
  MinConsidered, MaxConsidered,   \* of the constructor: 99 and 10'000'00
  MinAccepted, MaxAccepted,       \* of Orderbook::process_msg: 1'000'00 and 8'000'00
  MaxCalls                        \* bound: calls of start and stop

ASSUME IngestorAssumption ==
  /\ {MinConsidered, MaxConsidered, MinAccepted, MaxAccepted} \subseteq Int
  /\ MinConsidered <= MinAccepted /\ MaxAccepted <= MaxConsidered
  /\ MaxCalls \in Nat

VARIABLES
  messages,              \* messages_
  window,                \* MIN_ and MAX_ of the book
  given,                 \* what the book was given, as places in messages_
  running, completed,    \* running_, completed_
  messages_processed,    \* messages_processed_
  processed,             \* the thread's own count
  thread,                \* where the thread is; "none" when it is not joinable
  client,                \* where the owner is
  calls
ingestorVars == <<messages, window, given, running, completed, messages_processed,
                  processed, thread, client, calls>>
-----------------------------------------------------------------------------
(* The constructor *)

Considered(m) == m.price \in MinConsidered..MaxConsidered

ConsideredIn(msgs) == {k \in DOMAIN msgs : Considered(msgs[k])}

\* Mutant: a price that is a new minimum is not looked at as a maximum.
WindowOf_ElseIf(msgs) ==
  LET C     == ConsideredIn(msgs)
      later == {k \in C : \E j \in C : j < k /\ msgs[j].price <= msgs[k].price} IN
  IF later = {} THEN {}
  ELSE Min({msgs[k].price : k \in C}) .. Max({msgs[k].price : k \in later})

\* Without a price INT32_MAX .. INT32_MIN, of which the size wraps around to 2.
WindowOf(msgs) ==
  LET pxs == {msgs[k].price : k \in ConsideredIn(msgs)} IN
  IF pxs = {} THEN {} ELSE Min(pxs)..Max(pxs)

Construct(msgs) ==
  /\ messages' = msgs /\ window' = WindowOf(msgs)
  /\ given' = << >> /\ running' = FALSE /\ completed' = FALSE
  /\ messages_processed' = 0 /\ processed' = 0
  /\ thread' = "none" /\ client' = "idle" /\ calls' = 0
-----------------------------------------------------------------------------
(* The owner *)

DataUnchanged == UNCHANGED <<messages, window, given, messages_processed, processed>>

\* Mutant: a second start is not refused.
Start_Again ==
  /\ client = "idle" /\ calls < MaxCalls /\ calls' = calls + 1
  /\ running' = TRUE /\ client' = "starting"
  /\ UNCHANGED <<completed, thread>> /\ DataUnchanged

\* start() does nothing while running_, which only stop() resets.
Start ==
  /\ client = "idle" /\ calls < MaxCalls /\ calls' = calls + 1
  /\ running' = TRUE /\ client' = IF running THEN "idle" ELSE "starting"
  /\ UNCHANGED <<completed, thread>> /\ DataUnchanged

\* Mutant: completed_ is not reset.
ResetCompleted_Not ==
  /\ client = "starting" /\ client' = "spawning"
  /\ UNCHANGED <<running, completed, thread, calls>> /\ DataUnchanged

ResetCompleted ==
  /\ client = "starting" /\ client' = "spawning"
  /\ completed' = FALSE
  /\ UNCHANGED <<running, thread, calls>> /\ DataUnchanged

\* Assigning to a std::thread that is joinable ends the process.
Spawn ==
  /\ client = "spawning"
  /\ IF thread = "none" THEN thread' = "begin" /\ client' = "idle"
                        ELSE client' = "terminated" /\ UNCHANGED thread
  /\ UNCHANGED <<running, completed, calls>> /\ DataUnchanged

\* stop() and the destructor, which is the same and the last call.
StopFor(next) ==
  /\ client = "idle"
  /\ running' = FALSE
  /\ client' = next
  /\ UNCHANGED <<completed, thread>> /\ DataUnchanged

Stop    == StopFor("joining") /\ calls < MaxCalls /\ calls' = calls + 1
Destroy == StopFor("destroying") /\ UNCHANGED calls

Join ==
  /\ client \in {"joining", "destroying"} /\ thread \in {"none", "end"}
  /\ thread' = "none"
  /\ client' = IF client = "joining" THEN "idle" ELSE "destroyed"
  /\ UNCHANGED <<running, completed, calls>> /\ DataUnchanged

\* The benchmark polls after it has started the thread.
Poll ==
  /\ client = "idle" /\ running
  /\ client' = "polling"
  /\ UNCHANGED <<running, completed, thread, calls>> /\ DataUnchanged

is_completed ==
  /\ client = "polling" /\ completed
  /\ client' = "idle"
  /\ UNCHANGED <<running, completed, thread, calls>> /\ DataUnchanged
-----------------------------------------------------------------------------
(* The thread *)

OwnerUnchanged == UNCHANGED <<messages, window, running, client, calls>>

\* pin_cpu, then start_perf_tracking
StartPerfTracking ==
  /\ thread = "begin" /\ thread' = "while"
  /\ messages_processed' = 0 /\ processed' = 0
  /\ UNCHANGED <<given, completed>> /\ OwnerUnchanged

\* Mutant: the thread waits for more messages until it is stopped.
While_UntilStopped ==
  /\ thread = "while"
  /\ thread' = IF ~running THEN "ended" ELSE IF processed < Len(messages) THEN "body" ELSE "while"
  /\ UNCHANGED <<given, completed, messages_processed, processed>> /\ OwnerUnchanged

While ==
  /\ thread = "while"
  /\ thread' = IF processed < Len(messages) /\ running THEN "body" ELSE "ended"
  /\ UNCHANGED <<given, completed, messages_processed, processed>> /\ OwnerUnchanged

process_msg ==
  /\ thread = "body" /\ thread' = "while"
  /\ given' = Append(given, processed + 1)
  /\ processed' = processed + 1
  /\ UNCHANGED <<completed, messages_processed>> /\ OwnerUnchanged

\* end_perf_tracking
EndPerfTracking ==
  /\ thread = "ended" /\ thread' = "completing"
  /\ messages_processed' = processed
  /\ UNCHANGED <<given, completed, processed>> /\ OwnerUnchanged

SetCompleted ==
  /\ thread = "completing" /\ thread' = "end"
  /\ completed' = TRUE
  /\ UNCHANGED <<given, messages_processed, processed>> /\ OwnerUnchanged

ThreadStep == StartPerfTracking \/ While \/ process_msg \/ EndPerfTracking \/ SetCompleted
OwnerStep  == ResetCompleted \/ Spawn \/ Join \/ is_completed
Ingest     == Start \/ Stop \/ Destroy \/ Poll \/ OwnerStep \/ ThreadStep
-----------------------------------------------------------------------------
(* Properties *)

\* Whoever finds completed_ set, in whatever thread, finds a thread that is done
\* with the book and a count that is final: how many messages the book was given
\* since the last start, all of them in order unless it was stopped.
CompletedIsFinal ==
  completed =>
    /\ thread \in {"none", "end"} /\ messages_processed = processed
    /\ processed <= Len(messages)
    /\ \A k \in 1..processed : given[Len(given) - processed + k] = k
    /\ processed < Len(messages) => ~running \/ client \in {"starting", "spawning"}

TypeOK ==
  /\ {running, completed} \subseteq BOOLEAN
  /\ messages_processed \in Nat
  /\ processed \in 0..Len(messages)
  /\ \A k \in DOMAIN given : given[k] \in DOMAIN messages
  /\ thread \in {"none", "begin", "while", "body", "ended", "completing", "end"}
  /\ client \in {"parsing", "idle", "starting", "spawning", "joining", "destroying",
                "destroyed", "polling", "terminated"}
  /\ calls \in 0..MaxCalls

\* At no time is a second thread started beside one that was not joined, which
\* would end the process: whoever calls start again before stop is turned away.
OneIngestorThread == TypeOK /\ client # "terminated"

\* Every message of which the filter of process_msg lets the price pass falls
\* within the window that was computed before from all messages.
WindowCoversAccepted ==
  \A k \in DOMAIN given :
    LET px == messages[given[k]].price IN
    px \in MinAccepted..MaxAccepted => px \in window

\* Waiting for completion and waiting for the thread both end.
IngestEnds ==
  /\ client = "polling" ~> client # "polling"
  /\ client = "joining" ~> client = "idle"
  /\ client = "destroying" ~> client = "destroyed"
=============================================================================
