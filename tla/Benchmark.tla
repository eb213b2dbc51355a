----------------------------- MODULE Benchmark -----------------------------
(***************************************************************************)
(* src/benchmark/main.cpp: a file is parsed and its messages are moved to  *)
(* an ingestor.  The program starts it, waits and stops it once; here the  *)
(* owner may call start, stop and poll in any order, as the class permits. *)
(***************************************************************************)
EXTENDS Parser, MarketDataIngestor

vars == <<parserVars, ingestorVars>>

BenchmarkInit ==
  /\ Init
  /\ messages = << >> /\ window = {} /\ given = << >>
  /\ running = FALSE /\ completed = FALSE /\ messages_processed = 0 /\ processed = 0
  /\ thread = "none" /\ client = "parsing" /\ calls = 0

Parse == client = "parsing" /\ Next /\ UNCHANGED ingestorVars

Create ==
  /\ client = "parsing" /\ parser = "parsed"
  /\ Construct(stream)
  /\ UNCHANGED parserVars

\* The exception that main catches, a crash, or the end of main.
Ended ==
  /\ parser \in {"failed", "crashed"} \/ client \in {"destroyed", "terminated"}
  /\ UNCHANGED vars

BenchmarkNext ==
  \/ Parse \/ Create \/ Ended
  \/ Ingest /\ UNCHANGED parserVars

\* Both threads run; the owner need not call anything.
Spec ==
  /\ BenchmarkInit /\ [][BenchmarkNext]_vars
  /\ WF_vars(ThreadStep /\ UNCHANGED parserVars)
  /\ WF_vars(OwnerStep /\ UNCHANGED parserVars)
=============================================================================
