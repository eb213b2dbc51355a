------------------------------- MODULE Parser -------------------------------
(***************************************************************************)
(* src/parser.cpp: a file of order messages is mapped into memory and read *)
(* line by line; a line is cut at its commas with strchr.                  *)
(*                                                                         *)
(* A file is a sequence of tokens: a comma, the end of a line, a number or *)
(* a letter.  Behind the last one there is a null character, which strchr  *)
(* and strtoull stop at (the rest of the last page; without it, when the   *)
(* size of the file is a multiple of the page, they read on).              *)
(***************************************************************************)
EXTENDS Integers, Sequences, SequencesExt

CONSTANTS
  HeaderLines,   \* what the first two lines may hold
  Lines,         \* what a line may hold
  MaxRows,       \* bound: lines of a file behind the first two
  Int32Max,      \* 2^31 - 1
  Int64Max       \* 2^63 - 1

Comma   == <<",">>
Newline == <<"nl">>
Null    == <<"nul">>
Letter(c) == <<"c", c>>
Number(n) == <<"n", n>>

\* What ends a line is not in it.
ASSUME ParserAssumption ==
  /\ MaxRows \in Nat /\ Int32Max \in Nat /\ Int64Max \in Nat /\ Int32Max <= Int64Max
  /\ \A line \in HeaderLines \cup Lines : line \in Seq(Range(line) \ {Newline})

VARIABLES
  lines,      \* the lines of the file
  ended,      \* does a newline end the last one?
  parser,     \* what parse() is doing
  current,    \* place of the next line
  skipped,    \* lines of the header passed
  stream      \* message_stream_
parserVars == <<lines, ended, parser, current, skipped, stream>>

File == FlattenSeq([k \in DOMAIN lines |->
          IF k = Len(lines) /\ ~ended THEN lines[k] ELSE Append(lines[k], Newline)])
Past == Len(File) + 1
-----------------------------------------------------------------------------
(* The C library (external) *)

\* memchr, within the file.
Found(token, p) ==
  LET at == {q \in p..Len(File) : File[q] = token} IN IF at = {} THEN 0 ELSE Min(at)

Char(p) == IF p < Past THEN File[p] ELSE Null

\* White space is skipped, which ends of lines are, and where there is no number
\* 0 is found.
Parsed(p) ==
  LET digits == {q \in p..Len(File) : File[q] # Newline}
      token  == IF digits = {} THEN Null ELSE File[Min(digits)]
  IN  IF token[1] = "n" THEN token[2] ELSE 0

\* What does not fit becomes the largest value of its sign; a negative number is
\* negated in unsigned arithmetic.  unsigned long is unsigned long long.
UInt64Max == 2 * Int64Max + 1

strtoull(p) ==
  IF Parsed(p) \in (-UInt64Max)..UInt64Max THEN Parsed(p) % (UInt64Max + 1) ELSE UInt64Max

strtol(p) ==
  IF Parsed(p) > Int64Max THEN Int64Max
  ELSE IF Parsed(p) < -Int64Max - 1 THEN -Int64Max - 1
  ELSE Parsed(p)

\* A message keeps its price and its size in 32 bits with a sign: what strtoul
\* gave goes through a uint32_t into a signed int.
Modulus  == 2 * (Int32Max + 1)
Int32(n) == ((n + Int32Max + 1) % Modulus) - (Int32Max + 1)
-----------------------------------------------------------------------------
Init ==
  /\ \/ lines \in SeqOf(HeaderLines, 1)
     \/ \E h \in TupleOf(HeaderLines, 2), rows \in SeqOf(Lines, MaxRows) : lines = h \o rows
  /\ ended \in BOOLEAN
  /\ parser = "opening" /\ current = 1 /\ skipped = 0 /\ stream = << >>

\* open, fstat and mmap; an empty file cannot be mapped.
Open ==
  /\ parser = "opening"
  /\ \/ File # << >> /\ parser' = "header"
     \/ parser' = "failed"
  /\ UNCHANGED <<lines, ended, current, skipped, stream>>

\* Two lines are passed over; a line of them that does not end is an exception.
SkipHeader ==
  /\ parser = "header" /\ skipped < 2 /\ current < Past
  /\ IF Found(Newline, current) = 0
     THEN parser' = "failed" /\ UNCHANGED <<current, skipped>>
     ELSE /\ current' = Found(Newline, current) + 1 /\ skipped' = skipped + 1
          /\ UNCHANGED parser
  /\ UNCHANGED <<lines, ended, stream>>

HeaderDone ==
  /\ parser = "header" /\ (skipped = 2 \/ current = Past)
  /\ parser' = "lines"
  /\ UNCHANGED <<lines, ended, current, skipped, stream>>

\* strchr and the place behind: it looks for a comma wherever the line ends.
\* 0: there was none.
Behind(p) == IF p = 0 \/ Found(Comma, p) = 0 THEN 0 ELSE Found(Comma, p) + 1

\* Where the second to sixth fields start.
Fields(p) ==
  LET action == Behind(p)
      side   == Behind(action)
      price  == Behind(side)
      size   == Behind(price)
      id     == Behind(size)
  IN  <<action, side, price, size, id>>

Message(p) ==
  LET at == Fields(p) IN
  [time   |-> strtoull(p),
   action |-> Char(at[1]),
   side   |-> Char(at[2]) = Letter("B"),
   price  |-> Int32(strtol(at[3])),
   size   |-> Int32(strtoull(at[4])),
   id     |-> strtoull(at[5])]

LineEnd(p) == IF Found(Newline, p) = 0 THEN Past ELSE Found(Newline, p)

\* Mutant: the next line is looked for behind the last field that was read.
NextLine_AfterFields(p) == LineEnd(Fields(p)[5]) + 1

NextLine(p) == LineEnd(p) + 1

\* A strchr that finds no comma returns nullptr, and the field behind it is read
\* at address 1.
ParseLine ==
  /\ parser = "lines" /\ current < Past
  /\ IF Fields(current)[5] = 0
     THEN parser' = "crashed" /\ UNCHANGED <<current, stream>>
     ELSE /\ stream' = Append(stream, Message(current))
          /\ current' = NextLine(current)
          /\ UNCHANGED parser
  /\ UNCHANGED <<lines, ended, skipped>>

ParseDone ==
  /\ parser = "lines" /\ current >= Past
  /\ parser' = "parsed"
  /\ UNCHANGED <<lines, ended, current, skipped, stream>>

Next == Open \/ SkipHeader \/ HeaderDone \/ ParseLine \/ ParseDone
-----------------------------------------------------------------------------
\* A line of six fields, as the data files have them, whose numbers fit where a
\* message keeps them: a size from 2^31 up would be read as a negative one.
WellFormed(line) ==
  /\ Len(line) >= 11
  /\ \A k \in {1, 3, 5, 7, 9, 11} : line[k] # Comma
  /\ \A k \in {1, 7, 9, 11} : line[k][1] = "n"
  /\ \A k \in {2, 4, 6, 8, 10} : line[k] = Comma
  /\ line[7][2] \in 0..Int32Max /\ line[9][2] \in 0..Int32Max
  /\ line[1][2] \in 0..UInt64Max /\ line[11][2] \in 0..UInt64Max

Row(line) ==
  [time |-> line[1][2], action |-> line[3], side |-> line[5] = Letter("B"),
   price |-> line[7][2], size |-> line[9][2], id |-> line[11][2]]

\* A file that is read to its end has given one message per line after the first
\* two, and every well formed line its own, whatever the lines around it hold: a
\* line that is cut short takes fields from later lines, but takes none away.
\* Only such a line can crash the program.
ParserExact ==
  LET body == SubSeq(lines, 3, Len(lines))
      rows == IF body # << >> /\ Last(body) = << >> /\ ~ended THEN Front(body) ELSE body
  IN  /\ parser = "parsed" =>
           /\ Len(stream) = Len(rows)
           /\ \A k \in DOMAIN rows : WellFormed(rows[k]) => stream[k] = Row(rows[k])
      /\ parser = "crashed" => \E k \in DOMAIN rows : ~WellFormed(rows[k])
=============================================================================
