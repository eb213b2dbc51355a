---------------------------- MODULE MC_Benchmark ----------------------------
(* Small files for TLC. *)
EXTENDS Benchmark

RowOf(px, sz, id) ==
  <<Number(1), Comma, Letter("A"), Comma, Letter("B"), Comma,
    Number(px), Comma, Number(sz), Comma, Number(id)>>

MCHeader == {<<Letter("C")>>}

\* Rows with prices at both ends of the filter, one beyond it with a seventh
\* field, one whose numbers do not fit, one that is cut short, one with empty
\* fields, an empty line.
MCLines ==
  {RowOf(2, 1, 1), RowOf(5, 3, 31), RowOf(7, 4, 2) \o <<Comma, Number(2)>>, RowOf(20, 12, 40),
   <<Number(2), Comma, Letter("C"), Comma, Letter("S")>>,
   <<Number(2), Comma, Comma, Letter("S"), Comma, Number(3), Comma, Comma>>,
   << >>}
=============================================================================
