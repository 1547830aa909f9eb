--------------------------- MODULE MCNetCDFServer ---------------------------
(***************************************************************************)
(* Model-checking instance of NetCDFServer: a file of two times and one z, *)
(* targets that are accepted (two different slices), with a negative number*)
(* and then none, and with a key in percent escapes.                       *)
(***************************************************************************)
EXTENDS NetCDFServer, TLC

Piece(n, v) == [name |-> n, plain |-> TRUE, value |-> v]
Time(v) == Piece("time", v)
Z(v) == Piece("z", v)

\* Two slices.
MCSlices == {<<Time({0}), Z({0})>>, <<Time({1}), Z({0})>>}

\* And two of the errors; which there are is the matter of MCRequestCheck.
MCTarget == MCSlices \cup
  {<<Time({-1}), Z({})>>, <<Time({0}), [Z({0}) EXCEPT !.plain = FALSE]>>}
=============================================================================
