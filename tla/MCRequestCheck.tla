--------------------------- MODULE MCRequestCheck ---------------------------
(***************************************************************************)
(* Model-checking instance of RequestCheck: an int of two bits, a limit of *)
(* three pairs (room for a key that occurs twice), and every target of up  *)
(* to three pieces from the interesting ones: negative, zero, at the size, *)
(* beyond int, no number, a foreign key and an escaped one; and, beyond    *)
(* the limit, a fourth.                                                    *)
(***************************************************************************)
EXTENDS RequestCheck, SequencesExt

MCValue == {{}, {-2}, {-1}, {0}, {1}, {2}}
MCForeign == [name |-> "other", plain |-> TRUE, value |-> {0}]
MCPair ==
  [name : {"time", "z"}, plain : {TRUE}, value : MCValue]
    \cup {MCForeign, [name |-> "time", plain |-> FALSE, value |-> {0}]}
MCTarget == BoundedSeq(MCPair, 3)
              \cup {Append(t, MCForeign) : t \in [1..3 -> MCPair]}
=============================================================================
