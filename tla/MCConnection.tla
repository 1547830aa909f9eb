---------------------------- MODULE MCConnection ----------------------------
(***************************************************************************)
(* Model-checking instances of Connection.                                 *)
(***************************************************************************)
EXTENDS Connection, TLC

CONSTANTS c1, c2

Plain == [head |-> FALSE, known |-> TRUE, version |-> "1.1", host |-> TRUE,
          conn |-> {}, expect |-> FALSE, upgrade |-> FALSE]

MCArrival ==
  [req : {Plain}, cut : {"none", "path", "mark"}] \cup
  [req : {[Plain EXCEPT !.head = TRUE, !.version = "1.0"]}, cut : {"query"}] \cup
  [req : {[Plain EXCEPT !.head = TRUE, !.host = FALSE],
          [Plain EXCEPT !.known = FALSE],
          [Plain EXCEPT !.conn = {"close"}, !.expect = TRUE],
          [Plain EXCEPT !.conn = {"close"}, !.version = "other"],
          [Plain EXCEPT !.upgrade = TRUE]},
   cut : {"none"}]

MCBudget == [c \in Conn |-> IF c = c1 THEN 2 ELSE 0]
=============================================================================
