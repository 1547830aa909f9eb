------------------------------ MODULE OnceCell ------------------------------
(***************************************************************************)
(* What the /get-info cache promises, with the locks and the extraction    *)
(* left out: a cell that is filled at most once.  A request that finds the *)
(* cell full is answered with what it holds; a request that finds it empty *)
(* makes an answer of its own, and the first of those fills the cell.      *)
(***************************************************************************)
CONSTANTS Client,   \* the threads that ask
          Value     \* the answers that can be made

VARIABLES cell,     \* what is cached: {v}, or {} while the cell is empty
          phase,    \* where each client is: idle, asking, or making an answer
          answer    \* the last answer each client was given: {v}, {} before it

cellVars == <<cell, phase, answer>>

CellInit ==
  /\ cell = {}
  /\ phase = [c \in Client |-> "idle"]
  /\ answer = [c \in Client |-> {}]

\* A client asks.
Ask(c) ==
  /\ phase[c] = "idle"
  /\ phase' = [phase EXCEPT ![c] = "asking"]
  /\ UNCHANGED <<cell, answer>>

\* The cell is full: its content is the answer.
Find(c) ==
  /\ phase[c] = "asking"
  /\ cell # {}
  /\ answer' = [answer EXCEPT ![c] = cell]
  /\ phase' = [phase EXCEPT ![c] = "idle"]
  /\ UNCHANGED cell

\* The cell is empty: the client has to make an answer.
Miss(c) ==
  /\ phase[c] = "asking"
  /\ cell = {}
  /\ phase' = [phase EXCEPT ![c] = "making"]
  /\ UNCHANGED <<cell, answer>>

\* The answer is made; it fills the cell if the cell is still empty.
Make(c, v) ==
  /\ phase[c] = "making"
  /\ answer' = [answer EXCEPT ![c] = {v}]
  /\ cell' = IF cell = {} THEN {v} ELSE cell
  /\ phase' = [phase EXCEPT ![c] = "idle"]

CellNext ==
  \E c \in Client :
    \/ Ask(c)
    \/ Find(c)
    \/ Miss(c)
    \/ \E v \in Value : Make(c, v)

CellSpec == CellInit /\ [][CellNext]_cellVars
=============================================================================
