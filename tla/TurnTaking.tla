----------------------------- MODULE TurnTaking -----------------------------
(***************************************************************************)
(* What the accept loop promises the connections, with the counts, the     *)
(* queues and the threads left out: they are given to the workers strictly *)
(* in turns, and each is started at most once, after it was given away.    *)
(***************************************************************************)
EXTENDS Integers

CONSTANTS Workers,   \* how many take turns
          Conn       \* the connections

VARIABLES turn,      \* the worker that the next connection is for, 0 before the first turn
          owner,     \* the worker that each connection was given to, 0 before
          started    \* the connections that have been started

turnVars == <<turn, owner, started>>

TurnInit ==
  /\ turn = 0
  /\ owner = [c \in Conn |-> 0]
  /\ started = {}

\* The first turn.
FirstTurn ==
  /\ turn = 0
  /\ turn' = 1
  /\ UNCHANGED <<owner, started>>

\* A connection is given to the worker whose turn it is; the next one follows.
Give(c) ==
  /\ turn # 0
  /\ owner[c] = 0
  /\ owner' = [owner EXCEPT ![c] = turn]
  /\ turn' = IF turn = Workers THEN 1 ELSE turn + 1
  /\ UNCHANGED started

\* A connection that was given away is started.
StartConnection(c) ==
  /\ owner[c] # 0
  /\ c \notin started
  /\ started' = started \cup {c}
  /\ UNCHANGED <<turn, owner>>

TurnNext ==
  \/ FirstTurn
  \/ \E c \in Conn : Give(c) \/ StartConnection(c)

TurnSpec == TurnInit /\ [][TurnNext]_turnVars
=============================================================================
