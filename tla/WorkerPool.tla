----------------------------- MODULE WorkerPool -----------------------------
(***************************************************************************)
(* crow::Server (src/include/crow/http_server.h): run(), do_accept() and   *)
(* stop().  The main thread starts the workers, waits for them, and then   *)
(* accepts: each connection is given, before it is accepted, to the first  *)
(* worker with the lowest count.  A worker runs the handlers posted to its *)
(* io_context, here the start() of connections, and goes on after one that *)
(* throws.  What the handlers of a worker do is in Connection.             *)
(***************************************************************************)
EXTENDS Integers, Sequences, FiniteSets

CONSTANTS Workers,    \* worker_thread_count = concurrency_ - 1
          Conn,       \* the connections that clients open
          MaxErrors   \* BOUND: the accepts that fail

ASSUME PoolAssumption ==
  /\ Workers \in Nat \ {0}
  /\ IsFiniteSet(Conn)
  /\ MaxErrors \in Nat

Worker == 1 .. Workers

VARIABLES
  main,       \* run(): waits for the workers, accepts, stops them, joins them, is over
  thread,     \* the workers: starting, in run(), in a handler, ended
  timerSet,   \* task_timer_pool_: the workers that have put their timer there
  count,      \* task_queue_length_pool_
  target,     \* context_idx of the accept that is pending, 0 before the first
  owner,      \* the worker that each accepted connection was given to, 0 before
  posted,     \* the io_contexts: the connections whose start() is to be run
  halted,     \* the io_contexts that stop() has stopped
  errors      \* the accepts that have failed

vars == <<main, thread, timerSet, count, target, owner, posted, halted, errors>>

Init ==
  /\ main = "waiting"
  /\ thread = [w \in Worker |-> "starting"]
  /\ timerSet = {}
  /\ count = [w \in Worker |-> 0]
  /\ target = 0
  /\ owner = [c \in Conn |-> 0]
  /\ posted = [w \in Worker |-> <<>>]
  /\ halted = {}
  /\ errors = 0

\* pick_io_context_idx: the loop over the counts stops at a 0, which none is
\* below.
Picked(counts) ==
  CHOOSE w \in Worker : /\ \A v \in Worker : counts[w] <= counts[v]
                        /\ \A v \in 1..(w - 1) : counts[w] < counts[v]

\* do_accept, when these are the counts: the count of the worker is raised and a
\* connection is made for it, to be accepted into.
DoAccept(counts) ==
  /\ target' = Picked(counts)
  /\ count' = [counts EXCEPT ![Picked(counts)] = @ + 1]

(***************************************************************************)
(* The main thread.                                                        *)
(***************************************************************************)

\* MUTANT of BeginAccepting: the workers are not waited for.
BeginAcceptingAtOnce ==
  /\ main = "waiting"
  /\ main' = "accepting"
  /\ DoAccept(count)
  /\ UNCHANGED <<thread, timerSet, owner, posted, halted, errors>>

\* init_count has reached the number of workers.
BeginAccepting ==
  /\ main = "waiting"
  /\ timerSet = Worker
  /\ main' = "accepting"
  /\ DoAccept(count)
  /\ UNCHANGED <<thread, timerSet, owner, posted, halted, errors>>

\* A connection is accepted: its start() is posted to its worker.
Accepted(c) ==
  /\ main = "accepting"
  /\ owner[c] = 0
  /\ owner' = [owner EXCEPT ![c] = target]
  /\ posted' = [posted EXCEPT ![target] = Append(@, c)]
  /\ DoAccept(count)
  /\ UNCHANGED <<main, thread, timerSet, halted, errors>>

\* MUTANT of AcceptFails: the count is not lowered.
AcceptFailsUncounted ==
  /\ main = "accepting"
  /\ errors < MaxErrors
  /\ errors' = errors + 1
  /\ DoAccept(count)
  /\ UNCHANGED <<main, thread, timerSet, owner, posted, halted>>

\* Accepting fails: the count is lowered again.
AcceptFails ==
  /\ main = "accepting"
  /\ errors < MaxErrors
  /\ errors' = errors + 1
  /\ DoAccept([count EXCEPT ![target] = @ - 1])
  /\ UNCHANGED <<main, thread, timerSet, owner, posted, halted>>

\* A signal: stop() begins, on the thread that accepts.
Signal ==
  /\ main = "accepting"
  /\ main' = "stopping"
  /\ UNCHANGED <<thread, timerSet, count, target, owner, posted, halted, errors>>

\* MUTANT of Halt: the loop leaves the last io_context out.
HaltButLast ==
  /\ main = "stopping"
  /\ LET w == Cardinality(halted) + 1
     IN  /\ w < Workers
         /\ halted' = halted \cup {w}
         /\ main' = IF w + 1 >= Workers THEN "joining" ELSE "stopping"
  /\ UNCHANGED <<thread, timerSet, count, target, owner, posted, errors>>

\* MUTANT of Halt: the loop goes one beyond the last io_context.
HaltBeyond ==
  /\ main = "stopping"
  /\ LET w == Cardinality(halted) + 1
     IN  /\ halted' = halted \cup {w}
         /\ main' = IF w = Workers + 1 THEN "joining" ELSE "stopping"
  /\ UNCHANGED <<thread, timerSet, count, target, owner, posted, errors>>

\* stop() stops the next io_context, and after the last one its own.
Halt ==
  /\ main = "stopping"
  /\ LET w == Cardinality(halted) + 1
     IN  /\ halted' = halted \cup {w}
         /\ main' = IF w = Workers THEN "joining" ELSE "stopping"
  /\ UNCHANGED <<thread, timerSet, count, target, owner, posted, errors>>

\* run() returns: the futures of the workers are waited for.
Join ==
  /\ main = "joining"
  /\ \A w \in Worker : thread[w] = "ended"
  /\ main' = "over"
  /\ UNCHANGED <<thread, timerSet, count, target, owner, posted, halted, errors>>

(***************************************************************************)
(* A worker.                                                               *)
(***************************************************************************)

\* The thread puts its timer into the pool and clears its count, before it is
\* counted in init_count.
Begin(w) ==
  /\ thread[w] = "starting"
  /\ thread' = [thread EXCEPT ![w] = "running"]
  /\ timerSet' = timerSet \cup {w}
  /\ count' = [count EXCEPT ![w] = 0]
  /\ UNCHANGED <<main, target, owner, posted, halted, errors>>

\* The next start() is run.
Run(w) ==
  /\ thread[w] = "running" /\ w \notin halted
  /\ posted[w] # <<>>
  /\ posted' = [posted EXCEPT ![w] = Tail(@)]
  /\ thread' = [thread EXCEPT ![w] = "handling"]
  /\ UNCHANGED <<main, timerSet, count, target, owner, halted, errors>>

\* The handler returns.
Return(w) ==
  /\ thread[w] = "handling"
  /\ thread' = [thread EXCEPT ![w] = "running"]
  /\ UNCHANGED <<main, timerSet, count, target, owner, posted, halted, errors>>

\* MUTANT of Throw: the loop around run() is left.
ThrowOut(w) ==
  /\ thread[w] = "handling"
  /\ thread' = [thread EXCEPT ![w] = "ended"]
  /\ UNCHANGED <<main, timerSet, count, target, owner, posted, halted, errors>>

\* MUTANT of Throw: restart() before run() is called again, which undoes stop().
ThrowRestarts(w) ==
  /\ thread[w] = "handling"
  /\ thread' = [thread EXCEPT ![w] = "running"]
  /\ halted' = halted \ {w}
  /\ UNCHANGED <<main, timerSet, count, target, owner, posted, errors>>

\* The handler throws: the exception leaves run(), is logged, and run() is called
\* again.
Throw(w) ==
  /\ thread[w] = "handling"
  /\ thread' = [thread EXCEPT ![w] = "running"]
  /\ UNCHANGED <<main, timerSet, count, target, owner, posted, halted, errors>>

\* run() returns 0: the io_context is stopped, since its timer always waits.
End(w) ==
  /\ thread[w] = "running" /\ w \in halted
  /\ thread' = [thread EXCEPT ![w] = "ended"]
  /\ UNCHANGED <<main, timerSet, count, target, owner, posted, halted, errors>>

Next ==
  \/ BeginAccepting \/ AcceptFails \/ Signal \/ Halt \/ Join
  \/ \E c \in Conn : Accepted(c)
  \/ \E w \in Worker : Begin(w) \/ Run(w) \/ Return(w) \/ Throw(w) \/ End(w)

Spec == Init /\ [][Next]_vars

\* Every thread goes on; a handler comes to an end; no client has to connect and
\* no signal has to come.
FairSpec ==
  /\ Spec
  /\ WF_vars(BeginAccepting) /\ WF_vars(Halt) /\ WF_vars(Join)
  /\ \A w \in Worker :
       WF_vars(Begin(w) \/ Run(w) \/ Return(w) \/ Throw(w) \/ End(w))

-----------------------------------------------------------------------------
(***************************************************************************)
(* Properties.                                                             *)
(***************************************************************************)

\* Every variable has its type.
TypeOK ==
  /\ main \in {"waiting", "accepting", "stopping", "joining", "over"}
  /\ thread \in [Worker -> {"starting", "running", "handling", "ended"}]
  /\ timerSet \subseteq Worker
  /\ count \in [Worker -> Nat]
  /\ target \in 0 .. Workers
  /\ owner \in [Conn -> 0 .. Workers]
  /\ posted \in [Worker -> Seq(Conn)]
  /\ halted \subseteq Worker
  /\ errors \in 0 .. MaxErrors

\* The connections given to a worker.
Given(w) == {c \in Conn : owner[c] = w}

\* Connections are only given to workers whose timer is in the pool (do_accept
\* dereferences it), and nothing clears the count that they have raised.
GivenToReady == \A w \in Worker : target = w \/ Given(w) # {} => thread[w] # "starting"

\* The connections whose start() was run: given to a worker and posted to none.
Started == {c \in Conn : /\ owner[c] # 0
                         /\ \A w \in Worker : \A i \in 1..Len(posted[w]) : posted[w][i] # c}

Turns == INSTANCE TurnTaking WITH turn <- target, started <- Started

\* The choice of the lowest count amounts to strict turns, failing accepts
\* included, since counts are never lowered otherwise; and each connection is
\* started once, whatever the handlers before it have thrown.
TakesTurns == Turns!TurnSpec

\* No worker is lost before it is stopped, whatever its handlers throw, and when
\* run() waits for the workers every one of them was told to stop and stays so.
StopReachesAll ==
  /\ main \in {"joining", "over"} => halted = Worker
  /\ \A w \in Worker : thread[w] = "ended" => w \in halted

\* What a worker whose io_context is stopped still has to do: leave its handler,
\* leave run().
StepsToEnd(w) ==
  CASE thread[w] = "ended" -> 0
    [] thread[w] = "running" -> 1
    [] OTHER -> 2

\* While run() waits for the workers, every step brings one of them nearer to its
\* end and none further from it: run() returns, however many connections are
\* still to be started.
StopGetsOn ==
  [][main = "joining" =>
       \/ main' = "over"
       \/ \E w \in Worker :
            /\ StepsToEnd(w)' < StepsToEnd(w)
            /\ \A v \in Worker \ {w} : StepsToEnd(v)' = StepsToEnd(v)]_vars

\* Every connection given to a worker is started, whatever the handlers before
\* it have thrown, or the server is being stopped.
EveryStartRuns ==
  \A w \in Worker, c \in Conn :
    owner[c] = w ~> (\A i \in DOMAIN posted[w] : posted[w][i] # c) \/ main = "over"

\* A signal ends the server, with all its threads.
StopEnds == main = "stopping" ~> main = "over"
=============================================================================
