----------------------------- MODULE TaskTimer ------------------------------
(***************************************************************************)
(* crow::detail::task_timer (src/include/crow/task_timer.h): the deadlines *)
(* of one worker.  A timer is a value: its tasks, by the id under which    *)
(* they were scheduled, and the highest id issued.  A task is known by its *)
(* owner, whose socket it closes, and by the ticks it has left; the clock  *)
(* is what Elapsed takes from them.                                        *)
(***************************************************************************)
EXTENDS Naturals

CONSTANTS Owner,     \* who schedules tasks: the worker's connections
          Timeout    \* default_timeout_, in ticks

Task == [owner : Owner, left : 0 .. Timeout]

Ids(t) == DOMAIN t.tasks

\* A timer issues the ids from 1 on, and its tasks have ids that it has issued.
IsTimer(t) ==
  /\ t.highest \in Nat
  /\ Ids(t) \subseteq 1 .. t.highest
  /\ \A i \in Ids(t) : t.tasks[i] \in Task

NewTimer == [tasks |-> [i \in {} |-> 0], highest |-> 0]

\* tasks_.erase(id): nothing happens when no task has the id.
Cancelled(t, id) ==
  [tasks |-> [i \in Ids(t) \ {id} |-> t.tasks[i]], highest |-> t.highest]

\* MUTANT of NextId: the id is issued before the counter is raised, so that
\* the id of the last task is issued again.
NextIdTwice(t) == IF t.highest = 0 THEN 1 ELSE t.highest

\* The id that the next task gets: ++highest_id_.
NextId(t) == t.highest + 1

\* tasks_.insert: a task that has the id already would stay.
Scheduled(t, o) ==
  [tasks   |-> [i \in Ids(t) \cup {NextId(t)} |->
                  IF i \in Ids(t) THEN t.tasks[i] ELSE [owner |-> o, left |-> Timeout]],
   highest |-> NextId(t)]

\* A tick of the clock passes.
Elapsed(t) ==
  [tasks   |-> [i \in Ids(t) |->
                  [t.tasks[i] EXCEPT !.left = IF @ = 0 THEN 0 ELSE @ - 1]],
   highest |-> t.highest]

\* The tasks whose time has come, and their owners.
Due(t) == {i \in Ids(t) : t.tasks[i].left = 0}
DueOwners(t) == {t.tasks[i].owner : i \in Due(t)}

\* MUTANT of Processed: the ids start again although tasks are left.
ProcessedReset(t) ==
  [tasks |-> [i \in Ids(t) \ Due(t) |-> t.tasks[i]], highest |-> 0]

\* process_tasks: what has been called is erased, and the ids start again
\* when nothing is left.
Processed(t) ==
  LET rest == Ids(t) \ Due(t)
  IN  [tasks   |-> [i \in rest |-> t.tasks[i]],
       highest |-> IF rest = {} THEN 0 ELSE t.highest]

\* The tasks of an owner.
TasksOf(t, o) == {i \in Ids(t) : t.tasks[i].owner = o}
=============================================================================
