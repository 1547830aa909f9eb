-------------------------- MODULE ConnectionProofs --------------------------
(***************************************************************************)
(* What holds of the connections of a worker for every set of connections, *)
(* every timeout and all bounds.                                           *)
(***************************************************************************)
EXTENDS Connection, TLAPS

-----------------------------------------------------------------------------
(***************************************************************************)
(* The timer.                                                              *)
(***************************************************************************)

\* cancel erases the task with the id and no other.
LEMMA CancelledTimer ==
  ASSUME NEW t, TT!IsTimer(t), NEW id
  PROVE  LET u == TT!Cancelled(t, id)
         IN  /\ TT!IsTimer(u)
             /\ TT!Ids(u) = TT!Ids(t) \ {id}
             /\ u.highest = t.highest
             /\ \A i \in TT!Ids(u) : u.tasks[i] = t.tasks[i]
  BY DEF TT!IsTimer, TT!Cancelled, TT!Ids

\* schedule adds one task, under an id that no task has.
LEMMA ScheduledTimer ==
  ASSUME NEW t, TT!IsTimer(t), NEW o \in Conn
  PROVE  LET u == TT!Scheduled(t, o)
         IN  /\ TT!IsTimer(u)
             /\ TT!NextId(t) \in Nat /\ TT!NextId(t) \notin TT!Ids(t)
             /\ TT!Ids(u) = TT!Ids(t) \cup {TT!NextId(t)}
             /\ u.highest = TT!NextId(t) /\ t.highest < u.highest
             /\ u.tasks[TT!NextId(t)].owner = o
             /\ \A i \in TT!Ids(t) : u.tasks[i] = t.tasks[i]
<1> DEFINE u == TT!Scheduled(t, o)
<1> DEFINE n == TT!NextId(t)
<1>1. n \in Nat /\ n \notin TT!Ids(t) /\ t.highest \in Nat /\ n = t.highest + 1
  BY DEF TT!IsTimer, TT!NextId
<1>2. u.highest = n /\ u.tasks = [i \in TT!Ids(t) \cup {n} |->
                  IF i \in TT!Ids(t) THEN t.tasks[i] ELSE [owner |-> o, left |-> Timeout]]
  BY DEF TT!Scheduled
<1>3. TT!Ids(u) = TT!Ids(t) \cup {n}
  BY <1>2 DEF TT!Ids
<1>4. \A i \in TT!Ids(t) : u.tasks[i] = t.tasks[i]
  BY <1>2
<1>5. u.tasks[n] = [owner |-> o, left |-> Timeout]
  BY <1>1, <1>2
<1>6. [owner |-> o, left |-> Timeout] \in TT!Task
  BY ConnectionAssumption DEF TT!Task
<1>7. TT!IsTimer(u)
  <2>1. TT!Ids(u) \subseteq 1..u.highest
    BY <1>1, <1>2, <1>3 DEF TT!IsTimer
  <2>2. \A i \in TT!Ids(u) : u.tasks[i] \in TT!Task
    BY <1>3, <1>4, <1>5, <1>6 DEF TT!IsTimer
  <2> QED
    BY <1>1, <1>2, <2>1, <2>2 DEF TT!IsTimer
<1> HIDE DEF u, n
<1> QED
  BY <1>1, <1>2, <1>3, <1>4, <1>5, <1>7 DEF u, n

\* The clock leaves ids and owners alone and takes time from the tasks.
LEMMA ElapsedTimer ==
  ASSUME NEW t, TT!IsTimer(t)
  PROVE  LET u == TT!Elapsed(t)
         IN  /\ TT!IsTimer(u)
             /\ TT!Ids(u) = TT!Ids(t)
             /\ u.highest = t.highest
             /\ \A i \in TT!Ids(u) : /\ u.tasks[i].owner = t.tasks[i].owner
                                     /\ u.tasks[i].left <= t.tasks[i].left
<1> DEFINE u == TT!Elapsed(t)
<1>1. /\ TT!Ids(u) = TT!Ids(t) /\ u.highest = t.highest
      /\ \A i \in TT!Ids(t) :
           u.tasks[i] = [t.tasks[i] EXCEPT !.left = IF @ = 0 THEN 0 ELSE @ - 1]
  BY DEF TT!Elapsed, TT!Ids
<1>2. ASSUME NEW i \in TT!Ids(t)
      PROVE  /\ u.tasks[i] \in TT!Task /\ u.tasks[i].owner = t.tasks[i].owner
             /\ u.tasks[i].left <= t.tasks[i].left
  <2>1. t.tasks[i] \in [owner : Conn, left : 0..Timeout]
    BY DEF TT!IsTimer, TT!Task
  <2>2. u.tasks[i] = [t.tasks[i] EXCEPT !.left = IF @ = 0 THEN 0 ELSE @ - 1]
    BY <1>1
  <2>3. /\ (IF t.tasks[i].left = 0 THEN 0 ELSE t.tasks[i].left - 1) \in 0..Timeout
        /\ (IF t.tasks[i].left = 0 THEN 0 ELSE t.tasks[i].left - 1) <= t.tasks[i].left
    BY <2>1, ConnectionAssumption
  <2> HIDE DEF u
  <2> QED
    BY <2>1, <2>2, <2>3 DEF TT!Task
<1> HIDE DEF u
<1>3. TT!IsTimer(u)
  BY <1>1, <1>2 DEF TT!IsTimer
<1> QED
  BY <1>1, <1>2, <1>3 DEF u

\* process_tasks erases what is due; ids start again only when nothing is left.
LEMMA ProcessedTimer ==
  ASSUME NEW t, TT!IsTimer(t)
  PROVE  LET u == TT!Processed(t)
         IN  /\ TT!IsTimer(u)
             /\ TT!Ids(u) = TT!Ids(t) \ TT!Due(t)
             /\ u.highest \in {0, t.highest}
             /\ TT!Ids(u) # {} => u.highest = t.highest
             /\ \A i \in TT!Ids(u) : u.tasks[i] = t.tasks[i]
  BY DEF TT!IsTimer, TT!Processed, TT!Ids

-----------------------------------------------------------------------------
(***************************************************************************)
(* The deadlines.                                                          *)
(***************************************************************************)

deadlineVars == <<sock, pending, running, taskId, timer, robbed>>

DeadlineTypeOK ==
  /\ sock \in [Conn -> {"new", "open", "closed"}]
  /\ pending \in [Conn -> {"none", "start", "read"}]
  /\ running \in Conn \cup {Idle}
  /\ taskId \in [Conn -> Nat]
  /\ TT!IsTimer(timer)
  /\ robbed \subseteq Conn

\* Who owns the task that is scheduled under an id.
OwnedBy(i, c) == i \in TT!Ids(timer) /\ timer.tasks[i].owner = c

\* An open connection is about to start, is read or is handled.
PlaceInv ==
  \A c \in Conn :
    /\ sock[c] = "new" => pending[c] = "none" /\ taskId[c] = 0 /\ running # c
    /\ pending[c] = "start" => sock[c] = "open" /\ taskId[c] = 0
    /\ running = c => pending[c] = "none"
    /\ sock[c] = "open" => pending[c] # "none" \/ running = c

\* A connection whose id is that of another's task has lost its own.
StaleInv ==
  \A c \in Conn :
    taskId[c] \in TT!Ids(timer) /\ ~ OwnedBy(taskId[c], c) =>
      sock[c] = "closed" \/ c \in robbed

\* The id of a connection that has not lost its task will not be issued again.
LiveIdInv ==
  \A c \in Conn :
    sock[c] = "open" /\ c \notin robbed /\ running # c => taskId[c] <= timer.highest

\* The inductive invariant of the deadlines.
DeadlineInv ==
  /\ DeadlineTypeOK /\ PlaceInv /\ OneDeadline /\ DeadlineUnlessRobbed
  /\ StaleInv /\ LiveIdInv

-----------------------------------------------------------------------------
(***************************************************************************)
(* What the actions do to the deadlines.                                   *)
(***************************************************************************)

\* A handler cancels and goes on; it may close its socket.
GoOn(c) ==
  /\ running = c
  /\ CancelDeadline(c)
  /\ sock' = sock \/ sock' = [sock EXCEPT ![c] = "closed"]
  /\ UNCHANGED <<pending, running, taskId>>

\* A handler cancels and leaves nothing behind.
Leave(c) ==
  /\ running \in {Idle, c}
  /\ CancelDeadline(c)
  /\ sock' = [sock EXCEPT ![c] = "closed"]
  /\ pending' = [pending EXCEPT ![c] = "none"]
  /\ running' = Idle
  /\ taskId' = [taskId EXCEPT ![c] = 0]

\* A handler ends, and the connection waits for its client.
Await(c) ==
  /\ running \in {Idle, c} /\ sock[c] = "open" /\ pending[c] # "read"
  /\ StartDeadline(c)
  /\ pending' = [pending EXCEPT ![c] = "read"]
  /\ running' = Idle
  /\ UNCHANGED sock

\* Each step is of one of these kinds, or leaves the deadlines alone.
LEMMA StepKinds ==
  ASSUME PlaceInv, [Next]_vars
  PROVE  \/ UNCHANGED deadlineVars
         \/ Elapse \/ Tick
         \/ \E c \in Conn : Accept(c) \/ ReadSome(c) \/ GoOn(c) \/ Leave(c) \/ Await(c)
<1> USE DEF deadlineVars, historyVars, parserVars
<1>1. CASE UNCHANGED vars
  BY <1>1 DEF vars
<1>2. CASE Elapse \/ Tick
  BY <1>2
<1>3. ASSUME NEW c \in Conn,
             Reset(c) \/ OnUrl(c) \/ OnUrlStart(c) \/ OnUrlRest(c) \/ OnHeaders(c) \/ OnGarbage(c)
      PROVE  UNCHANGED deadlineVars
  <2>1. CASE Reset(c)
    BY <2>1 DEF Reset
  <2>2. CASE OnUrl(c)
    BY <2>2 DEF OnUrl
  <2>3. CASE OnUrlStart(c)
    BY <2>3 DEF OnUrlStart
  <2>4. CASE OnUrlRest(c)
    BY <2>4 DEF OnUrlRest
  <2>5. CASE OnHeaders(c)
    BY <2>5 DEF OnHeaders
  <2>6. CASE OnGarbage(c)
    BY <2>6 DEF OnGarbage
  <2> QED
    BY <1>3, <2>1, <2>2, <2>3, <2>4, <2>5, <2>6
<1>4. ASSUME NEW c \in Conn, Start(c)
      PROVE  Await(c)
  BY <1>4 DEF PlaceInv, Start, Await
<1>5. ASSUME NEW c \in Conn, ReadError(c)
      PROVE  Leave(c)
  BY <1>5 DEF ReadError, Abandon, Free, Leave
<1>6. ASSUME NEW c \in Conn, EndRead(c)
      PROVE  Leave(c) \/ Await(c)
  BY <1>6 DEF PlaceInv, EndRead, Abandon, Free, Leave, Await
<1>7. ASSUME NEW c \in Conn, Handle_Throws(c)
      PROVE  Leave(c)
  BY <1>7 DEF Handle_Throws, Handling, Parsing, Free, Leave
<1>8. ASSUME NEW c \in Conn,
             \/ Handle_Nameless(c) \/ Handle_Upgrade(c) \/ Handle_Route(c)
             \/ Handle_Stream(c) \/ Handle_StreamFails(c)
      PROVE  GoOn(c)
  <2>1. Addressed(c) => GoOn(c) \/ sock' \notin {sock, [sock EXCEPT ![c] = "closed"]}
    BY DEF Addressed, Handling, Parsing, GoOn
  <2>2. Addressed(c) /\ sock' \in {sock, [sock EXCEPT ![c] = "closed"]}
    BY <1>8 DEF Handle_Nameless, Handle_Upgrade, Handle_Route, Handle_Stream,
                Handle_StreamFails
  <2> QED
    BY <2>1, <2>2
<1>9. ASSUME Next
      PROVE  \/ Elapse \/ Tick
             \/ \E c \in Conn :
                  \/ Accept(c) \/ ReadSome(c)
                  \/ Reset(c) \/ OnUrl(c) \/ OnUrlStart(c) \/ OnUrlRest(c)
                  \/ OnHeaders(c) \/ OnGarbage(c)
                  \/ Start(c) \/ ReadError(c) \/ EndRead(c) \/ Handle_Throws(c)
                  \/ Handle_Nameless(c) \/ Handle_Upgrade(c) \/ Handle_Route(c)
                  \/ Handle_Stream(c) \/ Handle_StreamFails(c)
  BY <1>9 DEF Next
<1> QED
  BY <1>1, <1>2, <1>3, <1>4, <1>5, <1>6, <1>7, <1>8, <1>9

\* What a cancellation leaves: c has no task, and whoever lost one is robbed.
LEMMA CancelLeaves ==
  ASSUME DeadlineInv, NEW c \in Conn,
         NEW t, t = TT!Cancelled(timer, taskId[c]),
         NEW r, r = (robbed \cup Victims(c)) \ {c}
  PROVE  /\ TT!IsTimer(t) /\ r \subseteq Conn
         /\ t.highest = timer.highest
         /\ TT!Ids(t) = TT!Ids(timer) \ {taskId[c]}
         /\ \A i \in TT!Ids(t) : t.tasks[i] = timer.tasks[i]
         /\ TT!TasksOf(t, c) = {}
         /\ \A d \in Conn \ {c} :
              \/ TT!TasksOf(t, d) = TT!TasksOf(timer, d)
              \/ TT!TasksOf(t, d) = {} /\ d \in r
<1>1. /\ TT!IsTimer(t) /\ t.highest = timer.highest
      /\ TT!Ids(t) = TT!Ids(timer) \ {taskId[c]}
      /\ \A i \in TT!Ids(t) : t.tasks[i] = timer.tasks[i]
  BY CancelledTimer DEF DeadlineInv, DeadlineTypeOK
<1>2. r \subseteq Conn
  <2>1. \A i \in TT!Ids(timer) : timer.tasks[i].owner \in Conn
    BY DEF DeadlineInv, DeadlineTypeOK, TT!IsTimer, TT!Task
  <2> QED
    BY <2>1 DEF DeadlineInv, DeadlineTypeOK, Victims
<1>3. \A d \in Conn : TT!TasksOf(t, d) = TT!TasksOf(timer, d) \ {taskId[c]}
  BY <1>1 DEF TT!TasksOf
<1>4. TT!TasksOf(t, c) = {}
  BY <1>3 DEF DeadlineInv, OneDeadline
<1>5. ASSUME NEW d \in Conn \ {c}, taskId[c] \in TT!TasksOf(timer, d)
      PROVE  TT!TasksOf(t, d) = {} /\ d \in r
  <2>1. TT!TasksOf(timer, d) = {taskId[c]}
    BY <1>5 DEF DeadlineInv, OneDeadline
  <2>2. d \in Victims(c)
    BY <1>5 DEF TT!TasksOf, Victims
  <2> QED
    BY <1>3, <2>1, <2>2
<1>6. ASSUME NEW d \in Conn \ {c}
      PROVE  \/ TT!TasksOf(t, d) = TT!TasksOf(timer, d)
             \/ TT!TasksOf(t, d) = {} /\ d \in r
  <2>1. CASE taskId[c] \in TT!TasksOf(timer, d)
    BY <1>5, <2>1
  <2>2. CASE taskId[c] \notin TT!TasksOf(timer, d)
    BY <1>3, <2>2
  <2> QED
    BY <2>1, <2>2
<1> QED
  BY <1>1, <1>2, <1>4, <1>6

\* Closing c's socket or moving its id does not disturb who is stale.
LEMMA CancelKeepsStale ==
  ASSUME DeadlineInv, NEW c \in Conn, CancelDeadline(c), TT!TasksOf(timer', c) = {},
         \A d \in Conn \ {c} : taskId'[d] = taskId[d],
         taskId'[c] \in {0, taskId[c]},
         \A d \in Conn : sock[d] = "closed" => sock'[d] = "closed"
  PROVE  StaleInv'
<1> DEFINE t == TT!Cancelled(timer, taskId[c])
<1>1. timer' = t /\ robbed' = (robbed \cup Victims(c)) \ {c}
  BY DEF CancelDeadline
<1>2. /\ TT!IsTimer(timer)
      /\ TT!Ids(t) = TT!Ids(timer) \ {taskId[c]}
      /\ \A i \in TT!Ids(t) : t.tasks[i] = timer.tasks[i]
  BY CancelledTimer DEF DeadlineInv, DeadlineTypeOK
<1> HIDE DEF t
<1>3. ASSUME NEW d \in Conn, taskId'[d] \in TT!Ids(t), t.tasks[taskId'[d]].owner # d
      PROVE  sock'[d] = "closed" \/ d \in robbed'
  <2>1. d # c
    BY <1>2, <1>3 DEF TT!IsTimer
  <2>2. taskId[d] \in TT!Ids(timer) /\ ~ OwnedBy(taskId[d], d)
    BY <1>2, <1>3, <2>1 DEF OwnedBy
  <2>3. sock[d] = "closed" \/ d \in robbed
    BY <2>2 DEF DeadlineInv, StaleInv
  <2> QED
    BY <1>1, <2>1, <2>3
<1>4. StaleInv' <=> \A d \in Conn :
        taskId'[d] \in TT!Ids(timer') /\ ~ (taskId'[d] \in TT!Ids(timer') /\ timer'.tasks[taskId'[d]].owner = d)
          => sock'[d] = "closed" \/ d \in robbed'
  BY DEF StaleInv, OwnedBy, TT!Ids
<1> QED
  BY <1>1, <1>3, <1>4

\* A handler that goes on keeps the invariant: what it cancels was its own, or
\* its owner is robbed.
LEMMA GoOnKeepsDeadlines ==
  ASSUME DeadlineInv, NEW c \in Conn, GoOn(c)
  PROVE  DeadlineInv'
<1>1. /\ timer' = TT!Cancelled(timer, taskId[c])
      /\ robbed' = (robbed \cup Victims(c)) \ {c}
      /\ running = c /\ UNCHANGED <<pending, running, taskId>>
      /\ \A d \in Conn \ {c} : sock'[d] = sock[d]
      /\ sock'[c] \in {sock[c], "closed"} /\ sock' \in [Conn -> {"new", "open", "closed"}]
  BY DEF GoOn, CancelDeadline, DeadlineInv, DeadlineTypeOK
<1>2. /\ TT!IsTimer(timer') /\ robbed' \subseteq Conn
      /\ timer'.highest = timer.highest
      /\ TT!Ids(timer') = TT!Ids(timer) \ {taskId[c]}
      /\ \A i \in TT!Ids(timer') : timer'.tasks[i] = timer.tasks[i]
      /\ TT!TasksOf(timer', c) = {}
      /\ \A d \in Conn \ {c} : \/ TT!TasksOf(timer', d) = TT!TasksOf(timer, d)
                               \/ TT!TasksOf(timer', d) = {} /\ d \in robbed'
  BY <1>1, CancelLeaves
<1>3. DeadlineTypeOK'
  BY <1>1, <1>2 DEF DeadlineInv, DeadlineTypeOK
<1>4. PlaceInv'
  BY <1>1 DEF DeadlineInv, PlaceInv
<1>5. OneDeadline'
  <2>1. \A d \in Conn : TT!TasksOf(timer', d) \subseteq {taskId'[d]}
    BY <1>1, <1>2 DEF DeadlineInv, OneDeadline
  <2>2. \A i \in TT!Ids(timer') : timer'.tasks[i].owner \in Conn \ {c}
    BY <1>2 DEF TT!TasksOf, TT!IsTimer, TT!Task
  <2>3. \A i \in TT!Ids(timer') : sock'[timer'.tasks[i].owner] = "open"
    BY <1>1, <1>2, <2>2 DEF DeadlineInv, OneDeadline
  <2> QED
    BY <2>1, <2>3 DEF OneDeadline
<1>6. DeadlineUnlessRobbed'
  BY <1>1, <1>2 DEF DeadlineInv, DeadlineUnlessRobbed, PlaceInv, Waiting
<1>7. StaleInv'
  BY <1>1, <1>2, CancelKeepsStale DEF GoOn
<1>8. LiveIdInv'
  BY <1>1, <1>2 DEF DeadlineInv, LiveIdInv
<1> QED
  BY <1>3, <1>4, <1>5, <1>6, <1>7, <1>8 DEF DeadlineInv

\* So does one that leaves nothing behind.
LEMMA LeaveKeepsDeadlines ==
  ASSUME DeadlineInv, NEW c \in Conn, Leave(c)
  PROVE  DeadlineInv'
<1>1. /\ timer' = TT!Cancelled(timer, taskId[c])
      /\ robbed' = (robbed \cup Victims(c)) \ {c}
      /\ running \in {Idle, c} /\ running' = Idle
      /\ \A d \in Conn \ {c} : /\ sock'[d] = sock[d] /\ pending'[d] = pending[d]
                               /\ taskId'[d] = taskId[d]
      /\ sock'[c] = "closed" /\ pending'[c] = "none" /\ taskId'[c] = 0
      /\ sock' \in [Conn -> {"new", "open", "closed"}]
      /\ pending' \in [Conn -> {"none", "start", "read"}]
      /\ taskId' \in [Conn -> Nat]
  BY DEF Leave, CancelDeadline, DeadlineInv, DeadlineTypeOK
<1>2. /\ TT!IsTimer(timer') /\ robbed' \subseteq Conn
      /\ timer'.highest = timer.highest
      /\ TT!Ids(timer') = TT!Ids(timer) \ {taskId[c]}
      /\ \A i \in TT!Ids(timer') : timer'.tasks[i] = timer.tasks[i]
      /\ TT!TasksOf(timer', c) = {}
      /\ \A d \in Conn \ {c} : \/ TT!TasksOf(timer', d) = TT!TasksOf(timer, d)
                               \/ TT!TasksOf(timer', d) = {} /\ d \in robbed'
  <2>1. PICK t : t = TT!Cancelled(timer, taskId[c])
    OBVIOUS
  <2>2. PICK r : r = (robbed \cup Victims(c)) \ {c}
    OBVIOUS
  <2>3. timer' = t /\ robbed' = r
    BY <1>1, <2>1, <2>2
  <2>4. /\ TT!IsTimer(t) /\ r \subseteq Conn
        /\ t.highest = timer.highest
        /\ TT!Ids(t) = TT!Ids(timer) \ {taskId[c]}
        /\ \A i \in TT!Ids(t) : t.tasks[i] = timer.tasks[i]
        /\ TT!TasksOf(t, c) = {}
        /\ \A d \in Conn \ {c} : \/ TT!TasksOf(t, d) = TT!TasksOf(timer, d)
                                 \/ TT!TasksOf(t, d) = {} /\ d \in r
    BY <2>1, <2>2, CancelLeaves
  <2> QED
    BY ONLY <2>3, <2>4
<1>3. DeadlineTypeOK'
  BY <1>1, <1>2 DEF DeadlineTypeOK
<1>4. PlaceInv'
  BY <1>1, ConnectionAssumption DEF DeadlineInv, PlaceInv
<1>5. OneDeadline'
  <2>1. \A d \in Conn : TT!TasksOf(timer', d) \subseteq {taskId'[d]}
    BY <1>1, <1>2 DEF DeadlineInv, OneDeadline
  <2>2. \A i \in TT!Ids(timer') : timer'.tasks[i].owner \in Conn \ {c}
    BY <1>2 DEF TT!TasksOf, TT!IsTimer, TT!Task
  <2>3. \A i \in TT!Ids(timer') : sock'[timer'.tasks[i].owner] = "open"
    BY <1>1, <1>2, <2>2 DEF DeadlineInv, OneDeadline
  <2> QED
    BY <2>1, <2>3 DEF OneDeadline
<1>6. DeadlineUnlessRobbed'
  BY <1>1, <1>2 DEF DeadlineInv, DeadlineUnlessRobbed, Waiting
<1>7. StaleInv'
  BY <1>1, <1>2, CancelKeepsStale DEF Leave
<1>8. LiveIdInv'
  BY <1>1, <1>2 DEF DeadlineInv, LiveIdInv
<1> QED
  BY <1>3, <1>4, <1>5, <1>6, <1>7, <1>8 DEF DeadlineInv

\* A deadline that starts gets an id that no live connection holds.
LEMMA AwaitKeepsDeadlines ==
  ASSUME DeadlineInv, NEW c \in Conn, Await(c)
  PROVE  DeadlineInv'
<1>0. PICK t : t = TT!Cancelled(timer, taskId[c])
  OBVIOUS
<1> DEFINE n == TT!NextId(t)
<1>1. /\ timer' = TT!Scheduled(t, c)
      /\ robbed' = (robbed \cup Victims(c)) \ {c}
      /\ taskId' = [taskId EXCEPT ![c] = n]
  BY <1>0 DEF Await, StartDeadline
<1>2. /\ running \in {Idle, c} /\ running' = Idle
      /\ sock' = sock /\ sock[c] = "open"
      /\ pending' = [pending EXCEPT ![c] = "read"]
  BY DEF Await
<1>3. /\ TT!IsTimer(t) /\ robbed' \subseteq Conn
      /\ t.highest = timer.highest
      /\ TT!Ids(t) = TT!Ids(timer) \ {taskId[c]}
      /\ \A i \in TT!Ids(t) : t.tasks[i] = timer.tasks[i]
      /\ TT!TasksOf(t, c) = {}
      /\ \A d \in Conn \ {c} : \/ TT!TasksOf(t, d) = TT!TasksOf(timer, d)
                               \/ TT!TasksOf(t, d) = {} /\ d \in robbed'
  <2>1. PICK r : r = (robbed \cup Victims(c)) \ {c}
    OBVIOUS
  <2>2. robbed' = r
    BY <1>1, <2>1
  <2> QED
    BY ONLY DeadlineInv, c \in Conn, <1>0, <2>1, <2>2, CancelLeaves
<1>4. /\ TT!IsTimer(timer')
      /\ n \in Nat /\ n \notin TT!Ids(t)
      /\ TT!Ids(timer') = TT!Ids(t) \cup {n}
      /\ timer'.highest = n /\ t.highest < timer'.highest
      /\ timer'.tasks[n].owner = c
      /\ \A i \in TT!Ids(t) : timer'.tasks[i] = t.tasks[i]
  BY <1>1, <1>3, ScheduledTimer
<1> HIDE DEF n
<1>5. /\ taskId' \in [Conn -> Nat] /\ taskId'[c] = n
      /\ \A d \in Conn \ {c} : taskId'[d] = taskId[d]
  BY <1>1, <1>4 DEF DeadlineInv, DeadlineTypeOK
<1>6. /\ pending' \in [Conn -> {"none", "start", "read"}] /\ pending'[c] = "read"
      /\ \A d \in Conn \ {c} : pending'[d] = pending[d]
  BY <1>2 DEF DeadlineInv, DeadlineTypeOK
<1>7. DeadlineTypeOK'
  BY <1>2, <1>3, <1>4, <1>5, <1>6 DEF DeadlineInv, DeadlineTypeOK
<1>8. PlaceInv'
  BY <1>2, <1>5, <1>6, ConnectionAssumption DEF DeadlineInv, PlaceInv
<1>9. \A d \in Conn : TT!TasksOf(timer', d) = IF d = c THEN {n} ELSE TT!TasksOf(t, d)
  BY <1>3, <1>4 DEF TT!TasksOf
<1>10. OneDeadline'
  <2>1. \A d \in Conn : TT!TasksOf(timer', d) \subseteq {taskId'[d]}
    BY <1>3, <1>5, <1>9 DEF DeadlineInv, OneDeadline
  <2>2. \A i \in TT!Ids(timer') : sock'[timer'.tasks[i].owner] = "open"
    BY <1>2, <1>3, <1>4 DEF DeadlineInv, OneDeadline
  <2> QED
    BY <2>1, <2>2 DEF OneDeadline
<1>11. DeadlineUnlessRobbed'
  <2> SUFFICES ASSUME NEW d \in Conn, Waiting(d)'
               PROVE  TT!TasksOf(timer', d) # {} \/ d \in robbed'
    BY DEF DeadlineUnlessRobbed
  <2>1. CASE d = c
    BY <2>1, <1>9
  <2>2. CASE d # c
    <3>1. TT!TasksOf(timer, d) # {} \/ d \in robbed
      BY <2>2, <1>2, <1>6 DEF DeadlineInv, DeadlineUnlessRobbed, Waiting
    <3>2. d \in robbed => d \in robbed'
      BY <2>2, <1>1
    <3> QED
      BY <2>2, <3>1, <3>2, <1>3, <1>9
  <2> QED
    BY <2>1, <2>2
<1>12. ASSUME NEW d \in Conn \ {c}, sock[d] = "open", d \notin robbed'
       PROVE  taskId[d] <= timer.highest
  <2>1. d \notin robbed /\ running # d
    BY <1>12, <1>1, <1>2, ConnectionAssumption
  <2> QED
    BY <1>12, <2>1 DEF DeadlineInv, LiveIdInv
<1>13. StaleInv'
  <2>1. ASSUME NEW d \in Conn, taskId'[d] \in TT!Ids(timer'),
               timer'.tasks[taskId'[d]].owner # d
        PROVE  sock'[d] = "closed" \/ d \in robbed'
    <3>1. d # c
      BY <2>1, <1>4, <1>5
    <3>2. CASE taskId[d] = n
      <4>1. taskId[d] # 0
        BY <3>2, <1>3, <1>4 DEF TT!IsTimer
      <4>2. sock[d] # "new"
        BY <4>1 DEF DeadlineInv, PlaceInv
      <4>3. ~ (taskId[d] <= timer.highest)
        BY <3>2, <1>3, <1>4 DEF TT!IsTimer
      <4> QED
        BY <3>1, <4>2, <4>3, <1>2, <1>12 DEF DeadlineInv, DeadlineTypeOK
    <3>3. CASE taskId[d] # n
      <4>1. taskId[d] \in TT!Ids(timer) /\ ~ OwnedBy(taskId[d], d)
        BY <2>1, <3>1, <3>3, <1>3, <1>4, <1>5 DEF OwnedBy
      <4>2. sock[d] = "closed" \/ d \in robbed
        BY <4>1 DEF DeadlineInv, StaleInv
      <4> QED
        BY <3>1, <4>2, <1>1, <1>2
    <3> QED
      BY <3>2, <3>3
  <2>2. StaleInv' <=> \A d \in Conn :
          taskId'[d] \in TT!Ids(timer')
            /\ ~ (taskId'[d] \in TT!Ids(timer') /\ timer'.tasks[taskId'[d]].owner = d)
            => sock'[d] = "closed" \/ d \in robbed'
    BY DEF StaleInv, OwnedBy, TT!Ids
  <2> QED
    BY <2>1, <2>2
<1>14. LiveIdInv'
  <2> SUFFICES ASSUME NEW d \in Conn, sock'[d] = "open", d \notin robbed'
               PROVE  taskId'[d] <= timer'.highest
    BY DEF LiveIdInv
  <2>1. CASE d = c
    BY <2>1, <1>4, <1>5
  <2>2. CASE d # c
    <3>1. taskId[d] <= timer.highest /\ taskId[d] \in Nat
      BY <2>2, <1>2, <1>12 DEF DeadlineInv, DeadlineTypeOK
    <3> QED
      BY <2>2, <3>1, <1>3, <1>4, <1>5 DEF TT!IsTimer
  <2> QED
    BY <2>1, <2>2
<1> QED
  BY <1>7, <1>8, <1>10, <1>11, <1>13, <1>14 DEF DeadlineInv

\* A tick closes the owners of the tasks that it takes; ids start again only
\* when no live connection can hold one.
LEMMA TickKeepsDeadlines ==
  ASSUME DeadlineInv, Tick
  PROVE  DeadlineInv'
<1>1. /\ timer' = TT!Processed(timer)
      /\ running = Idle
      /\ \A c \in Conn : sock'[c] = IF c \in TT!DueOwners(timer) THEN "closed" ELSE sock[c]
      /\ sock' \in [Conn -> {"new", "open", "closed"}]
      /\ UNCHANGED <<pending, running, taskId, robbed>>
  BY DEF Tick, historyVars, DeadlineInv, DeadlineTypeOK
<1>2. /\ TT!IsTimer(timer')
      /\ TT!Ids(timer') = TT!Ids(timer) \ TT!Due(timer)
      /\ timer'.highest \in {0, timer.highest}
      /\ TT!Ids(timer') # {} => timer'.highest = timer.highest
      /\ \A i \in TT!Ids(timer') : timer'.tasks[i] = timer.tasks[i]
  BY <1>1, ProcessedTimer DEF DeadlineInv, DeadlineTypeOK
<1>3. \A c \in Conn : \A i, j \in TT!TasksOf(timer, c) : i = j
  BY DEF DeadlineInv, OneDeadline
<1>4. \A i \in TT!Ids(timer) : timer.tasks[i].owner \in Conn
  BY DEF DeadlineInv, DeadlineTypeOK, TT!IsTimer, TT!Task
<1>5. \A i \in TT!Ids(timer') : timer.tasks[i].owner \notin TT!DueOwners(timer)
  <2> SUFFICES ASSUME NEW i \in TT!Ids(timer'), NEW j \in TT!Due(timer),
                      timer.tasks[i].owner = timer.tasks[j].owner
               PROVE  FALSE
    BY DEF TT!DueOwners
  <2>1. i # j /\ i \in TT!Ids(timer) /\ j \in TT!Ids(timer)
    BY <1>2 DEF TT!Due
  <2> QED
    BY <2>1, <1>3, <1>4 DEF TT!TasksOf
<1>6. DeadlineTypeOK'
  BY <1>1, <1>2 DEF DeadlineInv, DeadlineTypeOK
<1>7. PlaceInv'
  <2>1. \A c \in Conn : \/ sock'[c] = sock[c]
                        \/ sock'[c] = "closed" /\ c \in TT!DueOwners(timer)
    BY <1>1
  <2>2. \A c \in Conn : c \in TT!DueOwners(timer) => sock[c] = "open"
    BY DEF DeadlineInv, OneDeadline, TT!DueOwners, TT!Due
  <2>3. \A c \in Conn : c \in TT!DueOwners(timer) => taskId[c] # 0
    BY DEF DeadlineInv, OneDeadline, DeadlineTypeOK, TT!DueOwners, TT!Due, TT!TasksOf,
           TT!IsTimer
  <2> QED
    BY <1>1, <2>1, <2>2, <2>3 DEF DeadlineInv, PlaceInv
<1>8. OneDeadline'
  <2>1. \A c \in Conn : TT!TasksOf(timer', c) \subseteq TT!TasksOf(timer, c)
    BY <1>2 DEF TT!TasksOf
  <2>2. \A i \in TT!Ids(timer') : sock'[timer'.tasks[i].owner] = "open"
    BY <1>1, <1>2, <1>4, <1>5 DEF DeadlineInv, OneDeadline
  <2> QED
    BY <1>1, <2>1, <2>2 DEF DeadlineInv, OneDeadline
<1>9. DeadlineUnlessRobbed'
  <2> SUFFICES ASSUME NEW c \in Conn, Waiting(c)', c \notin robbed'
               PROVE  TT!TasksOf(timer', c) # {}
    BY DEF DeadlineUnlessRobbed
  <2>1. Waiting(c) /\ c \notin TT!DueOwners(timer) /\ c \notin robbed
    BY <1>1 DEF Waiting
  <2>2. PICK i \in TT!Ids(timer) : timer.tasks[i].owner = c
    BY <2>1 DEF DeadlineInv, DeadlineUnlessRobbed, TT!TasksOf
  <2>3. i \in TT!Ids(timer') /\ timer'.tasks[i].owner = c
    BY <2>1, <2>2, <1>2 DEF TT!DueOwners
  <2> QED
    BY <2>3 DEF TT!TasksOf
<1>10. StaleInv'
  <2>1. ASSUME NEW c \in Conn, taskId[c] \in TT!Ids(timer'),
               timer'.tasks[taskId[c]].owner # c
        PROVE  sock'[c] = "closed" \/ c \in robbed
    BY <2>1, <1>1, <1>2 DEF DeadlineInv, StaleInv, OwnedBy
  <2>2. StaleInv' <=> \A c \in Conn :
          taskId'[c] \in TT!Ids(timer')
            /\ ~ (taskId'[c] \in TT!Ids(timer') /\ timer'.tasks[taskId'[c]].owner = c)
            => sock'[c] = "closed" \/ c \in robbed'
    BY DEF StaleInv, OwnedBy, TT!Ids
  <2> QED
    BY <2>1, <2>2, <1>1
<1>11. LiveIdInv'
  <2> SUFFICES ASSUME NEW c \in Conn, sock'[c] = "open", c \notin robbed'
               PROVE  taskId'[c] <= timer'.highest
    BY DEF LiveIdInv
  <2>1. sock[c] = "open" /\ c \notin robbed /\ running # c
    BY <1>1, ConnectionAssumption
  <2>2. taskId[c] <= timer.highest
    BY <2>1 DEF DeadlineInv, LiveIdInv
  <2>3. CASE pending[c] = "start"
    <3>1. taskId[c] = 0 /\ timer'.highest \in Nat
      BY <2>3, <1>2 DEF DeadlineInv, PlaceInv, TT!IsTimer
    <3> QED
      BY <3>1, <1>1
  <2>4. CASE pending[c] = "read"
    <3>1. TT!TasksOf(timer', c) # {}
      BY <2>4, <1>1, <1>9 DEF DeadlineUnlessRobbed, Waiting
    <3>2. TT!Ids(timer') # {}
      BY <3>1 DEF TT!TasksOf
    <3> QED
      BY <3>2, <2>2, <1>1, <1>2
  <2> QED
    BY <2>1, <2>3, <2>4 DEF DeadlineInv, DeadlineTypeOK, PlaceInv
<1> QED
  BY <1>6, <1>7, <1>8, <1>9, <1>10, <1>11 DEF DeadlineInv

LEMMA ElapseKeepsDeadlines ==
  ASSUME DeadlineInv, Elapse
  PROVE  DeadlineInv'
<1>1. timer' = TT!Elapsed(timer) /\ UNCHANGED <<sock, pending, running, taskId, robbed>>
  BY DEF Elapse, historyVars
<1>2. /\ TT!IsTimer(timer') /\ TT!Ids(timer') = TT!Ids(timer)
      /\ timer'.highest = timer.highest
      /\ \A i \in TT!Ids(timer) : timer'.tasks[i].owner = timer.tasks[i].owner
  BY <1>1, ElapsedTimer DEF DeadlineInv, DeadlineTypeOK
<1>3. \A c \in Conn : TT!TasksOf(timer', c) = TT!TasksOf(timer, c)
  BY <1>2 DEF TT!TasksOf
<1>5. DeadlineTypeOK' /\ PlaceInv'
  BY <1>1, <1>2 DEF DeadlineInv, DeadlineTypeOK, PlaceInv
<1>6. OneDeadline' /\ DeadlineUnlessRobbed'
  BY <1>1, <1>2, <1>3 DEF DeadlineInv, OneDeadline, DeadlineUnlessRobbed, Waiting
<1>7. StaleInv'
  <2>1. StaleInv' <=> \A c \in Conn :
          taskId'[c] \in TT!Ids(timer')
            /\ ~ (taskId'[c] \in TT!Ids(timer') /\ timer'.tasks[taskId'[c]].owner = c)
            => sock'[c] = "closed" \/ c \in robbed'
    BY DEF StaleInv, OwnedBy, TT!Ids
  <2> QED
    BY <2>1, <1>1, <1>2 DEF DeadlineInv, StaleInv, OwnedBy
<1>8. LiveIdInv'
  BY <1>1, <1>2 DEF DeadlineInv, LiveIdInv
<1> QED
  BY <1>5, <1>6, <1>7, <1>8 DEF DeadlineInv

\* What leaves timer, ids and robberies alone keeps the invariant when it
\* closes nothing and lets nothing wait.
LEMMA OtherKeepsDeadlines ==
  ASSUME DeadlineInv,
         UNCHANGED <<timer, taskId, robbed>>,
         DeadlineTypeOK', PlaceInv',
         \A c \in Conn :
           /\ sock[c] = "open" => sock'[c] = "open"
           /\ sock[c] = "closed" => sock'[c] = "closed"
           /\ sock[c] = "new" /\ sock'[c] # "new" => pending'[c] = "start"
           /\ pending'[c] = "read" => pending[c] = "read"
           /\ running = c => running' = c
  PROVE  DeadlineInv'
<1>1. OneDeadline'
  BY DEF DeadlineInv, DeadlineTypeOK, TT!IsTimer, TT!Task, OneDeadline
<1>2. DeadlineUnlessRobbed'
  BY DEF DeadlineInv, DeadlineTypeOK, DeadlineUnlessRobbed, Waiting
<1>3. StaleInv'
  <2>1. StaleInv' <=> \A c \in Conn :
          taskId'[c] \in TT!Ids(timer')
            /\ ~ (taskId'[c] \in TT!Ids(timer') /\ timer'.tasks[taskId'[c]].owner = c)
            => sock'[c] = "closed" \/ c \in robbed'
    BY DEF StaleInv, OwnedBy, TT!Ids
  <2> QED
    BY <2>1 DEF DeadlineInv, StaleInv, OwnedBy
<1>4. LiveIdInv'
  BY DEF DeadlineInv, DeadlineTypeOK, TT!IsTimer, PlaceInv, LiveIdInv
<1> QED
  BY <1>1, <1>2, <1>3, <1>4 DEF DeadlineInv

-----------------------------------------------------------------------------
(***************************************************************************)
(* The theorems on deadlines.                                              *)
(***************************************************************************)

LEMMA InitDeadlines == Init => DeadlineInv
<1> SUFFICES ASSUME Init PROVE DeadlineInv
  OBVIOUS
<1>1. TT!IsTimer(timer) /\ TT!Ids(timer) = {}
  BY DEF Init, TT!NewTimer, TT!IsTimer, TT!Ids
<1>2. /\ sock = [c \in Conn |-> "new"] /\ pending = [c \in Conn |-> "none"]
      /\ running = Idle /\ taskId = [c \in Conn |-> 0] /\ robbed = {}
  BY DEF Init
<1>3. DeadlineTypeOK /\ PlaceInv
  BY <1>1, <1>2, ConnectionAssumption DEF DeadlineTypeOK, PlaceInv
<1>4. OneDeadline /\ DeadlineUnlessRobbed
  BY <1>1, <1>2 DEF OneDeadline, DeadlineUnlessRobbed, Waiting, TT!TasksOf
<1>5. StaleInv /\ LiveIdInv
  BY <1>1, <1>2 DEF StaleInv, LiveIdInv
<1> QED
  BY <1>3, <1>4, <1>5 DEF DeadlineInv

LEMMA NextDeadlines ==
  ASSUME DeadlineInv, [Next]_vars
  PROVE  DeadlineInv'
<1>1. \/ UNCHANGED deadlineVars
      \/ Elapse \/ Tick
      \/ \E c \in Conn : Accept(c) \/ ReadSome(c) \/ GoOn(c) \/ Leave(c) \/ Await(c)
  BY StepKinds DEF DeadlineInv
<1>2. CASE UNCHANGED deadlineVars
  <2>1. DeadlineTypeOK' /\ PlaceInv'
    BY <1>2 DEF DeadlineInv, DeadlineTypeOK, PlaceInv, deadlineVars
  <2> QED
    BY <1>2, <2>1, OtherKeepsDeadlines DEF deadlineVars
<1>3. ASSUME NEW c \in Conn, Accept(c)
      PROVE  DeadlineInv'
  <2>1. /\ UNCHANGED <<timer, taskId, robbed, running>>
        /\ sock[c] = "new" /\ sock' = [sock EXCEPT ![c] = "open"]
        /\ pending' = [pending EXCEPT ![c] = "start"]
    BY <1>3 DEF Accept, historyVars
  <2>2. DeadlineTypeOK' /\ PlaceInv'
    BY <2>1 DEF DeadlineInv, DeadlineTypeOK, PlaceInv
  <2> QED
    BY <2>1, <2>2, OtherKeepsDeadlines DEF DeadlineInv, DeadlineTypeOK
<1>4. ASSUME NEW c \in Conn, ReadSome(c)
      PROVE  DeadlineInv'
  <2>1. /\ UNCHANGED <<timer, taskId, robbed, sock>>
        /\ running = Idle /\ running' = c
        /\ pending[c] = "read" /\ pending' = [pending EXCEPT ![c] = "none"]
    BY <1>4 DEF ReadSome, historyVars
  <2>2. DeadlineTypeOK' /\ PlaceInv'
    BY <2>1, ConnectionAssumption DEF DeadlineInv, DeadlineTypeOK, PlaceInv
  <2> QED
    BY <2>1, <2>2, OtherKeepsDeadlines, ConnectionAssumption DEF DeadlineInv, DeadlineTypeOK
<1> QED
  BY <1>1, <1>2, <1>3, <1>4, ElapseKeepsDeadlines, TickKeepsDeadlines, GoOnKeepsDeadlines,
     LeaveKeepsDeadlines, AwaitKeepsDeadlines

\* The inductive invariant holds of every behaviour.
THEOREM DeadlineInvariant == Spec => []DeadlineInv
<1>1. DeadlineInv /\ [Next]_vars => DeadlineInv'
  BY NextDeadlines
<1> QED
  BY InitDeadlines, <1>1, PTL DEF Spec

\* No connection ever has a deadline that it cannot cancel, and no deadline is
\* left of a socket that is closed.
THEOREM OneDeadlineAtATime == Spec => []OneDeadline
<1>1. DeadlineInv => OneDeadline
  BY DEF DeadlineInv
<1> QED
  BY DeadlineInvariant, <1>1, PTL

\* A connection that waits without a deadline has been robbed of it.
THEOREM WaitsUnderDeadline == Spec => []DeadlineUnlessRobbed
<1>1. DeadlineInv => DeadlineUnlessRobbed
  BY DEF DeadlineInv
<1> QED
  BY DeadlineInvariant, <1>1, PTL

\* Only a connection that has lost its own deadline robs another.
THEOREM RobbersWereRobbed == Spec => OnlyStaleIdsRob
<1>1. ASSUME DeadlineInv, [Next]_vars
      PROVE  [\A v \in robbed' \ robbed :
                \E r \in Conn \ {v} : /\ taskId[r] \in TT!TasksOf(timer, v)
                                     /\ (sock[r] = "closed" \/ r \in robbed)]_vars
  <2> SUFFICES ASSUME NEW v \in robbed' \ robbed
               PROVE  \E r \in Conn \ {v} : /\ taskId[r] \in TT!TasksOf(timer, v)
                                            /\ (sock[r] = "closed" \/ r \in robbed)
    OBVIOUS
  <2>1. PICK c \in Conn : GoOn(c) \/ Leave(c) \/ Await(c)
    <3>1. \/ UNCHANGED deadlineVars
          \/ Elapse \/ Tick
          \/ \E c \in Conn : Accept(c) \/ ReadSome(c) \/ GoOn(c) \/ Leave(c) \/ Await(c)
      BY <1>1, StepKinds DEF DeadlineInv
    <3> QED
      BY <3>1 DEF deadlineVars, historyVars, Elapse, Tick, Accept, ReadSome
  <2>2. v \in Victims(c)
    BY <2>1 DEF GoOn, Leave, Await, CancelDeadline, StartDeadline
  <2>3. /\ c # v /\ taskId[c] \in TT!Ids(timer)
        /\ timer.tasks[taskId[c]].owner = v
    BY <2>2 DEF Victims
  <2>4. sock[c] = "closed" \/ c \in robbed
    BY <1>1, <2>3 DEF DeadlineInv, StaleInv, OwnedBy
  <2>5. taskId[c] \in TT!TasksOf(timer, v)
    BY <2>3 DEF TT!TasksOf
  <2> QED
    BY <2>3, <2>4, <2>5
<1> QED
  BY DeadlineInvariant, <1>1, PTL DEF Spec, OnlyStaleIdsRob

\* What may happen to the task of a connection that goes on waiting.
KeepsTask(c) ==
  \E i \in TT!TasksOf(timer, c) \cap TT!TasksOf(timer', c) :
    timer'.tasks[i].left <= timer.tasks[i].left

\* A step that leaves the tasks of c as they are keeps one with no more time.
LEMMA SameTask ==
  ASSUME DeadlineInv, NEW c \in Conn, Waiting(c), c \notin robbed,
         \A i \in TT!TasksOf(timer, c) :
           i \in TT!TasksOf(timer', c) /\ timer'.tasks[i] = timer.tasks[i]
  PROVE  KeepsTask(c)
<1>1. PICK i : i \in TT!TasksOf(timer, c)
  BY DEF DeadlineInv, DeadlineUnlessRobbed
<1>2. timer.tasks[i].left \in Nat
  BY <1>1, ConnectionAssumption DEF DeadlineInv, DeadlineTypeOK, TT!IsTimer, TT!Task, TT!TasksOf
<1> QED
  BY <1>1, <1>2 DEF KeepsTask

\* The handler of another connection leaves the tasks of c as they are, or c is
\* robbed.
LEMMA OthersKeepTask ==
  ASSUME DeadlineInv, NEW c \in Conn, NEW d \in Conn \ {c}, Waiting(c), c \notin robbed',
         GoOn(d) \/ Leave(d) \/ Await(d)
  PROVE  KeepsTask(c)
<1>1. PICK t : t = TT!Cancelled(timer, taskId[d])
  OBVIOUS
<1>2. /\ robbed' = (robbed \cup Victims(d)) \ {d}
      /\ timer' = t \/ timer' = TT!Scheduled(t, d)
  BY <1>1 DEF GoOn, Leave, Await, CancelDeadline, StartDeadline
<1>3. /\ TT!IsTimer(t)
      /\ \A i \in TT!Ids(t) : t.tasks[i] = timer.tasks[i]
      /\ TT!TasksOf(t, c) = TT!TasksOf(timer, c) \/ c \in robbed'
  BY <1>1, <1>2, CancelLeaves
<1>4. \A i \in TT!Ids(t) : i \in TT!Ids(timer') /\ timer'.tasks[i] = t.tasks[i]
  <2>1. CASE timer' = t
    BY <2>1
  <2>2. CASE timer' = TT!Scheduled(t, d)
    BY <1>3, <2>2, ScheduledTimer
  <2> QED
    BY <1>2, <2>1, <2>2
<1>5. \A i \in TT!TasksOf(timer, c) :
        i \in TT!TasksOf(timer', c) /\ timer'.tasks[i] = timer.tasks[i]
  BY <1>3, <1>4 DEF TT!TasksOf
<1>6. c \notin robbed
  BY <1>2
<1> QED
  BY <1>5, <1>6, SameTask

\* So do the clock and process_tasks, which closes the sockets of what it erases.
LEMMA TimeKeepsTask ==
  ASSUME DeadlineInv, NEW c \in Conn, Waiting(c), Waiting(c)', c \notin robbed,
         Elapse \/ Tick
  PROVE  KeepsTask(c)
<1>1. TT!IsTimer(timer)
  BY DEF DeadlineInv, DeadlineTypeOK
<1>2. CASE Elapse
  <2>1. PICK i : i \in TT!TasksOf(timer, c)
    BY DEF DeadlineInv, DeadlineUnlessRobbed
  <2>2. timer' = TT!Elapsed(timer)
    BY <1>2 DEF Elapse
  <2>3. /\ i \in TT!Ids(timer') /\ timer'.tasks[i].owner = timer.tasks[i].owner
        /\ timer'.tasks[i].left <= timer.tasks[i].left
    BY <1>1, <2>1, <2>2, ElapsedTimer DEF TT!TasksOf
  <2> QED
    BY <2>1, <2>3 DEF KeepsTask, TT!TasksOf
<1>3. CASE Tick
  <2>1. timer' = TT!Processed(timer) /\ c \notin TT!DueOwners(timer)
    BY <1>3 DEF Tick, Waiting
  <2>2. \A i \in TT!TasksOf(timer, c) : i \notin TT!Due(timer)
    BY <2>1 DEF TT!DueOwners, TT!TasksOf
  <2>3. \A i \in TT!TasksOf(timer, c) : i \in TT!Ids(timer') /\ timer'.tasks[i] = timer.tasks[i]
    BY <1>1, <2>1, <2>2, ProcessedTimer DEF TT!TasksOf
  <2>4. \A i \in TT!TasksOf(timer, c) :
          i \in TT!TasksOf(timer', c) /\ timer'.tasks[i] = timer.tasks[i]
    BY <2>3 DEF TT!TasksOf
  <2> QED
    BY <2>4, SameTask
<1> QED
  BY <1>2, <1>3

\* A connection that waits is not put off by what happens to the others.
THEOREM NobodyIsPutOff == Spec => DeadlineNotPutOff
<1> DEFINE Kept == \A c \in Conn : Waiting(c) /\ Waiting(c)' /\ c \notin robbed' => KeepsTask(c)
<1>1. ASSUME DeadlineInv, [Next]_vars
      PROVE  Kept
  <2> SUFFICES ASSUME NEW c \in Conn, Waiting(c), Waiting(c)', c \notin robbed'
               PROVE  KeepsTask(c)
    OBVIOUS
  <2>1. \/ UNCHANGED deadlineVars
        \/ Elapse \/ Tick
        \/ \E d \in Conn : Accept(d) \/ ReadSome(d) \/ GoOn(d) \/ Leave(d) \/ Await(d)
    BY <1>1, StepKinds DEF DeadlineInv
  <2>2. CASE UNCHANGED deadlineVars \/ \E d \in Conn : Accept(d) \/ ReadSome(d)
    <3>1. timer' = timer /\ robbed' = robbed
      BY <2>2 DEF deadlineVars, Accept, ReadSome, historyVars
    <3> QED
      BY <1>1, <3>1, SameTask
  <2>3. CASE Elapse \/ Tick
    <3>1. robbed' = robbed
      BY <2>3 DEF Elapse, Tick, historyVars
    <3> QED
      BY <1>1, <2>3, <3>1, TimeKeepsTask
  <2>4. ASSUME NEW d \in Conn, GoOn(d) \/ Leave(d) \/ Await(d)
        PROVE  KeepsTask(c)
    <3>1. d # c
      <4>1. pending[c] = "read" /\ pending'[c] = "read" /\ running # c
        BY <1>1 DEF Waiting, DeadlineInv, PlaceInv
      <4> QED
        BY <1>1, <2>4, <4>1 DEF GoOn, Leave, Await, DeadlineInv, DeadlineTypeOK
    <3> QED
      BY <1>1, <2>4, <3>1, OthersKeepTask
  <2> QED
    BY <2>1, <2>2, <2>3, <2>4
<1>2. Spec => [][Next]_vars
  BY DEF Spec
<1> HIDE DEF Kept
<1>3. Spec => [][Kept]_vars
  BY <1>1, <1>2, DeadlineInvariant, PTL
<1> QED
  BY <1>3 DEF DeadlineNotPutOff, Kept, KeepsTask

-----------------------------------------------------------------------------
(***************************************************************************)
(* The types of the rest: the parser, the responses, the histories.        *)
(***************************************************************************)

AnswerForm == [code : {200, 400, 404, 500}, body : BOOLEAN]

dataVars == <<gone, parserVars, skipBody, closing, asked, answers, before>>

DataTypeOK ==
  /\ gone \subseteq Conn
  /\ feed \in {"bytes", "drained", "refused"}
  /\ parse \in [Conn -> {"start", "mark", "query", "head", "body"}]
  /\ complete \in [Conn -> BOOLEAN]
  /\ req \in [Conn -> RequestForm]
  /\ skipBody \in [Conn -> BOOLEAN]
  /\ closing \in [Conn -> BOOLEAN]
  /\ asked \in [Conn -> Seq(Arrival)]
  /\ answers \in [Conn -> Seq(AnswerForm)]
  /\ before \in [Conn -> Nat]

\* A url that is cut and goes on is that of a request that a client may send.
CutInv ==
  \A c \in Conn :
    parse[c] \in {"mark", "query"} => [req |-> req[c], cut |-> parse[c]] \in Arrival

DataInv == DataTypeOK /\ CutInv

LEMMA BlankForm == Blank \in RequestForm
  BY DEF Blank, RequestForm

LEMMA ArrivalForm ==
  ASSUME NEW a \in Arrival
  PROVE  a \in [req : RequestForm, cut : Cut] /\ a.req \in RequestForm
  BY ConnectionAssumption

LEMMA BooleanForm ==
  ASSUME NEW r \in RequestForm
  PROVE  /\ r.head \in BOOLEAN
         /\ Closes(r) \in BOOLEAN /\ Upgrades(r) \in BOOLEAN
  BY DEF RequestForm, Closes, Upgrades

LEMMA SentType ==
  ASSUME DataTypeOK, NEW c \in Conn, NEW e \in AnswerForm,
         answers' = IF Sound(c) THEN [answers EXCEPT ![c] = Append(@, e)] ELSE answers
  PROVE  answers' \in [Conn -> Seq(AnswerForm)]
<1>1. Append(answers[c], e) \in Seq(AnswerForm)
  BY DEF DataTypeOK
<1> QED
  BY <1>1 DEF DataTypeOK

LEMMA ClearTypes ==
  ASSUME DataInv, NEW c \in Conn, Clear(c)
  PROVE  /\ parse' \in [Conn -> {"start", "mark", "query", "head", "body"}]
         /\ complete' \in [Conn -> BOOLEAN]
         /\ req' \in [Conn -> RequestForm]
         /\ CutInv'
<1>1. CutInv'
  BY DEF Clear, DataInv, DataTypeOK, CutInv
<1> QED
  BY <1>1, BlankForm DEF Clear, DataInv, DataTypeOK

LEMMA AskedType ==
  ASSUME DataTypeOK, NEW c \in Conn, NEW a \in Arrival,
         asked' = [asked EXCEPT ![c] = Append(@, a)]
  PROVE  asked' \in [Conn -> Seq(Arrival)]
<1>1. Append(asked[c], a) \in Seq(Arrival)
  BY DEF DataTypeOK
<1> QED
  BY <1>1 DEF DataTypeOK

LEMMA NotFoundTypes ==
  ASSUME DataInv, NEW c \in Conn, NotFound(c)
  PROVE  /\ feed' \in {"bytes", "drained", "refused"}
         /\ parse' \in [Conn -> {"start", "mark", "query", "head", "body"}]
         /\ complete' \in [Conn -> BOOLEAN]
         /\ req' \in [Conn -> RequestForm]
         /\ skipBody' \in [Conn -> BOOLEAN]
         /\ answers' \in [Conn -> Seq(AnswerForm)]
         /\ CutInv'
<1>1. answers' \in [Conn -> Seq(AnswerForm)]
  <2>1. [code |-> 404, body |-> TRUE] \in AnswerForm
    BY DEF AnswerForm
  <2> QED
    BY <2>1, SentType DEF NotFound, Sent, DataInv
<1>2. /\ parse' \in [Conn -> {"start", "mark", "query", "head", "body"}]
      /\ complete' \in [Conn -> BOOLEAN]
      /\ req' \in [Conn -> RequestForm]
      /\ CutInv'
  BY ClearTypes DEF NotFound
<1> QED
  BY <1>1, <1>2 DEF NotFound, DataInv, DataTypeOK

LEMMA FoundTypes ==
  ASSUME DataInv, NEW c \in Conn, NEW r \in RequestForm, NEW next \in {"mark", "query", "head"},
         next # "head" => [req |-> r, cut |-> next] \in Arrival,
         Found(c, r, next)
  PROVE  /\ parse' \in [Conn -> {"start", "mark", "query", "head", "body"}]
         /\ complete' \in [Conn -> BOOLEAN]
         /\ req' \in [Conn -> RequestForm]
         /\ skipBody' \in [Conn -> BOOLEAN]
         /\ answers' \in [Conn -> Seq(AnswerForm)]
         /\ CutInv'
<1>1. /\ complete' = complete /\ answers' = answers
      /\ req' = [req EXCEPT ![c] = r] /\ parse' = [parse EXCEPT ![c] = next]
      /\ skipBody' = [skipBody EXCEPT ![c] = @ \/ r.head]
  BY DEF Found
<1>2. CutInv'
  BY <1>1 DEF DataInv, DataTypeOK, CutInv
<1>3. skipBody' \in [Conn -> BOOLEAN]
  <2>1. (skipBody[c] \/ r.head) \in BOOLEAN
    BY BooleanForm DEF DataInv, DataTypeOK
  <2> QED
    BY <1>1, <2>1 DEF DataInv, DataTypeOK
<1> QED
  BY <1>1, <1>2, <1>3 DEF DataInv, DataTypeOK

\* The actions of the parser's callbacks.
LEMMA ParserTypes ==
  ASSUME DataInv, NEW c \in Conn,
         \/ OnUrl(c) \/ OnUrlStart(c) \/ OnUrlRest(c) \/ OnHeaders(c) \/ OnGarbage(c)
  PROVE  DataInv'
<1>1. ASSUME UNCHANGED <<gone, closing, before>>,
             asked' \in [Conn -> Seq(Arrival)],
             feed' \in {"bytes", "drained", "refused"},
             \/ NotFound(c)
             \/ \E r \in RequestForm, next \in {"mark", "query", "head"} :
                  /\ next # "head" => [req |-> r, cut |-> next] \in Arrival
                  /\ Found(c, r, next)
      PROVE  DataInv'
  BY <1>1, NotFoundTypes, FoundTypes DEF DataInv, DataTypeOK
<1>2. CASE OnUrl(c)
  <2>1. PICK a \in Arrival :
          /\ asked' = [asked EXCEPT ![c] = Append(@, a)]
          /\ \/ NotFound(c)
             \/ Found(c, a.req, "head") /\ UNCHANGED feed
    BY <1>2 DEF OnUrl
  <2>2. asked' \in [Conn -> Seq(Arrival)] /\ a.req \in RequestForm
    BY <2>1, AskedType, ArrivalForm DEF DataInv
  <2>3. UNCHANGED <<gone, closing, before>> /\ feed' \in {"bytes", "drained", "refused"}
    BY <1>2, <2>1 DEF OnUrl, NotFound, DataInv, DataTypeOK
  <2> QED
    BY <1>1, <2>1, <2>2, <2>3
<1>3. CASE OnUrlStart(c)
  <2>1. UNCHANGED <<gone, closing, before>>
    BY <1>3 DEF OnUrlStart
  <2>2. PICK a \in Arrival :
          \/ /\ asked' = [asked EXCEPT ![c] = Append(@, a)]
             /\ NotFound(c)
          \/ /\ a.cut \in {"mark", "query"}
             /\ Found(c, a.req, a.cut)
             /\ feed' = "drained"
             /\ UNCHANGED asked
    BY <1>3 DEF OnUrlStart
  <2>3. asked' \in [Conn -> Seq(Arrival)] /\ a.req \in RequestForm
    BY <2>2, AskedType, ArrivalForm DEF DataInv, DataTypeOK
  <2>4. feed' \in {"bytes", "drained", "refused"}
    BY <2>2 DEF NotFound
  <2>5. [req |-> a.req, cut |-> a.cut] = a
    BY ArrivalForm
  <2> QED
    BY <1>1, <2>1, <2>2, <2>3, <2>4, <2>5
<1>4. CASE OnUrlRest(c)
  <2> DEFINE a == [req |-> req[c], cut |-> parse[c]]
  <2>1. a \in Arrival /\ a.req \in RequestForm
    BY <1>4 DEF OnUrlRest, DataInv, DataTypeOK, CutInv
  <2>2. /\ asked' = [asked EXCEPT ![c] = Append(@, a)]
        /\ \/ NotFound(c)
           \/ Found(c, a.req, "head") /\ UNCHANGED feed
        /\ UNCHANGED <<gone, closing, before>>
    BY <1>4 DEF OnUrlRest
  <2> HIDE DEF a
  <2>3. asked' \in [Conn -> Seq(Arrival)]
    BY <2>1, <2>2, AskedType DEF DataInv
  <2>4. feed' \in {"bytes", "drained", "refused"}
    BY <2>2 DEF NotFound, DataInv, DataTypeOK
  <2> QED
    BY <1>1, <2>1, <2>2, <2>3, <2>4
<1>5. CASE OnHeaders(c)
  <2>1. /\ parse' = [parse EXCEPT ![c] = "body"] /\ req' = req
        /\ UNCHANGED <<gone, feed, complete, skipBody, closing, asked, answers, before>>
    BY <1>5 DEF OnHeaders, AfterContinue, historyVars, DataInv, DataTypeOK
  <2> QED
    BY <2>1 DEF DataInv, DataTypeOK, CutInv
<1>6. CASE OnGarbage(c)
  BY <1>6 DEF OnGarbage, historyVars, DataInv, DataTypeOK, CutInv
<1> QED
  BY <1>2, <1>3, <1>4, <1>5, <1>6

\* Those of handle().
LEMMA HandlerTypes ==
  ASSUME DataInv, NEW c \in Conn,
         \/ Handle_Nameless(c) \/ Handle_Upgrade(c) \/ Handle_Route(c)
         \/ Handle_Stream(c) \/ Handle_StreamFails(c)
  PROVE  DataInv'
<1>1. Addressed(c) /\ GoesOn(c)
  BY DEF Handle_Nameless, Handle_Upgrade, Handle_Route, Handle_Stream, Handle_StreamFails
<1>2. gone' = gone /\ asked' = asked /\ before' = before
  BY <1>1 DEF Addressed, Handling
<1>3. closing' \in [Conn -> BOOLEAN]
  <2>1. (Closes(req[c]) \/ Upgrades(req[c])) \in BOOLEAN
    BY DEF Closes, Upgrades
  <2> QED
    BY <1>1, <2>1 DEF Addressed, DataInv, DataTypeOK
<1>4. feed' \in {"bytes", "drained", "refused"}
  BY <1>1 DEF GoesOn, DataInv, DataTypeOK
<1>5. skipBody' \in [Conn -> BOOLEAN]
  <2>1. skipBody' = skipBody \/ skipBody' = [skipBody EXCEPT ![c] = FALSE]
    BY DEF Handle_Nameless, Handle_Upgrade, Handle_Route, Handle_Stream, Handle_StreamFails
  <2> QED
    BY <2>1 DEF DataInv, DataTypeOK
<1>6. /\ parse' \in [Conn -> {"start", "mark", "query", "head", "body"}]
      /\ complete' \in [Conn -> BOOLEAN]
      /\ req' \in [Conn -> RequestForm]
      /\ CutInv'
  <2>1. Clear(c) \/ (complete' = [complete EXCEPT ![c] = TRUE] /\ UNCHANGED <<parse, req>>)
    BY DEF Handle_Nameless, Handle_Upgrade, Handle_Route, Handle_Stream, Handle_StreamFails
  <2> QED
    BY <2>1, ClearTypes DEF DataInv, DataTypeOK, CutInv
<1>7. answers' \in [Conn -> Seq(AnswerForm)]
  <2>1. CASE Handle_Nameless(c)
    <3>1. [code |-> 400, body |-> TRUE] \in AnswerForm
      BY DEF AnswerForm
    <3> QED
      BY <2>1, <3>1, SentType DEF Handle_Nameless, Sent, DataInv
  <2>2. CASE Handle_Route(c)
    <3>1. PICK code \in {200, 500} :
            answers' = IF Sound(c)
                       THEN [answers EXCEPT ![c] =
                               Append(@, [code |-> code, body |-> code = 500 \/ ~skipBody[c]])]
                       ELSE answers
      BY <2>2 DEF Handle_Route, Sent
    <3>2. [code |-> code, body |-> code = 500 \/ ~skipBody[c]] \in AnswerForm
      BY DEF AnswerForm
    <3> QED
      BY <3>1, <3>2, SentType DEF DataInv
  <2>3. CASE Handle_Stream(c)
    <3>1. [code |-> 200, body |-> TRUE] \in AnswerForm
      BY DEF AnswerForm
    <3> QED
      BY <2>3, <3>1, SentType DEF Handle_Stream, Sent, DataInv
  <2>4. CASE Handle_Upgrade(c) \/ Handle_StreamFails(c)
    BY <2>4 DEF Handle_Upgrade, Handle_StreamFails, DataInv, DataTypeOK
  <2> QED
    BY <2>1, <2>2, <2>3, <2>4
<1> QED
  BY <1>2, <1>3, <1>4, <1>5, <1>6, <1>7 DEF DataInv, DataTypeOK

LEMMA NextTypes ==
  ASSUME DataInv, [Next]_vars
  PROVE  DataInv'
<1>1. CASE UNCHANGED dataVars
  BY <1>1 DEF dataVars, parserVars, DataInv, DataTypeOK, CutInv
<1>2. ASSUME \/ UNCHANGED vars \/ Elapse \/ Tick
             \/ \E c \in Conn : Accept(c) \/ Start(c)
      PROVE  UNCHANGED dataVars
  BY <1>2 DEF dataVars, vars, historyVars, Elapse, Tick, Accept, Start
<1>3. ASSUME NEW c \in Conn, Reset(c)
      PROVE  DataInv'
  BY <1>3 DEF Reset, parserVars, historyVars, DataInv, DataTypeOK, CutInv
<1>4. ASSUME NEW c \in Conn, ReadSome(c)
      PROVE  DataInv'
  <2>1. before' \in [Conn -> Nat]
    <3>1. Len(answers[c]) \in Nat
      BY DEF DataInv, DataTypeOK
    <3> QED
      BY <1>4, <3>1 DEF ReadSome, DataInv, DataTypeOK
  <2> QED
    BY <1>4, <2>1 DEF ReadSome, DataInv, DataTypeOK, CutInv
<1>5. ASSUME NEW c \in Conn, Free(c), UNCHANGED <<gone, asked, answers, before>>
      PROVE  DataInv'
  <2>1. /\ parse' \in [Conn -> {"start", "mark", "query", "head", "body"}]
        /\ complete' \in [Conn -> BOOLEAN]
        /\ req' \in [Conn -> RequestForm]
        /\ CutInv'
    BY <1>5, ClearTypes DEF Free
  <2>2. /\ skipBody' = [skipBody EXCEPT ![c] = FALSE] /\ closing' = [closing EXCEPT ![c] = FALSE]
        /\ feed' = "drained"
    BY <1>5 DEF Free
  <2> QED
    BY <1>5, <2>1, <2>2 DEF DataInv, DataTypeOK
<1>6. ASSUME NEW c \in Conn, ReadError(c) \/ Handle_Throws(c)
      PROVE  DataInv'
  BY <1>5, <1>6 DEF ReadError, Abandon, Handle_Throws, Handling
<1>7. ASSUME NEW c \in Conn, EndRead(c)
      PROVE  DataInv'
  <2>1. CASE Abandon(c)
    BY <2>1, <1>5 DEF Abandon
  <2>2. CASE feed' = "drained" /\ UNCHANGED <<gone, parse, complete, req, skipBody, closing,
                                              asked, answers, before>>
    BY <2>2 DEF DataInv, DataTypeOK, CutInv
  <2> QED
    BY <1>7, <2>1, <2>2 DEF EndRead
<1> QED
  BY <1>1, <1>2, <1>3, <1>4, <1>6, <1>7, ParserTypes, HandlerTypes DEF Next

LEMMA InitTypes == Init => DataInv
<1> SUFFICES ASSUME Init PROVE DataInv
  OBVIOUS
<1>1. \A S : <<>> \in Seq(S)
  OBVIOUS
<1>2. DataTypeOK
  BY <1>1, BlankForm DEF Init, DataTypeOK
<1> QED
  BY <1>2 DEF Init, DataInv, CutInv

\* Parser, responses and histories keep their types.
LEMMA DataInvariant == Spec => []DataInv
<1>1. DataInv /\ [Next]_vars => DataInv'
  BY NextTypes
<1> QED
  BY InitTypes, <1>1, PTL DEF Spec

\* All that the connections of a worker keep has its type.
THEOREM ConnectionTypes == Spec => []TypeOK
<1>1. Spec => []DataInv
  BY DataInvariant
<1>2. DataInv /\ DeadlineInv => TypeOK
  BY DEF DataInv, DataTypeOK, DeadlineInv, DeadlineTypeOK, TypeOK, AnswerForm
<1> QED
  BY DeadlineInvariant, <1>1, <1>2, PTL

-----------------------------------------------------------------------------
(***************************************************************************)
(* The codes of answers.                                                   *)
(***************************************************************************)

LEMMA CodesTyped ==
  ASSUME DataTypeOK, NEW c \in Conn
  PROVE  SentCodes[c] \in Seq({200, 400, 404, 500}) /\ Len(SentCodes[c]) = Len(answers[c])
<1>1. answers[c] \in Seq(AnswerForm)
  BY DEF DataTypeOK
<1>2. DOMAIN answers[c] = 1 .. Len(answers[c]) /\ Len(answers[c]) \in Nat
  BY <1>1
<1>3. \A i \in 1 .. Len(answers[c]) : answers[c][i].code \in {200, 400, 404, 500}
  <2>1. \A i \in 1 .. Len(answers[c]) : answers[c][i] \in AnswerForm
    BY <1>1
  <2> QED
    BY <2>1 DEF AnswerForm
<1>4. SentCodes[c] = [i \in 1 .. Len(answers[c]) |-> answers[c][i].code]
  BY <1>2 DEF SentCodes
<1> QED
  BY <1>2, <1>3, <1>4

\* Two functions that differ at one place.
LEMMA ChangedAt ==
  ASSUME NEW S, NEW old, NEW new, NEW x \in S, NEW v,
         old = [y \in S |-> old[y]], new = [y \in S |-> new[y]],
         new[x] = v, \A y \in S \ {x} : new[y] = old[y]
  PROVE  new = [old EXCEPT ![x] = v]
<1>1. ASSUME NEW y \in S
      PROVE  new[y] = [old EXCEPT ![x] = v][y]
  OBVIOUS
<1> QED
  BY <1>1

\* What is sent to c adds its code to those of c.
LEMMA CodesSent ==
  ASSUME DataTypeOK, NEW c \in Conn, NEW e \in AnswerForm,
         answers' = [answers EXCEPT ![c] = Append(@, e)]
  PROVE  SentCodes' = [SentCodes EXCEPT ![c] = Append(@, e.code)]
<1>1. /\ answers[c] \in Seq(AnswerForm) /\ answers'[c] = Append(answers[c], e)
      /\ \A d \in Conn \ {c} : answers'[d] = answers[d]
  BY DEF DataTypeOK
<1>2. /\ SentCodes' = [d \in Conn |-> [i \in DOMAIN answers'[d] |-> answers'[d][i].code]]
      /\ SentCodes = [d \in Conn |-> [i \in DOMAIN answers[d] |-> answers[d][i].code]]
  BY DEF SentCodes
<1>3. SentCodes'[c] = Append(SentCodes[c], e.code)
  <2> DEFINE n == Len(answers[c])
  <2>1. n \in Nat /\ Len(answers'[c]) = n + 1 /\ DOMAIN answers'[c] = 1 .. n + 1
    BY <1>1
  <2>2. SentCodes[c] \in Seq({200, 400, 404, 500}) /\ Len(SentCodes[c]) = n
    BY CodesTyped
  <2>3. e.code \in {200, 400, 404, 500}
    BY DEF AnswerForm
  <2> DEFINE s == Append(SentCodes[c], e.code)
  <2>4. s = [i \in 1 .. n + 1 |-> s[i]]
    BY <2>1, <2>2, <2>3
  <2>5. ASSUME NEW i \in 1 .. n + 1
        PROVE  s[i] = answers'[c][i].code
    <3>1. CASE i = n + 1
      BY <3>1, <1>1, <2>1, <2>2, <2>3
    <3>2. CASE i # n + 1
      <4>1. i \in 1 .. n /\ s[i] = SentCodes[c][i] /\ answers'[c][i] = answers[c][i]
        BY <3>2, <1>1, <2>1, <2>2, <2>3
      <4>2. SentCodes[c][i] = answers[c][i].code
        BY <4>1, <1>1, <1>2
      <4> QED
        BY <4>1, <4>2
    <3> QED
      BY <3>1, <3>2
  <2>6. SentCodes'[c] = [i \in 1 .. n + 1 |-> answers'[c][i].code]
    BY <1>2, <2>1
  <2> HIDE DEF n, s
  <2>7. s = SentCodes'[c]
    BY <2>4, <2>5, <2>6, Zenon
  <2> QED
    BY <2>7 DEF s
<1>4. \A d \in Conn \ {c} : SentCodes'[d] = SentCodes[d]
  BY <1>1, <1>2
<1>5. PICK s : s = Append(SentCodes[c], e.code)
  OBVIOUS
<1>6. PICK old, new : old = SentCodes /\ new = SentCodes'
  OBVIOUS
<1>7. old = [d \in Conn |-> old[d]]
  BY <1>2, <1>6
<1>8. new = [d \in Conn |-> new[d]]
  BY <1>2, <1>6
<1>9. new[c] = s /\ \A d \in Conn \ {c} : new[d] = old[d]
  BY <1>3, <1>4, <1>5, <1>6
<1>10. new = [old EXCEPT ![c] = s]
  BY <1>7, <1>8, <1>9, ChangedAt
<1> QED
  BY <1>5, <1>6, <1>10

-----------------------------------------------------------------------------
(***************************************************************************)
(* How far a connection is with what it has been asked.                    *)
(***************************************************************************)

\* Before the next url has come to its end nothing is owed.
OwesNothing(c) ==
  c \in Sounding /\ parse[c] \in {"start", "mark", "query"} => Len(asked[c]) = Len(answers[c])

\* Behind it one answer is owed, to the request that is parsed.
OwesOne(c) ==
  c \in Sounding /\ parse[c] \in {"head", "body"} /\ ~complete[c] =>
    /\ Len(asked[c]) = Len(answers[c]) + 1
    /\ asked[c][Len(asked[c])].req = req[c]
    /\ FindsRoute(asked[c][Len(asked[c])])

\* After a request without a route nothing more is parsed.
RefusedIsLast(c) ==
  \/ \A i \in 1 .. Len(asked[c]) : FindsRoute(asked[c][i])
  \/ running = c /\ feed = "refused"
  \/ running # c /\ pending[c] = "none" /\ sock[c] = "closed"

\* Nor is anything after a message that is complete and was not answered.
UnansweredIsLast(c) ==
  complete[c] => c \notin Sounding \/ running # c \/ feed # "bytes"

ProgressOf(c) ==
  OwesNothing(c) /\ OwesOne(c) /\ RefusedIsLast(c) /\ UnansweredIsLast(c)

ProgressInv == \A c \in Conn : ProgressOf(c)

ExchangeInv == DataInv /\ DeadlineTypeOK /\ PlaceInv /\ ProgressInv

\* What a step of c leaves to the others.
OnlyOf(c) ==
  /\ running \in {Idle, c} /\ running' \in {Idle, c}
  /\ \A d \in Conn \ {c} :
       /\ sock'[d] = sock[d] /\ pending'[d] = pending[d]
       /\ parse'[d] = parse[d] /\ complete'[d] = complete[d] /\ req'[d] = req[d]
       /\ asked'[d] = asked[d] /\ answers'[d] = answers[d]
       /\ d \in gone' <=> d \in gone

LEMMA OthersProgress ==
  ASSUME ProgressInv, NEW c \in Conn, OnlyOf(c), ProgressOf(c)'
  PROVE  ProgressInv'
<1> SUFFICES ASSUME NEW d \in Conn, d # c
             PROVE  ProgressOf(d)'
  BY DEF ProgressInv
<1>1. /\ sock'[d] = sock[d] /\ pending'[d] = pending[d]
      /\ parse'[d] = parse[d] /\ complete'[d] = complete[d] /\ req'[d] = req[d]
      /\ asked'[d] = asked[d] /\ answers'[d] = answers[d]
      /\ d \in gone' <=> d \in gone
  BY DEF OnlyOf
<1>2. running # d /\ running' # d
  BY ConnectionAssumption DEF OnlyOf
<1>3. d \in Sounding' <=> d \in Sounding
  BY <1>1 DEF Sounding
<1>4. ProgressOf(d)
  BY DEF ProgressInv
<1>5. OwesNothing(d)' /\ OwesOne(d)'
  BY <1>1, <1>3, <1>4 DEF ProgressOf, OwesNothing, OwesOne
<1>6. RefusedIsLast(d)' /\ UnansweredIsLast(d)'
  BY <1>1, <1>2, <1>4 DEF ProgressOf, RefusedIsLast, UnansweredIsLast
<1> QED
  BY <1>5, <1>6 DEF ProgressOf

\* The steps that do not come near the parser.
LEMMA CalmProgress ==
  ASSUME ProgressInv,
         UNCHANGED <<running, parserVars, asked, answers>>,
         \A c \in Conn :
           /\ sock[c] = "closed" => sock'[c] = "closed"
           /\ c \in gone => c \in gone'
           /\ pending'[c] = pending[c] \/ (pending[c] = "start" /\ sock[c] # "closed")
                \/ sock[c] = "new"
  PROVE  ProgressInv'
<1> SUFFICES ASSUME NEW c \in Conn
             PROVE  ProgressOf(c)'
  BY DEF ProgressInv
<1>1. ProgressOf(c) /\ (c \in Sounding' => c \in Sounding)
  BY DEF ProgressInv, Sounding
<1>2. OwesNothing(c)' /\ OwesOne(c)' /\ UnansweredIsLast(c)'
  BY <1>1 DEF ProgressOf, OwesNothing, OwesOne, UnansweredIsLast, parserVars
<1>3. RefusedIsLast(c)'
  BY <1>1 DEF ProgressOf, RefusedIsLast, parserVars
<1> QED
  BY <1>2, <1>3 DEF ProgressOf

\* Where there is neither question nor answer clients may go, or be closed.
LEMMA Breaks ==
  ASSUME UNCHANGED <<asked, answers>>, Sounding' \subseteq Sounding
  PROVE  Exchange!ExchangeNext
<1>1. SentCodes' = SentCodes
  BY DEF SentCodes
<1>2. Exchange!Break(Sounding \ Sounding')
  BY <1>1 DEF Exchange!Break
<1> QED
  BY <1>2 DEF Exchange!ExchangeNext

\* Asked and answered is nothing, and the invariant is kept.
Quiet == ProgressInv' /\ UNCHANGED <<asked, answers>> /\ Sounding' \subseteq Sounding

LEMMA CalmSteps ==
  ASSUME ExchangeInv,
         \/ UNCHANGED vars \/ Elapse \/ Tick
         \/ \E c \in Conn : Accept(c) \/ Reset(c) \/ Start(c)
  PROVE  Quiet
<1>1. UNCHANGED <<running, parserVars, asked, answers>>
  BY DEF vars, historyVars, Elapse, Tick, Accept, Reset, Start
<1>2. \A c \in Conn : /\ sock[c] = "closed" => sock'[c] = "closed"
                      /\ c \in gone => c \in gone'
  <2>1. CASE UNCHANGED vars \/ Elapse
    BY <2>1 DEF vars, Elapse
  <2>2. CASE Tick
    BY <2>2 DEF Tick
  <2>3. ASSUME NEW d \in Conn, Accept(d) \/ Reset(d) \/ Start(d)
        PROVE  \A c \in Conn : /\ sock[c] = "closed" => sock'[c] = "closed"
                               /\ c \in gone => c \in gone'
    BY <2>3 DEF Accept, Reset, Start, ExchangeInv, DeadlineTypeOK, PlaceInv
  <2> QED
    BY <2>1, <2>2, <2>3
<1>3. \A c \in Conn : \/ pending'[c] = pending[c]
                      \/ (pending[c] = "start" /\ sock[c] # "closed")
                      \/ sock[c] = "new"
  <2>1. CASE UNCHANGED vars \/ Elapse \/ Tick
    BY <2>1 DEF vars, Elapse, Tick
  <2>2. ASSUME NEW d \in Conn, Accept(d) \/ Reset(d) \/ Start(d)
        PROVE  \A c \in Conn : \/ pending'[c] = pending[c]
                               \/ (pending[c] = "start" /\ sock[c] # "closed")
                               \/ sock[c] = "new"
    BY <2>2 DEF Accept, Reset, Start, ExchangeInv, DeadlineTypeOK, PlaceInv
  <2> QED
    BY <2>1, <2>2
<1>4. Sounding' \subseteq Sounding
  BY <1>2 DEF Sounding
<1> QED
  BY <1>1, <1>2, <1>3, <1>4, CalmProgress DEF Quiet, ExchangeInv

\* What becomes of a connection that nothing refers to any longer.
LEMMA FreedQuietly ==
  ASSUME ExchangeInv, NEW c \in Conn, running \in {Idle, c}, Free(c),
         UNCHANGED <<gone, asked, answers>>
  PROVE  Quiet
<1>1. /\ sock'[c] = "closed" /\ pending'[c] = "none" /\ running' = Idle /\ feed' = "drained"
      /\ sock' = [sock EXCEPT ![c] = "closed"]
  BY DEF Free, ExchangeInv, DeadlineTypeOK
<1>2. Sounding' \subseteq Sounding
  BY <1>1 DEF Sounding
<1>3. OnlyOf(c)
  BY DEF Free, Clear, OnlyOf
<1>4. ProgressOf(c)'
  BY <1>1, ConnectionAssumption
     DEF ProgressOf, OwesNothing, OwesOne, RefusedIsLast, UnansweredIsLast, Sounding
<1> QED
  BY <1>2, <1>3, <1>4, OthersProgress DEF Quiet, ExchangeInv

\* The reads, and the callbacks that neither take a request nor answer one.
LEMMA ReadSteps ==
  ASSUME ExchangeInv, NEW c \in Conn,
         ReadSome(c) \/ ReadError(c) \/ EndRead(c) \/ Handle_Throws(c)
  PROVE  Quiet
<1>1. ProgressOf(c)
  BY DEF ExchangeInv, ProgressInv
<1>2. CASE ReadError(c) \/ Handle_Throws(c)
  BY <1>2, FreedQuietly DEF ReadError, Abandon, Handle_Throws, Handling, Parsing
<1>3. CASE ReadSome(c)
  <2>1. /\ running = Idle /\ pending[c] = "read" /\ running' = c
        /\ feed' = IF complete[c] THEN "drained" ELSE "bytes"
        /\ pending' = [pending EXCEPT ![c] = "none"]
        /\ UNCHANGED <<sock, gone, parse, complete, req, asked, answers>>
    BY <1>3 DEF ReadSome, historyVars
  <2>2. OnlyOf(c) /\ Sounding' = Sounding
    BY <2>1 DEF OnlyOf, Sounding, ExchangeInv, DeadlineTypeOK
  <2>3. OwesNothing(c)' /\ OwesOne(c)'
    BY <1>1, <2>1, <2>2 DEF ProgressOf, OwesNothing, OwesOne
  <2>4. RefusedIsLast(c)' /\ UnansweredIsLast(c)'
    BY <1>1, <2>1, ConnectionAssumption DEF ProgressOf, RefusedIsLast, UnansweredIsLast
  <2> QED
    BY <2>1, <2>2, <2>3, <2>4, OthersProgress DEF Quiet, ProgressOf, ExchangeInv
<1>4. CASE EndRead(c)
  <2>1. CASE Abandon(c)
    BY <1>4, <2>1, FreedQuietly DEF EndRead, Abandon
  <2>2. CASE /\ feed # "refused" /\ sock[c] = "open"
             /\ pending' = [pending EXCEPT ![c] = "read"]
             /\ running' = Idle /\ feed' = "drained"
             /\ UNCHANGED <<sock, gone, parse, complete, req, asked, answers>>
    <3>1. running = c /\ running' # c
      BY <1>4, <2>2, ConnectionAssumption DEF EndRead
    <3>2. OnlyOf(c) /\ Sounding' = Sounding
      BY <2>2, <3>1 DEF OnlyOf, Sounding, ExchangeInv, DeadlineTypeOK
    <3>3. OwesNothing(c)' /\ OwesOne(c)'
      BY <1>1, <2>2, <3>2 DEF ProgressOf, OwesNothing, OwesOne
    <3>4. RefusedIsLast(c)' /\ UnansweredIsLast(c)'
      BY <1>1, <2>2, <3>1 DEF ProgressOf, RefusedIsLast, UnansweredIsLast
    <3> QED
      BY <2>2, <3>2, <3>3, <3>4, OthersProgress DEF Quiet, ProgressOf, ExchangeInv
  <2> QED
    BY <1>4, <2>1, <2>2 DEF EndRead
<1> QED
  BY <1>2, <1>3, <1>4

\* What holds of the connection whose bytes are parsed.
LEMMA WhileParsing ==
  ASSUME ExchangeInv, NEW c \in Conn, Parsing(c)
  PROVE  /\ running = c /\ feed = "bytes"
         /\ sock[c] # "new"
         /\ Sound(c) <=> c \in Sounding
         /\ \A i \in 1 .. Len(asked[c]) : FindsRoute(asked[c][i])
         /\ complete[c] => c \notin Sounding
<1>1. running = c /\ feed = "bytes" /\ sock[c] # "new"
  BY DEF Parsing, ExchangeInv, PlaceInv
<1>2. Sound(c) <=> c \in Sounding
  BY <1>1 DEF Sound, Sounding, ExchangeInv, DeadlineTypeOK
<1> QED
  BY <1>1, <1>2 DEF ExchangeInv, ProgressInv, ProgressOf, RefusedIsLast, UnansweredIsLast

\* What a callback of the parser leaves alone.
LEMMA CallbackOnly ==
  ASSUME NEW c \in Conn, running = c, ExchangeInv,
         UNCHANGED <<gone, running, pending>>,
         \A d \in Conn \ {c} :
           /\ sock'[d] = sock[d] /\ parse'[d] = parse[d] /\ complete'[d] = complete[d]
           /\ req'[d] = req[d] /\ asked'[d] = asked[d] /\ answers'[d] = answers[d]
  PROVE  OnlyOf(c)
BY DEF OnlyOf

LEMMA OtherCallbacks ==
  ASSUME ExchangeInv, NEW c \in Conn, OnHeaders(c) \/ OnGarbage(c)
  PROVE  Quiet
<1>1. ProgressOf(c)
  BY DEF ExchangeInv, ProgressInv
<1>2. CASE OnHeaders(c)
  <2>1. /\ Parsing(c) /\ parse[c] = "head"
        /\ parse' = [parse EXCEPT ![c] = "body"] /\ req' = req
        /\ UNCHANGED <<sock, gone, pending, running, feed, complete, asked, answers>>
    BY <1>2 DEF OnHeaders, AfterContinue, historyVars, ExchangeInv, DataInv, DataTypeOK
  <2>2. parse'[c] = "body" /\ \A d \in Conn \ {c} : parse'[d] = parse[d]
    BY <2>1 DEF ExchangeInv, DataInv, DataTypeOK
  <2>3. OnlyOf(c) /\ Sounding' = Sounding
    BY <2>1, <2>2, CallbackOnly DEF Parsing, Sounding
  <2>4. OwesNothing(c)' /\ OwesOne(c)'
    BY <1>1, <2>1, <2>2, <2>3 DEF ProgressOf, OwesNothing, OwesOne
  <2>5. RefusedIsLast(c)' /\ UnansweredIsLast(c)'
    BY <1>1, <2>1, <2>3 DEF ProgressOf, RefusedIsLast, UnansweredIsLast
  <2> QED
    BY <2>1, <2>3, <2>4, <2>5, OthersProgress DEF Quiet, ProgressOf, ExchangeInv
<1>3. CASE OnGarbage(c)
  <2>1. /\ Parsing(c) /\ feed' = "refused"
        /\ UNCHANGED <<sock, gone, pending, running, parse, complete, req, asked, answers>>
    BY <1>3 DEF OnGarbage, historyVars
  <2>2. OnlyOf(c) /\ Sounding' = Sounding
    BY <2>1, CallbackOnly DEF Parsing, Sounding
  <2>3. OwesNothing(c)' /\ OwesOne(c)'
    BY <1>1, <2>1, <2>2 DEF ProgressOf, OwesNothing, OwesOne
  <2>4. RefusedIsLast(c)' /\ UnansweredIsLast(c)'
    BY <2>1 DEF Parsing, RefusedIsLast, UnansweredIsLast
  <2> QED
    BY <2>1, <2>2, <2>3, <2>4, OthersProgress DEF Quiet, ProgressOf, ExchangeInv
<1> QED
  BY <1>2, <1>3

\* The next request may be taken: what was asked before has been answered and
\* was not refused.
LEMMA MayTake ==
  ASSUME ExchangeInv, NEW c \in Conn, Parsing(c), parse[c] \in {"start", "mark", "query"}
  PROVE  Exchange!Settled(c) /\ Exchange!Welcome(c)
<1>1. c \in Sounding => Len(asked[c]) = Len(answers[c])
  BY DEF ExchangeInv, ProgressInv, ProgressOf, OwesNothing
<1>2. Len(SentCodes[c]) = Len(answers[c])
  BY CodesTyped DEF ExchangeInv, DataInv
<1>3. Exchange!Settled(c)
  BY <1>1, <1>2 DEF Exchange!Settled
<1>4. Exchange!Welcome(c)
  BY WhileParsing DEF Exchange!Welcome, Unrouted
<1> QED
  BY <1>3, <1>4

LEMMA AppendFacts ==
  ASSUME NEW S, NEW s \in Seq(S), NEW a \in S
  PROVE  /\ Append(s, a) \in Seq(S)
         /\ Len(s) \in Nat /\ Len(Append(s, a)) = Len(s) + 1
         /\ Append(s, a)[Len(s) + 1] = a
         /\ \A i \in 1 .. Len(s) : Append(s, a)[i] = s[i]
  OBVIOUS

\* A request is taken.
LEMMA Takes ==
  ASSUME ExchangeInv, NEW c \in Conn, NEW a \in Arrival,
         Parsing(c), parse[c] \in {"start", "mark", "query"}, FindsRoute(a),
         asked' = [asked EXCEPT ![c] = Append(@, a)],
         Found(c, a.req, "head"),
         UNCHANGED <<sock, gone, pending, running, feed>>
  PROVE  ProgressInv' /\ Exchange!ExchangeNext
<1>1. /\ parse' = [parse EXCEPT ![c] = "head"] /\ req' = [req EXCEPT ![c] = a.req]
      /\ UNCHANGED <<complete, answers>>
  BY DEF Found
<1>2. /\ parse'[c] = "head" /\ req'[c] = a.req /\ asked'[c] = Append(asked[c], a)
      /\ \A d \in Conn \ {c} : /\ parse'[d] = parse[d] /\ req'[d] = req[d]
                               /\ asked'[d] = asked[d]
  BY <1>1 DEF ExchangeInv, DataInv, DataTypeOK
<1>3. /\ Len(asked[c]) \in Nat /\ Len(asked'[c]) = Len(asked[c]) + 1
      /\ asked'[c][Len(asked[c]) + 1] = a
      /\ \A i \in 1 .. Len(asked[c]) : asked'[c][i] = asked[c][i]
  <2>1. asked[c] \in Seq(Arrival)
    BY DEF ExchangeInv, DataInv, DataTypeOK
  <2> QED
    BY <1>2, <2>1, AppendFacts
<1>4. OnlyOf(c) /\ Sounding' = Sounding
  BY <1>1, <1>2, CallbackOnly DEF Parsing, Sounding
<1>5. /\ running = c /\ feed = "bytes"
      /\ \A i \in 1 .. Len(asked[c]) : FindsRoute(asked[c][i])
      /\ complete[c] => c \notin Sounding
  BY WhileParsing
<1>6. ProgressInv'
  <2>1. OwesNothing(c)'
    BY <1>2 DEF OwesNothing
  <2>2. OwesOne(c)'
    <3>1. c \in Sounding => Len(asked[c]) = Len(answers[c])
      BY DEF ExchangeInv, ProgressInv, ProgressOf, OwesNothing
    <3>2. FindsRoute(asked'[c][Len(asked'[c])]) /\ asked'[c][Len(asked'[c])].req = req'[c]
      BY <1>2, <1>3
    <3> QED
      BY <3>1, <3>2, <1>1, <1>3, <1>4 DEF OwesOne
  <2>3. \A i \in 1 .. Len(asked'[c]) : FindsRoute(asked'[c][i])
    <3> SUFFICES ASSUME NEW i \in 1 .. Len(asked'[c])
                 PROVE  FindsRoute(asked'[c][i])
      OBVIOUS
    <3>1. i \in 1 .. Len(asked[c]) \/ i = Len(asked[c]) + 1
      BY <1>3
    <3> QED
      BY <3>1, <1>3, <1>5
  <2>4. RefusedIsLast(c)' /\ UnansweredIsLast(c)'
    BY <2>3, <1>1, <1>4, <1>5 DEF RefusedIsLast, UnansweredIsLast
  <2> QED
    BY <2>1, <2>2, <2>4, <1>4, OthersProgress DEF ProgressOf, ExchangeInv
<1>7. Exchange!Ask(c, a)
  <2>1. SentCodes' = SentCodes
    BY <1>1 DEF SentCodes
  <2>2. ~ Unrouted(a)
    BY DEF Unrouted
  <2> QED
    BY <2>1, <2>2, <1>4, MayTake DEF Exchange!Ask
<1> QED
  BY <1>6, <1>7 DEF Exchange!ExchangeNext

\* A request is refused.
LEMMA Refuses ==
  ASSUME ExchangeInv, NEW c \in Conn, NEW a \in Arrival,
         Parsing(c), parse[c] \in {"start", "mark", "query"}, ~FindsRoute(a),
         asked' = [asked EXCEPT ![c] = Append(@, a)],
         NotFound(c),
         UNCHANGED <<sock, gone, pending, running>>
  PROVE  ProgressInv' /\ Exchange!ExchangeNext
<1>1. PICK e \in AnswerForm : e = [code |-> 404, body |-> TRUE]
  BY DEF AnswerForm
<1>2. /\ answers' = IF Sound(c) THEN [answers EXCEPT ![c] = Append(@, e)] ELSE answers
      /\ Clear(c) /\ feed' = "refused"
  BY <1>1 DEF NotFound, Sent
<1>3. /\ parse'[c] = "start" /\ complete'[c] = FALSE /\ asked'[c] = Append(asked[c], a)
      /\ answers'[c] = IF Sound(c) THEN Append(answers[c], e) ELSE answers[c]
      /\ \A d \in Conn \ {c} : /\ parse'[d] = parse[d] /\ complete'[d] = complete[d]
                               /\ req'[d] = req[d] /\ asked'[d] = asked[d]
                               /\ answers'[d] = answers[d]
  BY <1>2 DEF Clear, ExchangeInv, DataInv, DataTypeOK
<1>4. OnlyOf(c) /\ Sounding' = Sounding
  BY <1>3, CallbackOnly DEF Parsing, Sounding
<1>5. running = c /\ (Sound(c) <=> c \in Sounding)
  BY WhileParsing
<1>6. ProgressInv'
  <2>1. OwesNothing(c)'
    <3>1. c \in Sounding => Len(asked[c]) = Len(answers[c])
      BY DEF ExchangeInv, ProgressInv, ProgressOf, OwesNothing
    <3>2. asked[c] \in Seq(Arrival) /\ answers[c] \in Seq(AnswerForm)
      BY DEF ExchangeInv, DataInv, DataTypeOK
    <3>3. c \in Sounding => Len(asked'[c]) = Len(answers'[c])
      BY <3>1, <3>2, <1>1, <1>3, <1>5, AppendFacts
    <3> QED
      BY <3>3, <1>4 DEF OwesNothing
  <2>2. OwesOne(c)' /\ RefusedIsLast(c)' /\ UnansweredIsLast(c)'
    BY <1>2, <1>3, <1>5 DEF OwesOne, RefusedIsLast, UnansweredIsLast
  <2> QED
    BY <2>1, <2>2, <1>4, OthersProgress DEF ProgressOf, ExchangeInv
<1>7. Exchange!Refuse(c, a)
  <2>1. SentCodes' = IF c \in Sounding THEN [SentCodes EXCEPT ![c] = Append(@, 404)]
                                       ELSE SentCodes
    <3>1. CASE Sound(c)
      <4>1. answers' = [answers EXCEPT ![c] = Append(@, e)]
        BY <3>1, <1>2
      <4>2. SentCodes' = [SentCodes EXCEPT ![c] = Append(@, e.code)]
        BY <4>1, CodesSent DEF ExchangeInv, DataInv
      <4> QED
        BY <4>2, <3>1, <1>1, <1>5
    <3>2. CASE ~Sound(c)
      BY <3>2, <1>2, <1>5 DEF SentCodes
    <3> QED
      BY <3>1, <3>2
  <2>2. Unrouted(a)
    BY DEF Unrouted
  <2> QED
    BY <2>1, <2>2, <1>4, MayTake DEF Exchange!Refuse
<1> QED
  BY <1>6, <1>7 DEF Exchange!ExchangeNext

LEMMA UrlSteps ==
  ASSUME ExchangeInv, NEW c \in Conn, OnUrl(c) \/ OnUrlStart(c) \/ OnUrlRest(c)
  PROVE  ProgressInv' /\ (Exchange!ExchangeNext \/ UNCHANGED <<asked, answers, Sounding>>)
<1>1. UNCHANGED <<sock, gone, pending, running>> /\ Parsing(c)
      /\ parse[c] \in {"start", "mark", "query"}
  BY DEF OnUrl, OnUrlStart, OnUrlRest
<1>2. CASE OnUrl(c)
  <2>1. PICK a \in Arrival :
          /\ asked' = [asked EXCEPT ![c] = Append(@, a)]
          /\ \/ ~FindsRoute(a) /\ NotFound(c)
             \/ FindsRoute(a) /\ Found(c, a.req, "head") /\ UNCHANGED feed
    BY <1>2 DEF OnUrl
  <2> QED
    BY <1>1, <2>1, Takes, Refuses
<1>3. CASE OnUrlRest(c)
  <2> DEFINE a == [req |-> req[c], cut |-> parse[c]]
  <2>1. a \in Arrival /\ a.req = req[c]
    BY <1>3 DEF OnUrlRest, ExchangeInv, DataInv, CutInv
  <2>2. /\ asked' = [asked EXCEPT ![c] = Append(@, a)]
        /\ \/ ~FindsRoute(a) /\ NotFound(c)
           \/ FindsRoute(a) /\ Found(c, a.req, "head") /\ UNCHANGED feed
    BY <1>3 DEF OnUrlRest
  <2> HIDE DEF a
  <2> QED
    BY <1>1, <2>1, <2>2, Takes, Refuses
<1>4. CASE OnUrlStart(c)
  <2>1. PICK a \in Arrival :
          \/ /\ a.cut # "none" /\ (~a.req.known \/ a.cut = "path")
             /\ asked' = [asked EXCEPT ![c] = Append(@, a)]
             /\ NotFound(c)
          \/ /\ a.cut \in {"mark", "query"} /\ a.req.known
             /\ Found(c, a.req, a.cut)
             /\ feed' = "drained"
             /\ UNCHANGED asked
    BY <1>4 DEF OnUrlStart
  <2>2. CASE /\ a.cut # "none" /\ (~a.req.known \/ a.cut = "path")
             /\ asked' = [asked EXCEPT ![c] = Append(@, a)]
             /\ NotFound(c)
    <3>1. ~FindsRoute(a)
      BY <2>2 DEF FindsRoute
    <3> QED
      BY <1>1, <2>2, <3>1, Refuses
  <2>3. CASE /\ a.cut \in {"mark", "query"}
             /\ Found(c, a.req, a.cut)
             /\ feed' = "drained"
             /\ UNCHANGED asked
    <3>1. /\ parse' = [parse EXCEPT ![c] = a.cut] /\ req' = [req EXCEPT ![c] = a.req]
          /\ UNCHANGED <<complete, answers>>
      BY <2>3 DEF Found
    <3>2. /\ parse'[c] \in {"mark", "query"} /\ parse[c] = "start"
          /\ \A d \in Conn \ {c} : parse'[d] = parse[d] /\ req'[d] = req[d]
      BY <1>4, <2>3, <3>1 DEF OnUrlStart, ExchangeInv, DataInv, DataTypeOK
    <3>3. OnlyOf(c) /\ Sounding' = Sounding
      BY <1>1, <2>3, <3>1, <3>2, CallbackOnly DEF Parsing, Sounding
    <3>4. /\ \A i \in 1 .. Len(asked[c]) : FindsRoute(asked[c][i])
          /\ complete[c] => c \notin Sounding
      BY <1>1, WhileParsing
    <3>5. ProgressOf(c)
      BY DEF ExchangeInv, ProgressInv
    <3>6. OwesNothing(c)' /\ OwesOne(c)'
      BY <2>3, <3>1, <3>2, <3>3, <3>5 DEF ProgressOf, OwesNothing, OwesOne
    <3>7. RefusedIsLast(c)' /\ UnansweredIsLast(c)'
      BY <2>3, <3>1, <3>3, <3>4 DEF RefusedIsLast, UnansweredIsLast
    <3>8. ProgressInv'
      BY <3>3, <3>6, <3>7, OthersProgress DEF ProgressOf, ExchangeInv
    <3> QED
      BY <2>3, <3>1, <3>3, <3>8
  <2> QED
    BY <2>1, <2>2, <2>3
<1> QED
  BY <1>2, <1>3, <1>4


\* The message that has been parsed is answered, unless its client is gone.
LEMMA Answers ==
  ASSUME ExchangeInv, NEW c \in Conn, Addressed(c), Clear(c),
         NEW e \in AnswerForm,
         \/ Nameless(req[c]) /\ e.code = 400
         \/ ~Nameless(req[c]) /\ ~Upgrades(req[c]) /\ e.code \in {200, 500},
         answers' = IF Sound(c) THEN [answers EXCEPT ![c] = Append(@, e)] ELSE answers,
         sock' = sock \/ (Sound(c) /\ sock' = [sock EXCEPT ![c] = "closed"])
  PROVE  ProgressInv' /\ Exchange!ExchangeNext
<1>1. /\ Parsing(c) /\ parse[c] = "body"
      /\ UNCHANGED <<gone, asked, pending, running>>
  BY DEF Addressed, Handling
<1>2. /\ running = c /\ feed = "bytes" /\ (Sound(c) <=> c \in Sounding)
      /\ \A i \in 1 .. Len(asked[c]) : FindsRoute(asked[c][i])
      /\ complete[c] => c \notin Sounding
  BY <1>1, WhileParsing
<1>3. /\ parse'[c] = "start" /\ complete'[c] = FALSE
      /\ answers'[c] = IF Sound(c) THEN Append(answers[c], e) ELSE answers[c]
      /\ sock'[c] \in {sock[c], "closed"}
      /\ \A d \in Conn \ {c} : /\ sock'[d] = sock[d]
                               /\ parse'[d] = parse[d] /\ complete'[d] = complete[d]
                               /\ req'[d] = req[d] /\ answers'[d] = answers[d]
  BY DEF Clear, ExchangeInv, DataInv, DataTypeOK, DeadlineTypeOK
<1>4. OnlyOf(c)
  BY <1>1, <1>2, <1>3, CallbackOnly
<1>5. Sounding' \in {Sounding, Sounding \ {c}} /\ (~Sound(c) => Sounding' = Sounding)
  BY <1>1, <1>2, <1>3 DEF Sounding
<1>6. asked[c] \in Seq(Arrival) /\ answers[c] \in Seq(AnswerForm)
  BY DEF ExchangeInv, DataInv, DataTypeOK
<1>7. Sound(c) => /\ Len(asked[c]) = Len(answers[c]) + 1
                  /\ asked[c][Len(asked[c])].req = req[c]
  BY <1>1, <1>2 DEF ExchangeInv, ProgressInv, ProgressOf, OwesOne
<1>8. ProgressInv'
  <2>1. OwesNothing(c)'
    <3>1. CASE Sound(c)
      <4>1. Len(asked'[c]) = Len(answers'[c])
        BY <3>1, <1>1, <1>3, <1>6, <1>7, AppendFacts
      <4> QED
        BY <4>1 DEF OwesNothing
    <3>2. CASE ~Sound(c)
      BY <3>2, <1>2, <1>5 DEF OwesNothing
    <3> QED
      BY <3>1, <3>2
  <2>2. OwesOne(c)' /\ RefusedIsLast(c)' /\ UnansweredIsLast(c)'
    BY <1>1, <1>2, <1>3 DEF OwesOne, RefusedIsLast, UnansweredIsLast
  <2> QED
    BY <2>1, <2>2, <1>4, OthersProgress DEF ProgressOf, ExchangeInv
<1>9. CASE Sound(c)
  <2>1. SentCodes' = [SentCodes EXCEPT ![c] = Append(@, e.code)]
    <3>1. answers' = [answers EXCEPT ![c] = Append(@, e)]
      BY <1>9
    <3>2. DataTypeOK
      BY DEF ExchangeInv, DataInv
    <3>3. \A f \in AnswerForm :
            answers' = [answers EXCEPT ![c] = Append(@, f)]
              => SentCodes' = [SentCodes EXCEPT ![c] = Append(@, f.code)]
      BY <3>2, CodesSent, Zenon
    <3> QED
      BY <3>1, <3>3, Zenon
  <2>2. e.code \in Codes(asked[c][Len(asked[c])])
    BY <1>7, <1>9 DEF Codes
  <2>3. Len(SentCodes[c]) + 1 = Len(asked[c])
    BY <1>6, <1>7, <1>9, CodesTyped DEF ExchangeInv, DataInv
  <2>4. Exchange!Answer(c)
    BY <2>1, <2>2, <2>3, <1>1, <1>2, <1>5, <1>9 DEF Exchange!Answer
  <2> QED
    BY <2>4, <1>8 DEF Exchange!ExchangeNext
<1>10. CASE ~Sound(c)
  BY <1>1, <1>5, <1>8, <1>10, Breaks
<1> QED
  BY <1>9, <1>10

\* The message stays where it is, unanswered.
LEMMA LeavesUnanswered ==
  ASSUME ExchangeInv, NEW c \in Conn, Handle_Upgrade(c) \/ Handle_StreamFails(c)
  PROVE  Quiet
<1>1. /\ Parsing(c) /\ parse[c] = "body"
      /\ complete' = [complete EXCEPT ![c] = TRUE]
      /\ UNCHANGED <<sock, gone, asked, answers, pending, running, parse, req>>
  BY DEF Handle_Upgrade, Handle_StreamFails, Addressed, Handling
<1>2. /\ running = c /\ feed = "bytes" /\ (Sound(c) <=> c \in Sounding)
      /\ \A i \in 1 .. Len(asked[c]) : FindsRoute(asked[c][i])
  BY <1>1, WhileParsing
<1>3. complete'[c] /\ \A d \in Conn \ {c} : complete'[d] = complete[d]
  BY <1>1 DEF ExchangeInv, DataInv, DataTypeOK
<1>4. OnlyOf(c) /\ Sounding' = Sounding
  BY <1>1, <1>2, <1>3, CallbackOnly DEF Sounding
<1>5. OwesNothing(c)' /\ OwesOne(c)' /\ RefusedIsLast(c)'
  BY <1>1, <1>2, <1>3 DEF OwesNothing, OwesOne, RefusedIsLast
<1>6. UnansweredIsLast(c)'
  <2>1. CASE Handle_Upgrade(c)
    <3>1. req[c].upgrade
      BY <2>1 DEF Handle_Upgrade, Upgrades
    <3>2. feed' # "bytes"
      BY <2>1, <3>1 DEF Handle_Upgrade, GoesOn
    <3> QED
      BY <3>2 DEF UnansweredIsLast
  <2>2. CASE Handle_StreamFails(c)
    BY <2>2, <1>2, <1>4 DEF Handle_StreamFails, UnansweredIsLast
  <2> QED
    BY <2>1, <2>2
<1> QED
  BY <1>1, <1>4, <1>5, <1>6, OthersProgress DEF Quiet, ProgressOf, ExchangeInv

LEMMA HandlerSteps ==
  ASSUME ExchangeInv, NEW c \in Conn,
         Handle_Nameless(c) \/ Handle_Route(c) \/ Handle_Stream(c)
  PROVE  ProgressInv' /\ Exchange!ExchangeNext
<1>1. CASE Handle_Nameless(c)
  <2>1. PICK e \in AnswerForm : e = [code |-> 400, body |-> TRUE]
    BY DEF AnswerForm
  <2>2. /\ Addressed(c) /\ Nameless(req[c]) /\ Clear(c) /\ sock' = sock
        /\ answers' = IF Sound(c) THEN [answers EXCEPT ![c] = Append(@, e)] ELSE answers
    BY <1>1, <2>1 DEF Handle_Nameless, Sent
  <2> QED
    BY <2>1, <2>2, Answers
<1>2. CASE Handle_Route(c)
  <2>1. PICK code \in {200, 500} : Sent(c, code, code = 500 \/ ~skipBody[c])
    BY <1>2 DEF Handle_Route
  <2>2. PICK e \in AnswerForm : e = [code |-> code, body |-> code = 500 \/ ~skipBody[c]]
    <3>1. [code |-> code, body |-> code = 500 \/ ~skipBody[c]] \in AnswerForm
      BY DEF AnswerForm
    <3> QED
      BY <3>1
  <2>3. /\ Addressed(c) /\ ~Nameless(req[c]) /\ ~Upgrades(req[c]) /\ Clear(c) /\ sock' = sock
        /\ answers' = IF Sound(c) THEN [answers EXCEPT ![c] = Append(@, e)] ELSE answers
    BY <1>2, <2>1, <2>2 DEF Handle_Route, Sent
  <2>4. e.code \in {200, 500}
    BY <2>2
  <2> QED
    BY <2>3, <2>4, Answers
<1>3. CASE Handle_Stream(c)
  <2>1. PICK e \in AnswerForm : e = [code |-> 200, body |-> TRUE]
    BY DEF AnswerForm
  <2>2. /\ Addressed(c) /\ ~Nameless(req[c]) /\ ~Upgrades(req[c]) /\ Clear(c)
        /\ sock' = sock \/ (Sound(c) /\ sock' = [sock EXCEPT ![c] = "closed"])
        /\ answers' = IF Sound(c) THEN [answers EXCEPT ![c] = Append(@, e)] ELSE answers
    BY <1>3, <2>1 DEF Handle_Stream, Sent
  <2>3. e.code = 200
    BY <2>1
  <2> QED
    BY <2>2, <2>3, Answers
<1> QED
  BY <1>1, <1>2, <1>3

-----------------------------------------------------------------------------
(***************************************************************************)
(* The refinement.                                                         *)
(***************************************************************************)

LEMMA InitExchange == Init /\ DataInv /\ DeadlineInv => ExchangeInv /\ Exchange!ExchangeInit
<1> SUFFICES ASSUME Init, DataInv, DeadlineInv
             PROVE  ExchangeInv /\ Exchange!ExchangeInit
  OBVIOUS
<1>1. /\ asked = [c \in Conn |-> <<>>] /\ answers = [c \in Conn |-> <<>>]
      /\ sock = [c \in Conn |-> "new"] /\ gone = {}
      /\ parse = [c \in Conn |-> "start"] /\ complete = [c \in Conn |-> FALSE]
  BY DEF Init
<1>2. ProgressInv
  BY <1>1 DEF ProgressInv, ProgressOf, OwesNothing, OwesOne, RefusedIsLast, UnansweredIsLast
<1>3. SentCodes = [c \in Conn |-> <<>>] /\ Sounding = Conn
  BY <1>1 DEF SentCodes, Sounding
<1> QED
  BY <1>1, <1>2, <1>3 DEF ExchangeInv, DeadlineInv, Exchange!ExchangeInit

LEMMA NextExchange ==
  ASSUME ExchangeInv, [Next]_vars
  PROVE  ProgressInv' /\ Exchange!ExchangeNext
<1>1. Quiet => ProgressInv' /\ Exchange!ExchangeNext
  BY Breaks DEF Quiet
<1>2. CASE \/ UNCHANGED vars \/ Elapse \/ Tick
           \/ \E c \in Conn : Accept(c) \/ Reset(c) \/ Start(c)
  BY <1>1, <1>2, CalmSteps
<1>3. ASSUME NEW c \in Conn, ReadSome(c) \/ ReadError(c) \/ EndRead(c) \/ Handle_Throws(c)
      PROVE  ProgressInv' /\ Exchange!ExchangeNext
  BY <1>1, <1>3, ReadSteps
<1>4. ASSUME NEW c \in Conn, OnUrl(c) \/ OnUrlStart(c) \/ OnUrlRest(c)
      PROVE  ProgressInv' /\ Exchange!ExchangeNext
  BY <1>4, UrlSteps, Breaks
<1>5. ASSUME NEW c \in Conn, OnHeaders(c) \/ OnGarbage(c)
      PROVE  ProgressInv' /\ Exchange!ExchangeNext
  BY <1>1, <1>5, OtherCallbacks
<1>6. ASSUME NEW c \in Conn, Handle_Upgrade(c) \/ Handle_StreamFails(c)
      PROVE  ProgressInv' /\ Exchange!ExchangeNext
  BY <1>1, <1>6, LeavesUnanswered
<1>7. ASSUME NEW c \in Conn, Handle_Nameless(c) \/ Handle_Route(c) \/ Handle_Stream(c)
      PROVE  ProgressInv' /\ Exchange!ExchangeNext
  BY <1>7, HandlerSteps
<1> QED
  BY <1>2, <1>3, <1>4, <1>5, <1>6, <1>7 DEF Next

\* Whatever reads, handlers, deadlines and clients do, a connection takes
\* requests one at a time and gives each at most one answer, of its own kind.
THEOREM ExchangeKept == Spec => KeepsExchange
<1>1. Spec => []DataInv
  BY DataInvariant
<1>2. Spec => []DeadlineInv
  BY DeadlineInvariant
<1>3. Init /\ DataInv /\ DeadlineInv => ProgressInv /\ Exchange!ExchangeInit
  BY InitExchange DEF ExchangeInv
<1>4. ASSUME DataInv, DeadlineInv, ProgressInv, [Next]_vars
      PROVE  ProgressInv' /\ [Exchange!ExchangeNext]_(Exchange!exchangeVars)
  BY <1>4, NextExchange DEF ExchangeInv, DeadlineInv
<1> QED
  BY <1>1, <1>2, <1>3, <1>4, PTL DEF Spec, KeepsExchange, Exchange!ExchangeSpec

-----------------------------------------------------------------------------
(***************************************************************************)
(* Why an answer has no body, and why a connection is closed.              *)
(***************************************************************************)

RefusedNow(c) == running = c /\ feed = "refused"

\* There are no more answers than requests, and fewer while one is parsed.
AnswersBehind(c) ==
  /\ Len(answers[c]) <= Len(asked[c])
  /\ parse[c] \in {"head", "body"} => Len(answers[c]) < Len(asked[c])

\* What a request asked for is heeded before the handler that took it ends.
ClosingHeeded(c) == closing[c] => running = c

\* Where the read of c has answered a request for the close, the connection is
\* about to be closed, or that answer or a later one of the read went to a
\* request that it survives.
CloseExplained(c) ==
  c \in Sounding =>
    \A i \in before[c] + 1 .. Len(answers[c]) :
      AsksToClose(asked[c][i].req) =>
        \/ RefusedNow(c) \/ closing[c]
        \/ \E j \in i .. Len(answers[c]) : Survives(asked[c][j].req)

\* skip_body is set for the HEAD that is parsed, or was left behind by one
\* that was answered 400, as all after it were.
SkipExplained(c) ==
  c \in Sounding /\ skipBody[c] =>
    \/ RefusedNow(c)
    \/ parse[c] # "start" /\ req[c].head
    \/ \E j \in 1 .. Len(answers[c]) :
         /\ asked[c][j].req.head
         /\ \A k \in j .. Len(answers[c]) : answers[c][k].code = 400

\* BodyLostOnlyToBareHead for one connection.
BodyExplained(c) ==
  \A i \in DOMAIN answers[c] :
    ~answers[c][i].body /\ ~asked[c][i].req.head =>
      \E j \in 1 .. i - 1 : /\ asked[c][j].req.head
                            /\ \A k \in j .. i - 1 : answers[c][k].code = 400

HistoryOf(c) ==
  /\ AnswersBehind(c) /\ ClosingHeeded(c) /\ CloseExplained(c)
  /\ SkipExplained(c) /\ BodyExplained(c)

HistoryInv == \A c \in Conn : HistoryOf(c)

\* What a step of c leaves to the others, of its responses too.
OnlyHistoryOf(c) ==
  /\ OnlyOf(c)
  /\ \A d \in Conn \ {c} : /\ closing'[d] = closing[d] /\ skipBody'[d] = skipBody[d]
                           /\ before'[d] = before[d]

LEMMA OthersHistory ==
  ASSUME HistoryInv, NEW c \in Conn, OnlyHistoryOf(c), HistoryOf(c)'
  PROVE  HistoryInv'
<1> SUFFICES ASSUME NEW d \in Conn, d # c
             PROVE  HistoryOf(d)'
  BY DEF HistoryInv
<1>1. /\ sock'[d] = sock[d] /\ parse'[d] = parse[d] /\ req'[d] = req[d]
      /\ asked'[d] = asked[d] /\ answers'[d] = answers[d]
      /\ closing'[d] = closing[d] /\ skipBody'[d] = skipBody[d] /\ before'[d] = before[d]
      /\ d \in gone' <=> d \in gone
      /\ d \in Sounding' <=> d \in Sounding
  BY DEF OnlyHistoryOf, OnlyOf, Sounding
<1>2. running # d /\ running' # d
  BY ConnectionAssumption DEF OnlyHistoryOf, OnlyOf
<1>3. HistoryOf(d)
  BY DEF HistoryInv
<1>4. AnswersBehind(d)' /\ ClosingHeeded(d)'
  BY <1>1, <1>2, <1>3 DEF HistoryOf, AnswersBehind, ClosingHeeded
<1>5. SkipExplained(d)'
  BY <1>1, <1>2, <1>3 DEF HistoryOf, SkipExplained, RefusedNow
<1>6. BodyExplained(d)'
  BY <1>1, <1>3 DEF HistoryOf, BodyExplained
<1>7. CloseExplained(d)'
  BY <1>1, <1>2, <1>3 DEF HistoryOf, CloseExplained, RefusedNow
<1> QED
  BY <1>4, <1>5, <1>6, <1>7 DEF HistoryOf

\* Nothing is answered, and the read goes on.
LEMMA CloseKept ==
  ASSUME NEW c \in Conn, CloseExplained(c),
         Len(answers[c]) \in Nat, Len(asked[c]) \in Nat, before[c] \in Nat,
         Len(answers[c]) <= Len(asked[c]),
         answers'[c] = answers[c], before'[c] = before[c],
         \A i \in 1 .. Len(asked[c]) : asked'[c][i] = asked[c][i],
         closing[c] => closing'[c],
         c \in Sounding' => c \in Sounding,
         RefusedNow(c) => RefusedNow(c)'
  PROVE  CloseExplained(c)'
<1> SUFFICES ASSUME c \in Sounding', NEW i \in before[c] + 1 .. Len(answers[c]),
                    AsksToClose(asked'[c][i].req), ~ RefusedNow(c)', ~ closing'[c]
             PROVE  \E j \in i .. Len(answers[c]) : Survives(asked'[c][j].req)
  BY DEF CloseExplained
<1>1. \A j \in i .. Len(answers[c]) : asked'[c][j] = asked[c][j]
  OBVIOUS
<1>2. AsksToClose(asked[c][i].req)
  BY <1>1
<1>3. PICK j \in i .. Len(answers[c]) : Survives(asked[c][j].req)
  BY <1>2 DEF CloseExplained
<1> QED
  BY <1>1, <1>3

\* Steps that change neither requests nor answers, nor what the parser and the
\* response know, and leave the refusal of what was refused.  A read may begin.
LEMMA SameHistory ==
  ASSUME ExchangeInv, HistoryInv, NEW c \in Conn,
         UNCHANGED <<asked, answers>>,
         before'[c] \in {before[c], Len(answers[c])},
         closing'[c] = closing[c], closing'[c] => running' = c,
         skipBody'[c] = skipBody[c], req'[c] = req[c],
         parse'[c] = parse[c] \/ (parse[c] = "head" /\ parse'[c] = "body"),
         sock[c] = "closed" => sock'[c] = "closed",
         c \in gone => c \in gone',
         RefusedNow(c) => RefusedNow(c)'
  PROVE  HistoryOf(c)'
<1>1. HistoryOf(c)
  BY DEF HistoryInv
<1>2. c \in Sounding' => c \in Sounding
  BY DEF Sounding
<1>3. AnswersBehind(c)' /\ ClosingHeeded(c)'
  BY <1>1 DEF HistoryOf, AnswersBehind, ClosingHeeded
<1>4. SkipExplained(c)'
  BY <1>1, <1>2 DEF HistoryOf, SkipExplained
<1>5. BodyExplained(c)'
  BY <1>1 DEF HistoryOf, BodyExplained
<1>6. CloseExplained(c)'
  <2>1. Len(answers[c]) \in Nat /\ Len(asked[c]) \in Nat /\ before[c] \in Nat
    BY DEF ExchangeInv, DataInv, DataTypeOK
  <2>2. CASE before'[c] = before[c]
    BY <1>1, <1>2, <2>1, <2>2, CloseKept DEF HistoryOf, AnswersBehind
  <2>3. CASE before'[c] = Len(answers[c])
    <3>1. before'[c] + 1 .. Len(answers'[c]) = {}
      BY <2>1, <2>3
    <3> QED
      BY <3>1 DEF CloseExplained
  <2> QED
    BY <2>2, <2>3
<1> QED
  BY <1>3, <1>4, <1>5, <1>6 DEF HistoryOf

LEMMA CalmHistory ==
  ASSUME ExchangeInv, HistoryInv,
         \/ UNCHANGED vars \/ Elapse \/ Tick
         \/ \E c \in Conn : Accept(c) \/ Reset(c) \/ Start(c)
  PROVE  HistoryInv'
<1> SUFFICES ASSUME NEW c \in Conn
             PROVE  HistoryOf(c)'
  BY DEF HistoryInv
<1>1. /\ UNCHANGED <<running, feed, parse, complete, req, skipBody, closing>>
      /\ UNCHANGED <<asked, answers, before>>
  BY DEF vars, parserVars, historyVars, Elapse, Tick, Accept, Reset, Start
<1>2. sock[c] = "closed" => sock'[c] = "closed"
  <2>1. CASE UNCHANGED vars \/ Elapse
    BY <2>1 DEF vars, Elapse
  <2>2. CASE Tick
    BY <2>2 DEF Tick
  <2>3. ASSUME NEW d \in Conn, Accept(d) \/ Reset(d) \/ Start(d)
        PROVE  sock[c] = "closed" => sock'[c] = "closed"
    BY <2>3 DEF Accept, Reset, Start, ExchangeInv, DeadlineTypeOK
  <2> QED
    BY <2>1, <2>2, <2>3
<1>3. c \in gone => c \in gone'
  BY DEF vars, Elapse, Tick, Accept, Reset, Start
<1>4. closing[c] => running = c
  BY DEF HistoryInv, HistoryOf, ClosingHeeded
<1> QED
  BY <1>1, <1>2, <1>3, <1>4, SameHistory DEF RefusedNow

LEMMA FreedHistory ==
  ASSUME ExchangeInv, HistoryInv, NEW c \in Conn, running \in {Idle, c}, Free(c),
         UNCHANGED <<gone, asked, answers, before>>
  PROVE  HistoryInv'
<1>1. /\ sock'[c] = "closed" /\ parse'[c] = "start" /\ closing'[c] = FALSE
      /\ \A d \in Conn \ {c} : closing'[d] = closing[d] /\ skipBody'[d] = skipBody[d]
  BY DEF Free, Clear, ExchangeInv, DataInv, DataTypeOK, DeadlineTypeOK
<1>2. OnlyHistoryOf(c)
  BY <1>1 DEF Free, Clear, OnlyHistoryOf, OnlyOf
<1>3. HistoryOf(c)
  BY DEF HistoryInv
<1>4. AnswersBehind(c)' /\ ClosingHeeded(c)' /\ BodyExplained(c)'
  BY <1>1, <1>3 DEF HistoryOf, AnswersBehind, ClosingHeeded, BodyExplained
<1>5. SkipExplained(c)' /\ CloseExplained(c)'
  BY <1>1 DEF SkipExplained, CloseExplained, Sounding
<1> QED
  BY <1>2, <1>4, <1>5, OthersHistory DEF HistoryOf

LEMMA ReadHistory ==
  ASSUME ExchangeInv, HistoryInv, NEW c \in Conn,
         ReadSome(c) \/ ReadError(c) \/ EndRead(c) \/ Handle_Throws(c)
  PROVE  HistoryInv'
<1>1. closing[c] => running = c
  BY DEF HistoryInv, HistoryOf, ClosingHeeded
<1>2. CASE ReadError(c) \/ Handle_Throws(c)
  BY <1>2, FreedHistory DEF ReadError, Abandon, Handle_Throws, Handling, Parsing
<1>3. CASE ReadSome(c)
  <2>1. /\ running = Idle /\ running' = c
        /\ pending' = [pending EXCEPT ![c] = "none"]
        /\ before' = [before EXCEPT ![c] = Len(answers[c])]
        /\ UNCHANGED <<sock, gone, parse, complete, req, skipBody, closing, asked, answers>>
    BY <1>3 DEF ReadSome
  <2>2. /\ before'[c] = Len(answers[c])
        /\ \A d \in Conn \ {c} : before'[d] = before[d]
    BY <2>1 DEF ExchangeInv, DataInv, DataTypeOK
  <2>3. OnlyHistoryOf(c)
    BY <2>1, <2>2 DEF OnlyHistoryOf, OnlyOf, ExchangeInv, DeadlineTypeOK
  <2>4. ~ RefusedNow(c)
    BY <2>1, ConnectionAssumption DEF RefusedNow
  <2> QED
    BY <2>1, <2>2, <2>3, <2>4, SameHistory, OthersHistory
<1>4. CASE EndRead(c)
  <2>1. CASE Abandon(c)
    BY <1>4, <2>1, FreedHistory DEF EndRead, Abandon
  <2>2. CASE /\ feed # "refused" /\ ~closing[c]
             /\ pending' = [pending EXCEPT ![c] = "read"]
             /\ running' = Idle
             /\ UNCHANGED <<sock, gone, parse, complete, req, skipBody, closing>>
             /\ UNCHANGED <<asked, answers, before>>
    <3>1. running = c /\ ~ RefusedNow(c)
      BY <1>4, <2>2 DEF EndRead, RefusedNow
    <3>2. OnlyHistoryOf(c)
      BY <2>2, <3>1 DEF OnlyHistoryOf, OnlyOf, ExchangeInv, DeadlineTypeOK
    <3> QED
      BY <2>2, <3>1, <3>2, SameHistory, OthersHistory
  <2> QED
    BY <1>4, <2>1, <2>2 DEF EndRead
<1> QED
  BY <1>2, <1>3, <1>4

LEMMA CallbackHistory ==
  ASSUME ExchangeInv, HistoryInv, NEW c \in Conn, OnHeaders(c) \/ OnGarbage(c)
  PROVE  HistoryInv'
<1>1. /\ Parsing(c) /\ req' = req
      /\ parse' = parse \/ (parse[c] = "head" /\ parse' = [parse EXCEPT ![c] = "body"])
      /\ UNCHANGED <<sock, gone, pending, running, complete, skipBody, closing>>
      /\ UNCHANGED <<asked, answers, before>>
  BY DEF OnHeaders, OnGarbage, AfterContinue, historyVars, ExchangeInv, DataInv, DataTypeOK
<1>2. /\ parse'[c] = parse[c] \/ (parse[c] = "head" /\ parse'[c] = "body")
      /\ \A d \in Conn \ {c} : parse'[d] = parse[d]
  BY <1>1 DEF ExchangeInv, DataInv, DataTypeOK
<1>3. running = c /\ ~ RefusedNow(c)
  BY <1>1 DEF Parsing, RefusedNow
<1>4. OnlyHistoryOf(c)
  BY <1>1, <1>2, <1>3 DEF OnlyHistoryOf, OnlyOf
<1> QED
  BY <1>1, <1>2, <1>3, <1>4, SameHistory, OthersHistory

LEMMA UnansweredHistory ==
  ASSUME ExchangeInv, HistoryInv, NEW c \in Conn, Handle_Upgrade(c) \/ Handle_StreamFails(c)
  PROVE  HistoryInv'
<1>1. /\ Parsing(c) /\ parse[c] = "body" /\ Addressed(c)
      /\ complete' = [complete EXCEPT ![c] = TRUE]
      /\ UNCHANGED <<sock, gone, asked, answers, before, pending, running, parse, req, skipBody>>
  BY DEF Handle_Upgrade, Handle_StreamFails, Addressed, Handling
<1>2. /\ running = c /\ ~ RefusedNow(c)
      /\ \A d \in Conn \ {c} : closing'[d] = closing[d] /\ complete'[d] = complete[d]
  BY <1>1 DEF Parsing, RefusedNow, Addressed, ExchangeInv, DataInv, DataTypeOK
<1>3. OnlyHistoryOf(c)
  BY <1>1, <1>2 DEF OnlyHistoryOf, OnlyOf
<1>4. HistoryOf(c)
  BY DEF HistoryInv
<1>5. AnswersBehind(c)' /\ BodyExplained(c)'
  BY <1>1, <1>4 DEF HistoryOf, AnswersBehind, BodyExplained
<1>6. ClosingHeeded(c)' /\ CloseExplained(c)'
  <2>1. closing'[c] \/ c \notin Sounding'
    <3>1. CASE Handle_Upgrade(c)
      BY <3>1 DEF Handle_Upgrade, Addressed, ExchangeInv, DataInv, DataTypeOK
    <3>2. CASE Handle_StreamFails(c)
      <4>1. c \notin Sounding
        BY <3>2, <1>1, WhileParsing DEF Handle_StreamFails
      <4> QED
        BY <4>1, <1>1 DEF Sounding
    <3> QED
      BY <3>1, <3>2
  <2> QED
    BY <1>1, <1>2, <2>1 DEF ClosingHeeded, CloseExplained
<1>7. SkipExplained(c)'
  BY <1>1, <1>2, <1>4 DEF HistoryOf, SkipExplained, Sounding
<1> QED
  BY <1>3, <1>5, <1>6, <1>7, OthersHistory DEF HistoryOf

\* More requests and no more answers.
LEMMA BodyKept ==
  ASSUME NEW c \in Conn, BodyExplained(c),
         answers[c] \in Seq(AnswerForm), Len(answers[c]) <= Len(asked[c]),
         answers'[c] = answers[c], Len(asked[c]) \in Nat,
         \A i \in 1 .. Len(asked[c]) : asked'[c][i] = asked[c][i]
  PROVE  BodyExplained(c)'
<1> DEFINE n == Len(answers[c])
<1>1. n \in Nat /\ DOMAIN answers[c] = 1 .. n /\ DOMAIN answers'[c] = 1 .. n
  OBVIOUS
<1> SUFFICES ASSUME NEW i \in 1 .. n, ~answers[c][i].body, ~asked'[c][i].req.head
             PROVE  \E j \in 1 .. i - 1 : /\ asked'[c][j].req.head
                                          /\ \A k \in j .. i - 1 : answers'[c][k].code = 400
  BY <1>1 DEF BodyExplained
<1>2. i \in 1 .. Len(asked[c]) /\ \A j \in 1 .. i - 1 : j \in 1 .. Len(asked[c])
  BY <1>1
<1>3. ~asked[c][i].req.head
  BY <1>2
<1>4. PICK j \in 1 .. i - 1 : /\ asked[c][j].req.head
                              /\ \A k \in j .. i - 1 : answers[c][k].code = 400
  BY <1>1, <1>3 DEF BodyExplained
<1>5. asked'[c][j].req.head
  BY <1>2, <1>4
<1>6. \A k \in j .. i - 1 : answers'[c][k].code = 400
  BY <1>4
<1> QED
  BY <1>5, <1>6

\* The url of a request with a route, whole or as far as it has come.
LEMMA FoundHistory ==
  ASSUME ExchangeInv, HistoryInv, NEW c \in Conn, NEW a \in Arrival,
         NEW next \in {"mark", "query", "head"},
         Parsing(c), parse[c] \in {"start", "mark", "query"},
         parse[c] = "start" \/ a.req = req[c],
         \/ next = "head" /\ asked' = [asked EXCEPT ![c] = Append(@, a)]
         \/ next # "head" /\ asked' = asked,
         Found(c, a.req, next),
         UNCHANGED <<sock, gone, pending, running, closing, before>>
  PROVE  HistoryInv'
<1>1. /\ parse' = [parse EXCEPT ![c] = next] /\ req' = [req EXCEPT ![c] = a.req]
      /\ skipBody' = [skipBody EXCEPT ![c] = @ \/ a.req.head]
      /\ UNCHANGED <<complete, answers>>
  BY DEF Found
<1>2. /\ parse'[c] = next /\ req'[c] = a.req
      /\ skipBody'[c] = (skipBody[c] \/ a.req.head)
      /\ \A d \in Conn \ {c} : /\ parse'[d] = parse[d] /\ req'[d] = req[d]
                               /\ asked'[d] = asked[d] /\ skipBody'[d] = skipBody[d]
  BY <1>1 DEF ExchangeInv, DataInv, DataTypeOK
<1>3. /\ Len(asked[c]) \in Nat /\ Len(answers[c]) \in Nat
      /\ DOMAIN answers[c] = 1 .. Len(answers[c])
      /\ Len(asked'[c]) \in {Len(asked[c]), Len(asked[c]) + 1}
      /\ next = "head" => Len(asked'[c]) = Len(asked[c]) + 1
      /\ next # "head" => asked'[c] = asked[c]
      /\ \A i \in 1 .. Len(asked[c]) : asked'[c][i] = asked[c][i]
  <2>1. asked[c] \in Seq(Arrival) /\ answers[c] \in Seq(AnswerForm)
    BY DEF ExchangeInv, DataInv, DataTypeOK
  <2>2. \/ next = "head" /\ asked'[c] = Append(asked[c], a)
        \/ next # "head" /\ asked'[c] = asked[c]
    BY DEF ExchangeInv, DataInv, DataTypeOK
  <2> QED
    BY <2>1, <2>2, AppendFacts
<1>4. running = c /\ ~ RefusedNow(c)
  BY DEF Parsing, RefusedNow
<1>5. OnlyHistoryOf(c)
  BY <1>1, <1>2, <1>4 DEF OnlyHistoryOf, OnlyOf
<1>6. HistoryOf(c)
  BY DEF HistoryInv
<1>7. AnswersBehind(c)'
  BY <1>1, <1>2, <1>3, <1>6 DEF HistoryOf, AnswersBehind
<1>8. ClosingHeeded(c)' /\ CloseExplained(c)'
  <2>1. before[c] \in Nat /\ (c \in Sounding' => c \in Sounding)
    BY DEF Sounding, ExchangeInv, DataInv, DataTypeOK
  <2>2. Len(answers[c]) <= Len(asked[c]) /\ CloseExplained(c)
    BY <1>6 DEF HistoryOf, AnswersBehind
  <2>3. CloseExplained(c)'
    BY <1>1, <1>3, <1>4, <2>1, <2>2, CloseKept
  <2> QED
    BY <1>4, <2>3 DEF ClosingHeeded
<1>9. SkipExplained(c)'
  <2> SUFFICES ASSUME c \in Sounding', skipBody'[c], ~ a.req.head
               PROVE  \E j \in 1 .. Len(answers'[c]) :
                        /\ asked'[c][j].req.head
                        /\ \A k \in j .. Len(answers'[c]) : answers'[c][k].code = 400
    BY <1>2 DEF SkipExplained
  <2>1. c \in Sounding /\ skipBody[c]
    BY <1>2 DEF Sounding
  <2>2. \E j \in 1 .. Len(answers[c]) :
          /\ asked[c][j].req.head
          /\ \A k \in j .. Len(answers[c]) : answers[c][k].code = 400
    BY <2>1, <1>4, <1>6 DEF HistoryOf, SkipExplained
  <2>3. Len(answers[c]) <= Len(asked[c])
    BY <1>6 DEF HistoryOf, AnswersBehind
  <2> QED
    BY <2>2, <2>3, <1>1, <1>3
<1>10. BodyExplained(c)'
  <2>1. Len(answers[c]) <= Len(asked[c]) /\ BodyExplained(c)
    BY <1>6 DEF HistoryOf, AnswersBehind
  <2>2. answers'[c] = answers[c] /\ answers[c] \in Seq(AnswerForm)
    BY <1>1 DEF ExchangeInv, DataInv, DataTypeOK
  <2> QED
    BY <2>1, <2>2, <1>3, BodyKept
<1> QED
  BY <1>5, <1>7, <1>8, <1>9, <1>10, OthersHistory DEF HistoryOf

\* An answer e joins those of c: what holds of those before it still holds.
LEMMA BodyStillExplained ==
  ASSUME NEW c \in Conn, BodyExplained(c), NEW e \in AnswerForm, NEW q \in Seq(Arrival),
         answers[c] \in Seq(AnswerForm), asked[c] \in Seq(Arrival),
         answers'[c] = Append(answers[c], e), asked'[c] = q,
         Len(answers[c]) + 1 <= Len(q),
         \A i \in 1 .. Len(answers[c]) : q[i] = asked[c][i],
         ~e.body /\ ~q[Len(answers[c]) + 1].req.head =>
           \E j \in 1 .. Len(answers[c]) :
             /\ asked[c][j].req.head
             /\ \A k \in j .. Len(answers[c]) : answers[c][k].code = 400
  PROVE  BodyExplained(c)'
<1> DEFINE n == Len(answers[c])
<1>1. /\ n \in Nat /\ DOMAIN answers[c] = 1 .. n /\ DOMAIN answers'[c] = 1 .. n + 1
      /\ answers'[c][n + 1] = e
      /\ \A i \in 1 .. n : answers'[c][i] = answers[c][i]
  BY AppendFacts
<1> SUFFICES ASSUME NEW i \in 1 .. n + 1, ~answers'[c][i].body, ~asked'[c][i].req.head
             PROVE  \E j \in 1 .. i - 1 : /\ asked'[c][j].req.head
                                          /\ \A k \in j .. i - 1 : answers'[c][k].code = 400
  BY <1>1 DEF BodyExplained
<1>2. CASE i = n + 1
  <2>1. PICK j \in 1 .. n : /\ asked[c][j].req.head
                            /\ \A k \in j .. n : answers[c][k].code = 400
    BY <1>1, <1>2
  <2>2. j \in 1 .. i - 1 /\ asked'[c][j].req.head
    BY <1>1, <1>2, <2>1
  <2>3. \A k \in j .. i - 1 : answers'[c][k].code = 400
    BY <1>1, <1>2, <2>1
  <2> QED
    BY <2>2, <2>3
<1>3. CASE i # n + 1
  <2>1. i \in 1 .. n /\ ~answers[c][i].body /\ ~asked[c][i].req.head
    BY <1>1, <1>3
  <2>2. PICK j \in 1 .. i - 1 : /\ asked[c][j].req.head
                                /\ \A k \in j .. i - 1 : answers[c][k].code = 400
    BY <1>1, <2>1 DEF BodyExplained
  <2>3. j \in 1 .. n /\ \A k \in j .. i - 1 : k \in 1 .. n
    BY <1>1, <2>1
  <2>4. asked'[c][j].req.head
    BY <2>2, <2>3
  <2>5. \A k \in j .. i - 1 : answers'[c][k].code = 400
    BY <1>1, <2>2, <2>3
  <2> QED
    BY <2>4, <2>5
<1> QED
  BY <1>2, <1>3

\* A request without a route.
LEMMA RefusedHistory ==
  ASSUME ExchangeInv, HistoryInv, NEW c \in Conn, NEW a \in Arrival,
         Parsing(c), parse[c] \in {"start", "mark", "query"},
         asked' = [asked EXCEPT ![c] = Append(@, a)],
         NotFound(c),
         UNCHANGED <<sock, gone, pending, running, closing, before>>
  PROVE  HistoryInv'
<1>1. PICK e \in AnswerForm : e = [code |-> 404, body |-> TRUE]
  BY DEF AnswerForm
<1>2. /\ answers' = IF Sound(c) THEN [answers EXCEPT ![c] = Append(@, e)] ELSE answers
      /\ Clear(c) /\ feed' = "refused" /\ skipBody' = skipBody
  BY <1>1 DEF NotFound, Sent
<1>3. /\ parse'[c] = "start" /\ asked'[c] = Append(asked[c], a)
      /\ answers'[c] = IF Sound(c) THEN Append(answers[c], e) ELSE answers[c]
      /\ \A d \in Conn \ {c} : /\ parse'[d] = parse[d] /\ complete'[d] = complete[d]
                               /\ req'[d] = req[d] /\ asked'[d] = asked[d]
                               /\ answers'[d] = answers[d]
  BY <1>2 DEF Clear, ExchangeInv, DataInv, DataTypeOK
<1>4. asked[c] \in Seq(Arrival) /\ answers[c] \in Seq(AnswerForm)
  BY DEF ExchangeInv, DataInv, DataTypeOK
<1>5. /\ Len(asked[c]) \in Nat /\ Len(answers[c]) \in Nat
      /\ Len(asked'[c]) = Len(asked[c]) + 1
      /\ Len(answers'[c]) \in {Len(answers[c]), Len(answers[c]) + 1}
      /\ asked'[c] \in Seq(Arrival)
      /\ \A i \in 1 .. Len(asked[c]) : asked'[c][i] = asked[c][i]
  BY <1>3, <1>4, AppendFacts
<1>6. HistoryOf(c) /\ running = c
  BY DEF HistoryInv, Parsing
<1>7. Len(answers[c]) <= Len(asked[c])
  BY <1>6 DEF HistoryOf, AnswersBehind
<1>8. OnlyHistoryOf(c)
  BY <1>2, <1>3, <1>6 DEF OnlyHistoryOf, OnlyOf
<1>9. AnswersBehind(c)'
  BY <1>3, <1>5, <1>7 DEF AnswersBehind
<1>10. ClosingHeeded(c)' /\ CloseExplained(c)' /\ SkipExplained(c)'
  BY <1>2, <1>6 DEF ClosingHeeded, CloseExplained, SkipExplained, RefusedNow
<1>11. BodyExplained(c)'
  <2>1. CASE Sound(c)
    <3>1. /\ answers'[c] = Append(answers[c], e) /\ e.body
          /\ Len(answers[c]) + 1 <= Len(asked'[c])
          /\ \A i \in 1 .. Len(answers[c]) : asked'[c][i] = asked[c][i]
      BY <2>1, <1>1, <1>3, <1>5, <1>7
    <3>2. BodyExplained(c)
      BY <1>6 DEF HistoryOf
    <3>3. PICK q \in Seq(Arrival) : q = asked'[c]
      BY <1>5
    <3> QED
      BY <3>1, <3>2, <3>3, <1>4, BodyStillExplained
  <2>2. CASE ~Sound(c)
    <3>1. answers'[c] = answers[c]
      BY <2>2, <1>3
    <3> QED
      BY <3>1, <1>4, <1>5, <1>6, <1>7, BodyKept DEF HistoryOf
  <2> QED
    BY <2>1, <2>2
<1> QED
  BY <1>8, <1>9, <1>10, <1>11, OthersHistory DEF HistoryOf

\* A request that is answered.
LEMMA AnsweredHistory ==
  ASSUME ExchangeInv, HistoryInv, NEW c \in Conn, Addressed(c), Clear(c),
         NEW e \in AnswerForm,
         answers' = IF Sound(c) THEN [answers EXCEPT ![c] = Append(@, e)] ELSE answers,
         sock' = sock \/ (Sound(c) /\ sock' = [sock EXCEPT ![c] = "closed"]),
         \/ skipBody' = skipBody /\ (e.code = 400 \/ ~skipBody[c]) /\ e.body
         \/ skipBody' = [skipBody EXCEPT ![c] = FALSE] /\ (skipBody[c] \/ e.body)
  PROVE  HistoryInv'
<1>1. /\ Parsing(c) /\ parse[c] = "body"
      /\ UNCHANGED <<gone, asked, before, pending, running>>
      /\ closing' = [closing EXCEPT ![c] = Closes(req[c]) \/ Upgrades(req[c])]
  BY DEF Addressed, Handling
<1>2. /\ running = c /\ (Sound(c) <=> c \in Sounding) /\ ~ RefusedNow(c)
      /\ complete[c] => c \notin Sounding
  BY <1>1, WhileParsing DEF RefusedNow
<1>3. /\ parse'[c] = "start"
      /\ answers'[c] = IF Sound(c) THEN Append(answers[c], e) ELSE answers[c]
      /\ sock[c] = "closed" => sock'[c] = "closed"
      /\ closing'[c] = (Closes(req[c]) \/ Upgrades(req[c]))
      /\ \A d \in Conn \ {c} : /\ sock'[d] = sock[d]
                               /\ parse'[d] = parse[d] /\ complete'[d] = complete[d]
                               /\ req'[d] = req[d] /\ answers'[d] = answers[d]
                               /\ closing'[d] = closing[d]
  BY <1>1 DEF Clear, ExchangeInv, DataInv, DataTypeOK, DeadlineTypeOK
<1>4. /\ \A d \in Conn \ {c} : skipBody'[d] = skipBody[d]
      /\ skipBody'[c] => skipBody[c] /\ e.code = 400
  BY DEF ExchangeInv, DataInv, DataTypeOK
<1>5. OnlyHistoryOf(c)
  BY <1>1, <1>2, <1>3, <1>4 DEF OnlyHistoryOf, OnlyOf
<1>6. asked[c] \in Seq(Arrival) /\ answers[c] \in Seq(AnswerForm)
  BY DEF ExchangeInv, DataInv, DataTypeOK
<1>7. Sound(c) => /\ Len(asked[c]) = Len(answers[c]) + 1
                  /\ asked[c][Len(asked[c])].req = req[c]
  BY <1>1, <1>2 DEF ExchangeInv, ProgressInv, ProgressOf, OwesOne
<1>8. HistoryOf(c)
  BY DEF HistoryInv
<1>9. /\ Len(asked[c]) \in Nat /\ Len(answers[c]) \in Nat
      /\ Len(answers[c]) < Len(asked[c])
      /\ Sound(c) => /\ Len(answers'[c]) = Len(answers[c]) + 1
                     /\ answers'[c][Len(answers[c]) + 1] = e
                     /\ \A i \in 1 .. Len(answers[c]) : answers'[c][i] = answers[c][i]
  <2>1. Len(asked[c]) \in Nat /\ Len(answers[c]) \in Nat
    BY <1>6
  <2>2. Len(answers[c]) < Len(asked[c])
    BY <1>1, <1>8 DEF HistoryOf, AnswersBehind
  <2>3. PICK longer : longer = Append(answers[c], e)
    OBVIOUS
  <2>4. /\ Len(longer) = Len(answers[c]) + 1
        /\ longer[Len(answers[c]) + 1] = e
        /\ \A i \in 1 .. Len(answers[c]) : longer[i] = answers[c][i]
    BY <1>6, <2>3, AppendFacts
  <2>5. Sound(c) => answers'[c] = longer
    BY <1>3, <2>3
  <2> QED
    BY <2>1, <2>2, <2>4, <2>5
<1>10. AnswersBehind(c)'
  BY <1>1, <1>3, <1>7, <1>9 DEF AnswersBehind
\* Where the connection is not to be closed, the request that has just been
\* answered is one that it survives.
<1>11. ClosingHeeded(c)' /\ CloseExplained(c)'
  <2> SUFFICES ASSUME c \in Sounding', ~closing'[c],
                      NEW i \in before'[c] + 1 .. Len(answers'[c])
               PROVE  \E j \in i .. Len(answers'[c]) : Survives(asked'[c][j].req)
    BY <1>1, <1>2 DEF ClosingHeeded, CloseExplained
  <2>1. Sound(c)
    BY <1>1, <1>2, <1>3 DEF Sounding
  <2>2. Survives(req[c])
    BY <1>3 DEF Survives, AsksToClose, Closes, ExchangeInv, DataInv, DataTypeOK, RequestForm
  <2>3. Len(answers'[c]) = Len(asked[c]) /\ asked'[c][Len(asked[c])].req = req[c]
    BY <2>1, <1>1, <1>7, <1>9
  <2>4. before'[c] \in Nat
    BY <1>1 DEF ExchangeInv, DataInv, DataTypeOK
  <2>5. Len(asked[c]) \in i .. Len(answers'[c])
    BY <2>3, <2>4, <1>9
  <2> QED
    BY <2>2, <2>3, <2>5
\* What explains a skip_body that is set.
<1>12. Sound(c) /\ skipBody[c] =>
         \/ req[c].head
         \/ \E j \in 1 .. Len(answers[c]) :
              /\ asked[c][j].req.head
              /\ \A k \in j .. Len(answers[c]) : answers[c][k].code = 400
  BY <1>2, <1>8 DEF HistoryOf, SkipExplained
<1>13. SkipExplained(c)'
  <2> SUFFICES ASSUME c \in Sounding', skipBody'[c]
               PROVE  \E j \in 1 .. Len(answers'[c]) :
                        /\ asked'[c][j].req.head
                        /\ \A k \in j .. Len(answers'[c]) : answers'[c][k].code = 400
    BY DEF SkipExplained
  <2>1. Sound(c) /\ skipBody[c] /\ e.code = 400
    BY <1>1, <1>2, <1>3, <1>4 DEF Sounding
  <2>2. CASE req[c].head
    <3>1. /\ Len(answers'[c]) = Len(asked[c]) /\ Len(asked[c]) \in 1 .. Len(answers'[c])
          /\ asked'[c][Len(asked[c])].req.head
          /\ answers'[c][Len(asked[c])].code = 400
      BY <2>1, <2>2, <1>1, <1>7, <1>9
    <3>2. \A k \in Len(asked[c]) .. Len(answers'[c]) : k = Len(asked[c])
      BY <3>1, <1>9
    <3> QED
      BY <3>1, <3>2
  <2>3. ASSUME NEW j \in 1 .. Len(answers[c]), asked[c][j].req.head,
               \A k \in j .. Len(answers[c]) : answers[c][k].code = 400
        PROVE  /\ j \in 1 .. Len(answers'[c]) /\ asked'[c][j].req.head
               /\ \A k \in j .. Len(answers'[c]) : answers'[c][k].code = 400
    <3>1. j \in 1 .. Len(answers'[c]) /\ asked'[c][j].req.head
      BY <2>1, <2>3, <1>1, <1>9
    <3>2. ASSUME NEW k \in j .. Len(answers'[c])
          PROVE  answers'[c][k].code = 400
      <4>1. k \in 1 .. Len(answers[c]) \/ k = Len(answers[c]) + 1
        BY <2>1, <1>9
      <4> QED
        BY <4>1, <2>1, <2>3, <1>9
    <3> QED
      BY <3>1, <3>2
  <2> QED
    BY <2>1, <2>2, <2>3, <1>12
<1>14. BodyExplained(c)'
  <2>1. BodyExplained(c)
    BY <1>8 DEF HistoryOf
  <2>2. CASE Sound(c)
    <3>1. ~e.body => skipBody[c]
      OBVIOUS
    <3>2. PICK q \in Seq(Arrival) : q = asked'[c] /\ q = asked[c]
      BY <1>1, <1>6
    <3>3. ~e.body /\ ~q[Len(answers[c]) + 1].req.head =>
            \E j \in 1 .. Len(answers[c]) :
              /\ asked[c][j].req.head
              /\ \A k \in j .. Len(answers[c]) : answers[c][k].code = 400
      BY <2>2, <3>1, <3>2, <1>7, <1>12
    <3>4. answers'[c] = Append(answers[c], e) /\ Len(answers[c]) + 1 <= Len(q)
      BY <2>2, <3>2, <1>3, <1>7, <1>9
    <3> QED
      BY <2>1, <3>2, <3>3, <3>4, <1>6, BodyStillExplained
  <2>3. CASE ~Sound(c)
    BY <2>1, <2>3, <1>1, <1>3 DEF BodyExplained
  <2> QED
    BY <2>2, <2>3
<1> QED
  BY <1>5, <1>10, <1>11, <1>13, <1>14, OthersHistory DEF HistoryOf

LEMMA UrlHistory ==
  ASSUME ExchangeInv, HistoryInv, NEW c \in Conn, OnUrl(c) \/ OnUrlStart(c) \/ OnUrlRest(c)
  PROVE  HistoryInv'
<1>1. /\ UNCHANGED <<sock, gone, pending, running, closing, before>> /\ Parsing(c)
      /\ parse[c] \in {"start", "mark", "query"}
  BY DEF OnUrl, OnUrlStart, OnUrlRest
<1>2. CASE OnUrl(c)
  <2>1. PICK a \in Arrival :
          /\ asked' = [asked EXCEPT ![c] = Append(@, a)]
          /\ NotFound(c) \/ Found(c, a.req, "head")
    BY <1>2 DEF OnUrl
  <2>2. parse[c] = "start"
    BY <1>2 DEF OnUrl
  <2> QED
    BY <1>1, <2>1, <2>2, FoundHistory, RefusedHistory
<1>3. CASE OnUrlRest(c)
  <2> DEFINE a == [req |-> req[c], cut |-> parse[c]]
  <2>1. a \in Arrival /\ a.req = req[c]
    BY <1>3 DEF OnUrlRest, ExchangeInv, DataInv, CutInv
  <2>2. /\ asked' = [asked EXCEPT ![c] = Append(@, a)]
        /\ NotFound(c) \/ Found(c, a.req, "head")
    BY <1>3 DEF OnUrlRest
  <2> HIDE DEF a
  <2> QED
    BY <1>1, <2>1, <2>2, FoundHistory, RefusedHistory
<1>4. CASE OnUrlStart(c)
  <2>1. PICK a \in Arrival :
          \/ /\ asked' = [asked EXCEPT ![c] = Append(@, a)]
             /\ NotFound(c)
          \/ /\ a.cut \in {"mark", "query"}
             /\ Found(c, a.req, a.cut)
             /\ UNCHANGED asked
    BY <1>4 DEF OnUrlStart
  <2>2. parse[c] = "start"
    BY <1>4 DEF OnUrlStart
  <2> QED
    BY <1>1, <2>1, <2>2, FoundHistory, RefusedHistory
<1> QED
  BY <1>2, <1>3, <1>4

LEMMA HandlerHistory ==
  ASSUME ExchangeInv, HistoryInv, NEW c \in Conn,
         Handle_Nameless(c) \/ Handle_Route(c) \/ Handle_Stream(c)
  PROVE  HistoryInv'
<1>1. CASE Handle_Nameless(c)
  <2>1. PICK e \in AnswerForm : e = [code |-> 400, body |-> TRUE]
    BY DEF AnswerForm
  <2>2. /\ Addressed(c) /\ Clear(c) /\ sock' = sock /\ skipBody' = skipBody
        /\ answers' = IF Sound(c) THEN [answers EXCEPT ![c] = Append(@, e)] ELSE answers
    BY <1>1, <2>1 DEF Handle_Nameless, Sent
  <2>3. e.code = 400 /\ e.body
    BY <2>1
  <2> QED
    BY <2>2, <2>3, AnsweredHistory
<1>2. CASE Handle_Route(c)
  <2>1. PICK code \in {200, 500} : Sent(c, code, code = 500 \/ ~skipBody[c])
    BY <1>2 DEF Handle_Route
  <2>2. PICK e \in AnswerForm : e = [code |-> code, body |-> code = 500 \/ ~skipBody[c]]
    <3>1. [code |-> code, body |-> code = 500 \/ ~skipBody[c]] \in AnswerForm
      BY DEF AnswerForm
    <3> QED
      BY <3>1
  <2>3. /\ Addressed(c) /\ Clear(c) /\ sock' = sock
        /\ skipBody' = [skipBody EXCEPT ![c] = FALSE]
        /\ answers' = IF Sound(c) THEN [answers EXCEPT ![c] = Append(@, e)] ELSE answers
    BY <1>2, <2>1, <2>2 DEF Handle_Route, Sent
  <2>4. skipBody[c] \/ e.body
    BY <2>2
  <2>5. \/ skipBody' = skipBody /\ (e.code = 400 \/ ~skipBody[c]) /\ e.body
        \/ skipBody' = [skipBody EXCEPT ![c] = FALSE] /\ (skipBody[c] \/ e.body)
    BY <2>3, <2>4
  <2>6. sock' = sock \/ (Sound(c) /\ sock' = [sock EXCEPT ![c] = "closed"])
    BY <2>3
  <2> QED
    BY <2>3, <2>5, <2>6, AnsweredHistory, Zenon
<1>3. CASE Handle_Stream(c)
  <2>1. PICK e \in AnswerForm : e = [code |-> 200, body |-> TRUE]
    BY DEF AnswerForm
  <2>2. /\ Addressed(c) /\ Clear(c) /\ ~skipBody[c] /\ skipBody' = skipBody
        /\ sock' = sock \/ (Sound(c) /\ sock' = [sock EXCEPT ![c] = "closed"])
        /\ answers' = IF Sound(c) THEN [answers EXCEPT ![c] = Append(@, e)] ELSE answers
    BY <1>3, <2>1 DEF Handle_Stream, Sent
  <2>3. e.body
    BY <2>1
  <2> QED
    BY <2>2, <2>3, AnsweredHistory
<1> QED
  BY <1>1, <1>2, <1>3

LEMMA InitHistory == Init => HistoryInv
  BY DEF Init, HistoryInv, HistoryOf, AnswersBehind, ClosingHeeded, CloseExplained,
         SkipExplained, BodyExplained

LEMMA NextHistory ==
  ASSUME ExchangeInv, HistoryInv, [Next]_vars
  PROVE  HistoryInv'
<1>1. CASE \/ UNCHANGED vars \/ Elapse \/ Tick
           \/ \E c \in Conn : Accept(c) \/ Reset(c) \/ Start(c)
  BY <1>1, CalmHistory
<1>2. ASSUME NEW c \in Conn, ReadSome(c) \/ ReadError(c) \/ EndRead(c) \/ Handle_Throws(c)
      PROVE  HistoryInv'
  BY <1>2, ReadHistory
<1>3. ASSUME NEW c \in Conn, OnUrl(c) \/ OnUrlStart(c) \/ OnUrlRest(c)
      PROVE  HistoryInv'
  BY <1>3, UrlHistory
<1>4. ASSUME NEW c \in Conn, OnHeaders(c) \/ OnGarbage(c)
      PROVE  HistoryInv'
  BY <1>4, CallbackHistory
<1>5. ASSUME NEW c \in Conn, Handle_Upgrade(c) \/ Handle_StreamFails(c)
      PROVE  HistoryInv'
  BY <1>5, UnansweredHistory
<1>6. ASSUME NEW c \in Conn, Handle_Nameless(c) \/ Handle_Route(c) \/ Handle_Stream(c)
      PROVE  HistoryInv'
  BY <1>6, HandlerHistory
<1> QED
  BY <1>1, <1>2, <1>3, <1>4, <1>5, <1>6 DEF Next

LEMMA HistoryInvariant == Spec => [](ExchangeInv /\ HistoryInv)
<1>1. Spec => []DataInv
  BY DataInvariant
<1>2. Spec => []DeadlineInv
  BY DeadlineInvariant
<1>3. Init /\ DataInv /\ DeadlineInv => ProgressInv /\ HistoryInv
  BY InitExchange, InitHistory DEF ExchangeInv
<1>4. ASSUME DataInv, DeadlineInv, ProgressInv, HistoryInv, [Next]_vars
      PROVE  ProgressInv' /\ HistoryInv'
  BY <1>4, NextExchange, NextHistory DEF ExchangeInv, DeadlineInv
<1>5. DataInv /\ DeadlineInv /\ ProgressInv => ExchangeInv
  BY DEF ExchangeInv, DeadlineInv
<1> QED
  BY <1>1, <1>2, <1>3, <1>4, <1>5, PTL DEF Spec

\* The body of an answer is left out for a request other than a HEAD only after
\* a HEAD that was answered 400, whatever the client sends and however it comes.
THEOREM BodyLostOnlyAfterBareHead == Spec => []BodyLostOnlyToBareHead
<1>1. HistoryInv => BodyLostOnlyToBareHead
  BY DEF HistoryInv, HistoryOf, BodyExplained, BodyLostOnlyToBareHead
<1> QED
  BY <1>1, HistoryInvariant, PTL

\* A client whose request for the close was answered is waited for only where a
\* request that the connection survives was answered in the same read and not
\* before it: what set_connection_parameters says is never lost between a read
\* and its end, whatever requests, versions and errors come.
THEOREM ClosedAsAsked == Spec => []NoWaitAfterClose
<1>1. ASSUME ExchangeInv, HistoryInv, NEW c \in Conn, Waiting(c), c \notin gone,
             NEW i \in before[c] + 1 .. Len(answers[c]), AsksToClose(asked[c][i].req)
      PROVE  \E j \in i .. Len(answers[c]) : Survives(asked[c][j].req)
  <2>1. running # c /\ c \in Sounding
    BY <1>1 DEF Waiting, Sounding, ExchangeInv, PlaceInv
  <2>2. CloseExplained(c) /\ ~closing[c] /\ ~RefusedNow(c)
    BY <1>1, <2>1 DEF HistoryInv, HistoryOf, ClosingHeeded, RefusedNow
  <2> QED
    BY <1>1, <2>1, <2>2 DEF CloseExplained
<1>2. ExchangeInv /\ HistoryInv => NoWaitAfterClose
  BY <1>1 DEF NoWaitAfterClose
<1> QED
  BY <1>2, HistoryInvariant, PTL

=============================================================================
