-------------------------- MODULE WorkerPoolProofs --------------------------
(***************************************************************************)
(* What the pool guarantees for every number of workers and every finite   *)
(* set of connections.                                                     *)
(***************************************************************************)
EXTENDS WorkerPool, NaturalLemmas, FiniteSetTheorems, TLAPS

\* The worker that is picked is the first of those with the lowest count.
LEMMA PickedIsLowest ==
  ASSUME NEW counts \in [Worker -> Nat]
  PROVE  /\ Picked(counts) \in Worker
         /\ \A v \in Worker : counts[Picked(counts)] <= counts[v]
         /\ \A v \in 1..(Picked(counts) - 1) : counts[Picked(counts)] < counts[v]
<1> DEFINE lowest == {w \in Worker : \A v \in Worker : counts[w] <= counts[v]}
<1>1. \E w \in Worker : \A v \in Worker : counts[w] <= counts[v]
  <2> DEFINE S == {counts[w] : w \in Worker}
  <2>1. S \subseteq Nat /\ S # {}
    BY PoolAssumption DEF Worker
  <2>2. PICK n \in S : \A j \in S : n <= j
    BY <2>1, LeastElement
  <2> QED
    BY <2>2
<1>2. lowest \subseteq Nat /\ lowest # {}
  BY <1>1, PoolAssumption DEF Worker
<1>3. PICK w \in lowest : \A v \in lowest : w <= v
  BY <1>2, LeastElement
<1>4. ASSUME NEW v \in 1..(w - 1)
      PROVE  counts[w] < counts[v]
  <2>1. v \in Worker /\ ~ (w <= v)
    BY <1>3, PoolAssumption DEF Worker
  <2>2. v \notin lowest
    BY <1>3, <2>1
  <2>3. PICK u \in Worker : ~ (counts[v] <= counts[u])
    BY <2>1, <2>2
  <2>4. counts[w] <= counts[u] /\ counts[w] \in Nat /\ counts[u] \in Nat /\ counts[v] \in Nat
    BY <1>3, <2>1, <2>3
  <2> QED
    BY <2>3, <2>4
<1>5. \E x \in Worker : /\ \A v \in Worker : counts[x] <= counts[v]
                        /\ \A v \in 1..(x - 1) : counts[x] < counts[v]
  BY <1>3, <1>4
<1> QED
  BY <1>5 DEF Picked

\* Until the workers are waited for nothing is given to any; from then on each
\* has published its timer.
PhaseInv ==
  /\ \A w \in Worker : w \in timerSet <=> thread[w] # "starting"
  /\ main = "waiting" => /\ target = 0
                         /\ \A c \in Conn : owner[c] = 0
                         /\ \A w \in Worker : count[w] = 0
  /\ main # "waiting" => target \in Worker /\ timerSet = Worker

\* Once accepting has begun, a worker's count is the number of connections that
\* it was ever given, the one being accepted included: failing accepts leave no
\* trace, and the end of a connection does not lower it.
CountIsGiven ==
  main # "waiting" =>
    \A w \in Worker :
      count[w] = Cardinality(Given(w)) + (IF target = w THEN 1 ELSE 0)

\* No worker is given two connections more than another.
Balanced == \A v, w \in Worker : count[v] <= count[w] + 1

\* The worker that is next was one of those with the fewest connections, and
\* without the connection being accepted no two differ by more than one.
LowestInv ==
  main # "waiting" =>
    LET base(w) == count[w] - (IF target = w THEN 1 ELSE 0)
    IN  /\ \A w \in Worker : base(target) <= base(w)
        /\ \A v, w \in Worker : base(v) <= base(w) + 1

\* stop() stops the io_contexts in order.
HaltInv ==
  /\ \E k \in 0..Workers : halted = 1..k
  /\ main \in {"waiting", "accepting"} => halted = {}
  /\ main = "stopping" => halted # Worker
  /\ StopReachesAll

\* The inductive invariant.
PoolInv == TypeOK /\ PhaseInv /\ CountIsGiven /\ LowestInv /\ HaltInv

\* With the connection being accepted counts still differ by at most one: it
\* was given to a worker that had the fewest.
LEMMA BalancedFollows == PoolInv => Balanced
<1> SUFFICES ASSUME PoolInv, NEW v \in Worker, NEW w \in Worker
             PROVE  count[v] <= count[w] + 1
  BY DEF Balanced
<1>1. CASE main = "waiting"
  BY <1>1 DEF PoolInv, PhaseInv
<1>2. CASE main # "waiting"
  <2>1. /\ target \in Worker
        /\ count[v] \in Nat /\ count[w] \in Nat /\ count[target] \in Nat
    BY <1>2 DEF PoolInv, PhaseInv, TypeOK
  <2>2. /\ count[target] - 1 <= count[w] - (IF target = w THEN 1 ELSE 0)
        /\ count[v] - (IF target = v THEN 1 ELSE 0)
             <= count[w] - (IF target = w THEN 1 ELSE 0) + 1
    BY <1>2, <2>1 DEF PoolInv, LowestInv
  <2>3. CASE target = v
    BY <2>1, <2>2, <2>3
  <2>4. CASE target # v
    BY <2>1, <2>2, <2>4
  <2> QED
    BY <2>3, <2>4
<1> QED
  BY <1>1, <1>2

\* The invariant holds at the start.
LEMMA PoolInitInv == Init => PoolInv
<1> SUFFICES ASSUME Init
             PROVE  PoolInv
  OBVIOUS
<1>1. TypeOK
  BY PoolAssumption DEF Init, TypeOK, Worker
<1>2. PhaseInv
  BY DEF Init, PhaseInv
<1>3. CountIsGiven /\ LowestInv
  BY DEF Init, CountIsGiven, LowestInv
<1>4. HaltInv
  <2>1. 0 \in 0..Workers /\ 1..0 = {}
    BY PoolAssumption
  <2> QED
    BY <2>1 DEF Init, HaltInv, StopReachesAll
<1> QED
  BY <1>1, <1>2, <1>3, <1>4 DEF PoolInv

\* do_accept, from counts that are those of the connections given so far and
\* differ by at most one.
LEMMA DoAcceptStep ==
  ASSUME NEW counts \in [Worker -> Nat],
         \A v, w \in Worker : counts[v] <= counts[w] + 1,
         DoAccept(counts)
  PROVE  /\ target' \in Worker
         /\ count' \in [Worker -> Nat]
         /\ \A w \in Worker : counts[w] = count'[w] - (IF target' = w THEN 1 ELSE 0)
         /\ main' # "waiting" => LowestInv'
<1>1. target' \in Worker /\ \A v \in Worker : counts[target'] <= counts[v]
  BY PickedIsLowest DEF DoAccept
<1>2. count' = [counts EXCEPT ![target'] = @ + 1]
  BY DEF DoAccept
<1>3. \A w \in Worker : counts[w] = count'[w] - (IF target' = w THEN 1 ELSE 0)
  BY <1>1, <1>2
<1>4. main' # "waiting" => LowestInv'
  BY <1>1, <1>3 DEF LowestInv
<1> QED
  BY <1>1, <1>2, <1>3, <1>4

\* A step of the main thread.
LEMMA BeginAcceptingStep ==
  ASSUME PoolInv, BeginAccepting
  PROVE  PoolInv'
<1> USE DEF PoolInv
<1>1. /\ target' \in Worker
      /\ count' \in [Worker -> Nat]
      /\ \A w \in Worker : count[w] = count'[w] - (IF target' = w THEN 1 ELSE 0)
      /\ LowestInv'
  <2>1. \A v, w \in Worker : count[v] <= count[w] + 1
    BY DEF BeginAccepting, PhaseInv
  <2>2. count \in [Worker -> Nat] /\ DoAccept(count) /\ main' # "waiting"
    BY DEF BeginAccepting, TypeOK
  <2> QED
    BY ONLY <2>1, <2>2, DoAcceptStep
<1>2. TypeOK'
  <2>1. target' \in 0..Workers
    BY <1>1, PoolAssumption DEF Worker
  <2> QED
    BY <1>1, <2>1 DEF BeginAccepting, TypeOK
<1>3. PhaseInv'
  BY <1>1 DEF BeginAccepting, PhaseInv
<1>4. CountIsGiven'
  <2>1. ASSUME NEW w \in Worker
        PROVE  Cardinality(Given(w)') = 0
    <3>1. Given(w)' = {}
      BY <2>1 DEF BeginAccepting, PhaseInv, Given, Worker
    <3> QED
      BY <3>1, FS_EmptySet
  <2>2. \A w \in Worker : count[w] = 0
    BY DEF BeginAccepting, PhaseInv
  <2> QED
    BY <1>1, <2>1, <2>2 DEF CountIsGiven
<1>5. HaltInv'
  BY DEF BeginAccepting, HaltInv, StopReachesAll
<1> QED
  BY <1>1, <1>2, <1>3, <1>4, <1>5

\* A connection is accepted.
LEMMA AcceptedStep ==
  ASSUME PoolInv, NEW c \in Conn, Accepted(c)
  PROVE  PoolInv'
<1> USE DEF PoolInv
<1>0. main = "accepting" /\ main' = main /\ target \in Worker /\ 0 \notin Worker
  BY DEF Accepted, PhaseInv, Worker
<1>1. /\ target' \in Worker
      /\ count' \in [Worker -> Nat]
      /\ \A w \in Worker : count[w] = count'[w] - (IF target' = w THEN 1 ELSE 0)
      /\ LowestInv'
  <2>1. \A v, w \in Worker : count[v] <= count[w] + 1
    BY BalancedFollows DEF Balanced
  <2> QED
    BY <1>0, <2>1, DoAcceptStep DEF Accepted, TypeOK
<1>2. TypeOK'
  <2>1. posted' \in [Worker -> Seq(Conn)]
    <3>1. Append(posted[target], c) \in Seq(Conn)
      BY <1>0 DEF TypeOK
    <3> QED
      BY <3>1 DEF Accepted, TypeOK
  <2>2. \A w \in Worker : w \in 0..Workers
    BY PoolAssumption DEF Worker
  <2>3. owner' \in [Conn -> 0..Workers] /\ target' \in 0..Workers
    BY <1>0, <1>1, <2>2 DEF Accepted, TypeOK
  <2> QED
    BY <1>1, <2>1, <2>3 DEF Accepted, TypeOK
<1>3. PhaseInv'
  BY <1>0, <1>1 DEF Accepted, PhaseInv
<1>4. CountIsGiven'
  <2>1. ASSUME NEW w \in Worker
        PROVE  Cardinality(Given(w)') = count[w]
    <3>1. IsFiniteSet(Given(w))
      <4>1. Given(w) \in SUBSET Conn
        BY DEF Given
      <4> QED
        BY <4>1, PoolAssumption, FS_Subset
    <3>2. CASE w = target
      <4>1. Given(w)' = Given(w) \cup {c} /\ c \notin Given(w)
        BY <1>0, <3>2 DEF Accepted, Given, TypeOK
      <4>2. Cardinality(Given(w)') = Cardinality(Given(w)) + 1
        BY <3>1, <4>1, FS_AddElement
      <4> QED
        BY <1>0, <3>2, <4>2 DEF CountIsGiven
    <3>3. CASE w # target
      <4>1. Given(w)' = Given(w)
        BY <1>0, <2>1, <3>3 DEF Accepted, Given, TypeOK
      <4>2. Cardinality(Given(w)) \in Nat
        BY <3>1, FS_CardinalityType
      <4> QED
        BY <1>0, <3>3, <4>1, <4>2 DEF CountIsGiven
    <3> QED
      BY <3>2, <3>3
  <2> QED
    BY <1>1, <2>1 DEF CountIsGiven
<1>5. HaltInv'
  BY DEF Accepted, HaltInv, StopReachesAll
<1> QED
  BY <1>1, <1>2, <1>3, <1>4, <1>5

\* Accepting fails: the counts are what they were before it was begun.
LEMMA AcceptFailsStep ==
  ASSUME PoolInv, AcceptFails
  PROVE  PoolInv'
<1> USE DEF PoolInv
<1> DEFINE counts == [count EXCEPT ![target] = @ - 1]
<1>0. main = "accepting" /\ main' = main /\ target \in Worker
  BY DEF AcceptFails, PhaseInv
<1>1. \A w \in Worker : Cardinality(Given(w)) \in Nat /\ counts[w] = Cardinality(Given(w))
  <2> SUFFICES ASSUME NEW w \in Worker
               PROVE  Cardinality(Given(w)) \in Nat /\ counts[w] = Cardinality(Given(w))
    OBVIOUS
  <2>1. Given(w) \in SUBSET Conn
    BY DEF Given
  <2>2. Cardinality(Given(w)) \in Nat
    BY <2>1, PoolAssumption, FS_Subset, FS_CardinalityType
  <2> QED
    BY <1>0, <2>2 DEF CountIsGiven, TypeOK
<1>2. counts \in [Worker -> Nat]
  BY <1>1 DEF TypeOK
<1>3. \A v, w \in Worker : counts[v] <= counts[w] + 1
  BY <1>0 DEF LowestInv, TypeOK
<1>4. DoAccept(counts)
  BY DEF AcceptFails
<1> HIDE DEF counts
<1>5. /\ target' \in Worker
      /\ count' \in [Worker -> Nat]
      /\ \A w \in Worker : counts[w] = count'[w] - (IF target' = w THEN 1 ELSE 0)
      /\ LowestInv'
  BY ONLY <1>0, <1>2, <1>3, <1>4, DoAcceptStep
<1>6. TypeOK'
  <2>1. target' \in 0..Workers
    BY <1>5, PoolAssumption DEF Worker
  <2>2. errors' \in 0..MaxErrors
    BY PoolAssumption DEF AcceptFails, TypeOK
  <2> QED
    BY <1>5, <2>1, <2>2 DEF AcceptFails, TypeOK
<1>7. PhaseInv'
  BY <1>0, <1>5 DEF AcceptFails, PhaseInv
<1>8. CountIsGiven'
  <2>1. \A w \in Worker : Given(w)' = Given(w)
    BY DEF AcceptFails, Given
  <2> QED
    BY <1>1, <1>5, <2>1 DEF CountIsGiven
<1>9. HaltInv'
  BY DEF AcceptFails, HaltInv, StopReachesAll
<1> QED
  BY <1>5, <1>6, <1>7, <1>8, <1>9

\* stop() stops one more io_context.
LEMMA HaltStep ==
  ASSUME PoolInv, Halt
  PROVE  PoolInv'
<1> USE DEF PoolInv
<1>1. PICK k \in 0..Workers : halted = 1..k
  BY DEF HaltInv, StopReachesAll
<1>2. k \in 0..(Workers - 1)
  BY <1>1, PoolAssumption DEF HaltInv, StopReachesAll, Halt, Worker
<1>3. Cardinality(halted) = k
  BY <1>1, PoolAssumption, FS_Interval
<1>4. /\ halted' = 1..(k + 1)
      /\ main' = IF k + 1 = Workers THEN "joining" ELSE "stopping"
  BY <1>1, <1>2, <1>3, PoolAssumption DEF Halt
<1>5. TypeOK'
  <2>1. halted' \subseteq Worker
    BY <1>2, <1>4, PoolAssumption DEF Worker
  <2>2. main' \in {"joining", "stopping"}
    BY <1>4
  <2> QED
    BY <2>1, <2>2 DEF Halt, TypeOK
<1>6. PhaseInv' /\ CountIsGiven' /\ LowestInv'
  BY <1>4 DEF Halt, PhaseInv, CountIsGiven, LowestInv, Given
<1>7. HaltInv'
  <2>1. k + 1 \in 0..Workers /\ (main' = "stopping" => Workers \notin 1..(k + 1))
    BY <1>2, <1>4, PoolAssumption
  <2>2. StopReachesAll'
    <3>1. main' \in {"joining", "over"} => k + 1 = Workers
      BY <1>4
    <3>2. thread' = thread /\ halted \subseteq halted'
      BY <1>4 DEF Halt
    <3> QED
      BY <1>4, <3>1, <3>2 DEF HaltInv, StopReachesAll, Worker
  <2>3. main' \notin {"waiting", "accepting"}
    BY <1>4
  <2> QED
    BY <1>4, <2>1, <2>2, <2>3, PoolAssumption DEF HaltInv, Worker
<1> QED
  BY <1>5, <1>6, <1>7

\* Nothing of the counts changes in the other steps of the main thread and of
\* the workers, but for the count that a starting worker clears.
LEMMA PlainStep ==
  ASSUME PoolInv,
         Signal \/ Join \/ \E w \in Worker : Begin(w) \/ Run(w) \/ Return(w) \/ Throw(w) \/ End(w)
  PROVE  PoolInv'
<1> USE DEF PoolInv
<1>1. CASE Signal
  <2>1. HaltInv'
    BY <1>1, PoolAssumption DEF Signal, HaltInv, StopReachesAll, Worker
  <2> QED
    BY <1>1, <2>1 DEF Signal, TypeOK, PhaseInv, CountIsGiven, LowestInv, Given
<1>2. CASE Join
  <2>1. /\ main = "joining" /\ main' = "over"
        /\ UNCHANGED <<timerSet, count, target, owner, posted, thread, halted, errors>>
    BY <1>2 DEF Join
  <2>2. TypeOK' /\ PhaseInv'
    BY <2>1 DEF TypeOK, PhaseInv
  <2>3. CountIsGiven' /\ LowestInv'
    BY <2>1 DEF CountIsGiven, LowestInv, Given
  <2>4. HaltInv'
    BY <2>1 DEF HaltInv, StopReachesAll
  <2> QED
    BY <2>2, <2>3, <2>4
<1>3. ASSUME NEW w \in Worker, Begin(w)
      PROVE  PoolInv'
  <2>1. main = "waiting" /\ count' = count
    BY <1>3 DEF Begin, PhaseInv, TypeOK
  <2>2. TypeOK'
    BY <1>3 DEF Begin, TypeOK
  <2> QED
    BY <1>3, <2>1, <2>2 DEF Begin, TypeOK, PhaseInv, CountIsGiven, LowestInv, HaltInv, StopReachesAll
<1>4. ASSUME NEW w \in Worker, Run(w)
      PROVE  PoolInv'
  <2>1. TypeOK'
    <3>1. Tail(posted[w]) \in Seq(Conn)
      BY <1>4 DEF Run, TypeOK
    <3> QED
      BY <1>4, <3>1 DEF Run, TypeOK
  <2>2. PhaseInv'
    BY <1>4 DEF Run, TypeOK, PhaseInv
  <2>3. CountIsGiven' /\ LowestInv' /\ HaltInv'
    BY <1>4 DEF Run, CountIsGiven, LowestInv, HaltInv, StopReachesAll, Given
  <2> QED
    BY <2>1, <2>2, <2>3
<1>5. ASSUME NEW w \in Worker, Return(w) \/ Throw(w) \/ End(w)
      PROVE  PoolInv'
  <2>1. TypeOK'
    BY <1>5 DEF Return, Throw, End, TypeOK
  <2>2. PhaseInv'
    BY <1>5 DEF Return, Throw, End, TypeOK, PhaseInv
  <2>3. CountIsGiven' /\ LowestInv'
    BY <1>5 DEF Return, Throw, End, CountIsGiven, LowestInv, Given
  <2>4. StopReachesAll'
    <3>1. \A v \in Worker : thread'[v] = "ended" => thread[v] = "ended" \/ v \in halted
      BY <1>5 DEF Return, Throw, End, TypeOK
    <3>2. UNCHANGED <<main, halted>>
      BY <1>5 DEF Return, Throw, End
    <3> QED
      BY <3>1, <3>2 DEF HaltInv, StopReachesAll
  <2>5. HaltInv'
    BY <1>5, <2>4 DEF Return, Throw, End, HaltInv
  <2> QED
    BY <2>1, <2>2, <2>3, <2>5
<1> QED
  BY <1>1, <1>2, <1>3, <1>4, <1>5

\* Every step keeps the invariant.
LEMMA PoolInvStep ==
  ASSUME PoolInv, [Next]_vars
  PROVE  PoolInv'
<1>1. CASE BeginAccepting
  BY <1>1, BeginAcceptingStep
<1>2. CASE AcceptFails
  BY <1>2, AcceptFailsStep
<1>3. CASE Halt
  BY <1>3, HaltStep
<1>4. ASSUME NEW c \in Conn, Accepted(c)
      PROVE  PoolInv'
  BY <1>4, AcceptedStep
<1>5. CASE Signal \/ Join \/ \E w \in Worker : Begin(w) \/ Run(w) \/ Return(w) \/ Throw(w) \/ End(w)
  BY <1>5, PlainStep
<1>6. CASE UNCHANGED vars
  <2>1. TypeOK' /\ PhaseInv'
    BY <1>6 DEF vars, PoolInv, TypeOK, PhaseInv
  <2>2. CountIsGiven' /\ LowestInv' /\ HaltInv'
    BY <1>6 DEF vars, PoolInv, CountIsGiven, LowestInv, HaltInv, StopReachesAll, Given
  <2> QED
    BY <2>1, <2>2 DEF PoolInv
<1> QED
  BY <1>1, <1>2, <1>3, <1>4, <1>5, <1>6 DEF Next

\* The counts, the phases of starting and stopping and the types, for any
\* number of workers and connections.
THEOREM PoolInvariant == Spec => []PoolInv
<1> QED
  BY PoolInitInv, PoolInvStep, PTL DEF Spec

\* Every variable keeps its type.
THEOREM PoolTypes == Spec => []TypeOK
<1>1. PoolInv => TypeOK
  BY DEF PoolInv
<1> QED
  BY <1>1, PoolInvariant, PTL

\* A worker's count is the number of connections that it was ever given.
THEOREM CountsAreGiven == Spec => []CountIsGiven
<1>1. PoolInv => CountIsGiven
  BY DEF PoolInv
<1> QED
  BY <1>1, PoolInvariant, PTL

\* No worker is given a connection before it has published its timer.
THEOREM OnlyReadyWorkers == Spec => []GivenToReady
<1>1. PoolInv => GivenToReady
  <2> SUFFICES ASSUME PoolInv, NEW w \in Worker, target = w \/ Given(w) # {}
               PROVE  thread[w] # "starting"
    BY DEF GivenToReady
  <2>1. main # "waiting"
    BY DEF PoolInv, PhaseInv, Given, Worker
  <2> QED
    BY <2>1 DEF PoolInv, PhaseInv
<1> QED
  BY <1>1, PoolInvariant, PTL

\* No worker is given two connections more than another.
THEOREM FairShares == Spec => []Balanced
  BY BalancedFollows, PoolInvariant, PTL

\* No worker ends before it is stopped, and all are stopped before they are
\* waited for.
THEOREM EveryWorkerStopped == Spec => []StopReachesAll
<1>1. PoolInv => StopReachesAll
  BY DEF PoolInv, HaltInv, StopReachesAll
<1> QED
  BY <1>1, PoolInvariant, PTL

\* Waiting for the workers takes at most two steps of each.
THEOREM JoiningEnds == Spec => StopGetsOn
<1> DEFINE Nearer ==
      main = "joining" =>
        \/ main' = "over"
        \/ \E w \in Worker :
             /\ StepsToEnd(w)' < StepsToEnd(w)
             /\ \A v \in Worker \ {w} : StepsToEnd(v)' = StepsToEnd(v)
<1>1. ASSUME PoolInv, [Next]_vars
      PROVE  [Nearer]_vars
  <2> SUFFICES ASSUME Next, main = "joining", main' # "over"
               PROVE  \E w \in Worker :
                        /\ StepsToEnd(w)' < StepsToEnd(w)
                        /\ \A v \in Worker \ {w} : StepsToEnd(v)' = StepsToEnd(v)
    BY <1>1
  <2>1. /\ halted = Worker
        /\ \A w \in Worker : thread[w] # "starting"
        /\ thread \in [Worker -> {"starting", "running", "handling", "ended"}]
    BY <1>1 DEF PoolInv, HaltInv, StopReachesAll, PhaseInv, TypeOK
  <2>2. PICK w \in Worker : Return(w) \/ Throw(w) \/ End(w)
    BY <2>1 DEF Next, BeginAccepting, AcceptFails, Signal, Halt, Join, Accepted, Begin, Run
  <2>3. \/ thread[w] = "handling" /\ thread'[w] = "running"
        \/ thread[w] = "running" /\ thread'[w] = "ended"
    BY <2>1, <2>2 DEF Return, Throw, End
  <2>4. \A v \in Worker \ {w} : thread'[v] = thread[v]
    BY <2>1, <2>2 DEF Return, Throw, End
  <2>5. StepsToEnd(w)' < StepsToEnd(w)
    BY <2>3 DEF StepsToEnd
  <2>6. \A v \in Worker \ {w} : StepsToEnd(v)' = StepsToEnd(v)
    BY <2>4 DEF StepsToEnd
  <2> QED
    BY <2>5, <2>6
<1>2. Spec => [][Next]_vars
  BY DEF Spec
<1> HIDE DEF Nearer
<1>3. Spec => [][Nearer]_vars
  BY <1>1, <1>2, PoolInvariant, PTL
<1> QED
  BY <1>3 DEF StopGetsOn, Nearer

-----------------------------------------------------------------------------
\* There is one first worker with the lowest count.
LEMMA PickedIsThat ==
  ASSUME NEW counts \in [Worker -> Nat], NEW t \in Worker,
         \A v \in Worker : counts[t] <= counts[v],
         \A v \in 1..(t - 1) : counts[t] < counts[v]
  PROVE  Picked(counts) = t
<1>1. PICK p : p = Picked(counts)
  OBVIOUS
<1>2. /\ p \in Worker
      /\ \A v \in Worker : counts[p] <= counts[v]
      /\ \A v \in 1..(p - 1) : counts[p] < counts[v]
  BY <1>1, PickedIsLowest
<1>3. counts[p] \in Nat /\ counts[t] \in Nat /\ p \in Nat /\ t \in Nat
      /\ p >= 1 /\ t >= 1
  BY <1>2, PoolAssumption DEF Worker
<1>4. counts[p] <= counts[t] /\ counts[t] <= counts[p]
  BY <1>2
<1>5. ~ (p < t)
  <2> SUFFICES ASSUME p < t PROVE FALSE
    OBVIOUS
  <2>1. p \in 1..(t - 1)
    BY <1>3
  <2> QED
    BY <1>3, <1>4, <2>1
<1>6. ~ (t < p)
  <2> SUFFICES ASSUME t < p PROVE FALSE
    OBVIOUS
  <2>1. t \in 1..(p - 1)
    BY <1>3
  <2> QED
    BY <1>2, <1>3, <1>4, <2>1
<1> QED
  BY <1>1, <1>3, <1>5, <1>6

\* Without the connection being accepted, the workers before the one whose turn
\* it is are one ahead of the others.
TurnInv ==
  main # "waiting" =>
    \A w \in Worker : count[w] - (IF target = w THEN 1 ELSE 0)
                        = count[target] - 1 + (IF w < target THEN 1 ELSE 0)

\* A connection that is posted is posted once, to the worker it was given to.
PostedInv ==
  \A w \in Worker : \A i \in 1..Len(posted[w]) :
    /\ owner[posted[w][i]] = w
    /\ \A j \in 1..Len(posted[w]) : posted[w][j] = posted[w][i] => j = i

\* do_accept leaves the turn with the worker that it picks, when those before
\* that one are one ahead.
LEMMA DoAcceptTurn ==
  ASSUME NEW counts \in [Worker -> Nat], NEW t \in Worker, NEW n \in Nat,
         \A w \in Worker : counts[w] = n + (IF w < t THEN 1 ELSE 0),
         DoAccept(counts)
  PROVE  target' = t /\ TurnInv'
<1>1. t \in Nat /\ \A v \in Worker : v \in Nat
  BY PoolAssumption DEF Worker
<1>2. counts[t] = n /\ \A v \in Worker : counts[t] <= counts[v]
  BY <1>1
<1>3. \A v \in 1..(t - 1) : counts[t] < counts[v]
  <2> TAKE v \in 1..(t - 1)
  <2>1. v \in Worker /\ v < t
    BY <1>1, PoolAssumption DEF Worker
  <2> QED
    BY <1>2, <2>1
<1>4. Picked(counts) = t
  BY <1>2, <1>3, PickedIsThat
<1>5. target' = t /\ count' = [counts EXCEPT ![t] = @ + 1]
  BY <1>4 DEF DoAccept
<1>6. \A w \in Worker : count'[w] - (IF t = w THEN 1 ELSE 0) = counts[w]
  BY <1>5
<1>7. count'[t] - 1 = n
  BY <1>2, <1>6
<1>8. TurnInv'
  BY <1>5, <1>6, <1>7 DEF TurnInv
<1> QED
  BY <1>5, <1>8

\* What a step makes of the turns.
NextTurn == target' = IF target = Workers THEN 1 ELSE target + 1

LEMMA BeginAcceptingTurn ==
  ASSUME PoolInv, BeginAccepting
  PROVE  target = 0 /\ target' = 1 /\ TurnInv'
<1>1. target = 0 /\ \A w \in Worker : count[w] = 0
  BY DEF PoolInv, PhaseInv, BeginAccepting
<1>2. 1 \in Worker /\ \A w \in Worker : ~ (w < 1)
  BY PoolAssumption DEF Worker
<1>3. count \in [Worker -> Nat] /\ DoAccept(count)
  BY DEF PoolInv, TypeOK, BeginAccepting
<1>4. \A w \in Worker : count[w] = 0 + (IF w < 1 THEN 1 ELSE 0)
  BY <1>1, <1>2
<1>5. 0 \in Nat
  OBVIOUS
<1> QED
  BY <1>1, <1>2, <1>3, <1>4, <1>5, DoAcceptTurn

LEMMA AcceptedTurn ==
  ASSUME PoolInv, TurnInv, NEW c \in Conn, Accepted(c)
  PROVE  target # 0 /\ NextTurn /\ TurnInv'
<1>1. /\ main # "waiting" /\ target \in Worker /\ target # 0
      /\ count \in [Worker -> Nat] /\ DoAccept(count)
  BY DEF PoolInv, PhaseInv, TypeOK, Accepted, Worker
<1>2. PICK n : n = count[target] - 1
  OBVIOUS
<1>3. \A w \in Worker : count[w] - (IF target = w THEN 1 ELSE 0)
                          = n + (IF w < target THEN 1 ELSE 0)
  BY <1>1, <1>2 DEF TurnInv
<1>4. n \in Int /\ \A w \in Worker : w \in Nat /\ count[w] \in Nat
  BY <1>1, <1>2, PoolAssumption DEF Worker
<1>5. \A w \in Worker : count[w] = n + (IF w <= target THEN 1 ELSE 0)
  BY <1>1, <1>3, <1>4
<1>6. CASE target = Workers
  <2>1. \A w \in Worker : w <= target /\ ~ (w < 1)
    BY <1>6, PoolAssumption DEF Worker
  <2>2. \A w \in Worker : count[w] = (n + 1) + (IF w < 1 THEN 1 ELSE 0)
    BY <1>4, <1>5, <2>1
  <2>3. n + 1 \in Nat
    BY <1>1, <1>2
  <2>4. 1 \in Worker
    BY PoolAssumption DEF Worker
  <2>5. PICK k : k = n + 1
    OBVIOUS
  <2>6. target' = 1 /\ TurnInv'
    BY <1>1, <2>2, <2>3, <2>4, <2>5, DoAcceptTurn
  <2> QED
    BY <1>1, <1>6, <2>6 DEF NextTurn
<1>7. CASE target # Workers
  <2>1. PICK t : t = target + 1
    OBVIOUS
  <2>2. t \in Worker
    BY <1>1, <1>7, <2>1, PoolAssumption DEF Worker
  <2>3. \A w \in Worker : w < t <=> w <= target
    BY <1>1, <1>4, <2>1
  <2>4. \A w \in Worker : count[w] = n + (IF w < t THEN 1 ELSE 0)
    BY <1>5, <2>3
  <2>5. n \in Nat
    <3>1. ~ (t < t)
      BY <1>4, <2>2
    <3> QED
      BY <1>4, <2>2, <2>4, <3>1
  <2>6. target' = t /\ TurnInv'
    BY <1>1, <2>2, <2>4, <2>5, DoAcceptTurn
  <2> QED
    BY <1>1, <1>7, <2>1, <2>6 DEF NextTurn
<1> QED
  BY <1>6, <1>7

LEMMA AcceptFailsTurn ==
  ASSUME PoolInv, TurnInv, AcceptFails
  PROVE  target' = target /\ TurnInv'
<1>1. /\ main # "waiting" /\ target \in Worker /\ count \in [Worker -> Nat]
  BY DEF PoolInv, PhaseInv, TypeOK, AcceptFails
<1>2. PICK counts : counts = [count EXCEPT ![target] = @ - 1]
  OBVIOUS
<1>3. DoAccept(counts)
  BY <1>2 DEF AcceptFails
<1>4. PICK n : n = count[target] - 1
  OBVIOUS
<1>5. \A w \in Worker : counts[w] = n + (IF w < target THEN 1 ELSE 0)
  BY <1>1, <1>2, <1>4 DEF TurnInv
<1>6. n \in Nat
  <2>1. IsFiniteSet(Given(target)) /\ count[target] = Cardinality(Given(target)) + 1
    <3>1. Given(target) \in SUBSET Conn
      BY DEF Given
    <3> QED
      BY <1>1, <3>1, PoolAssumption, FS_Subset DEF PoolInv, CountIsGiven
  <2> QED
    BY <1>4, <2>1, FS_CardinalityType
<1>7. counts \in [Worker -> Nat]
  <2>1. \A w \in Worker : counts[w] \in Nat
    BY <1>5, <1>6
  <2>2. counts = [w \in Worker |-> counts[w]]
    BY <1>1, <1>2
  <2> QED
    BY <2>1, <2>2
<1> QED
  BY <1>1, <1>3, <1>5, <1>6, <1>7, DoAcceptTurn

-----------------------------------------------------------------------------
\* A connection is in some queue.
IsPosted(c) == \E w \in Worker : \E i \in 1..Len(posted[w]) : posted[w][i] = c

LEMMA StartedIsGone ==
  /\ Started = {c \in Conn : owner[c] # 0 /\ ~ IsPosted(c)}
  /\ Started' = {c \in Conn : owner'[c] # 0 /\ ~ IsPosted(c)'}
  BY DEF Started, IsPosted

\* An accepted connection is behind the others in the queue of its worker.
LEMMA AcceptedPosts ==
  ASSUME PoolInv, PostedInv, NEW c \in Conn, Accepted(c)
  PROVE  PostedInv' /\ Started' = Started
<1>1. /\ target \in Worker /\ owner[c] = 0 /\ 0 \notin Worker
      /\ owner \in [Conn -> 0..Workers] /\ posted \in [Worker -> Seq(Conn)]
      /\ owner' = [owner EXCEPT ![c] = target]
      /\ posted' = [posted EXCEPT ![target] = Append(@, c)]
  BY DEF PoolInv, PhaseInv, TypeOK, Accepted, Worker
<1>2. PICK n \in Nat : n = Len(posted[target])
  BY <1>1
<1>3. /\ Len(posted'[target]) = n + 1
      /\ posted'[target][n + 1] = c
      /\ \A i \in 1..n : posted'[target][i] = posted[target][i]
      /\ \A w \in Worker : w # target => posted'[w] = posted[w]
  BY <1>1, <1>2
<1>4. \A w \in Worker : \A i \in 1..Len(posted[w]) :
        posted[w][i] \in Conn /\ posted[w][i] # c
  BY <1>1 DEF PostedInv
<1>5. PostedInv'
  <2> SUFFICES ASSUME NEW w \in Worker, NEW i \in 1..Len(posted'[w])
               PROVE  /\ owner'[posted'[w][i]] = w
                      /\ \A j \in 1..Len(posted'[w]) :
                           posted'[w][j] = posted'[w][i] => j = i
    BY DEF PostedInv
  <2>1. CASE w # target
    <3>1. posted'[w] = posted[w] /\ i \in 1..Len(posted[w])
      BY <1>3, <2>1
    <3>2. posted[w][i] \in Conn /\ posted[w][i] # c
      BY <1>4, <3>1
    <3> QED
      BY <1>1, <3>1, <3>2 DEF PostedInv
  <2>2. CASE w = target /\ i = n + 1
    <3>1. posted'[w][i] = c /\ owner'[c] = w
      BY <1>1, <1>3, <2>2
    <3>2. \A j \in 1..(n + 1) : posted'[w][j] = c => j = n + 1
      <4> TAKE j \in 1..(n + 1)
      <4>1. j \in 1..n => posted'[w][j] # c
        BY <1>2, <1>3, <1>4, <2>2
      <4> QED
        BY <1>2, <4>1
    <3> QED
      BY <1>3, <2>2, <3>1, <3>2
  <2>3. CASE w = target /\ i # n + 1
    <3>1. i \in 1..n /\ posted'[w][i] = posted[w][i]
      BY <1>2, <1>3, <2>3
    <3>2. posted[w][i] \in Conn /\ posted[w][i] # c /\ owner[posted[w][i]] = w
      BY <1>2, <1>4, <2>3, <3>1 DEF PostedInv
    <3>3. \A j \in 1..(n + 1) : posted'[w][j] = posted'[w][i] => j = i
      <4> TAKE j \in 1..(n + 1)
      <4>1. CASE j = n + 1
        BY <1>3, <2>3, <3>1, <3>2, <4>1
      <4>2. CASE j # n + 1
        <5>1. j \in 1..n /\ posted'[w][j] = posted[w][j]
          BY <1>2, <1>3, <2>3, <4>2
        <5>2. posted[w][j] = posted[w][i] => j = i
          BY <1>2, <2>3, <3>1, <5>1 DEF PostedInv
        <5> QED
          BY <3>1, <5>1, <5>2
      <4> QED
        BY <4>1, <4>2
    <3> QED
      BY <1>1, <1>3, <2>3, <3>1, <3>2, <3>3
  <2> QED
    BY <2>1, <2>2, <2>3
<1>6. ASSUME NEW d \in Conn
      PROVE  (owner'[d] # 0 /\ ~ IsPosted(d)') <=> (owner[d] # 0 /\ ~ IsPosted(d))
  <2>1. CASE d = c
    <3>1. n + 1 \in 1..Len(posted'[target])
      BY <1>2, <1>3
    <3>2. IsPosted(d)'
      BY <1>1, <1>3, <2>1, <3>1 DEF IsPosted
    <3> QED
      BY <1>1, <2>1, <3>2
  <2>2. CASE d # c
    <3>1. owner'[d] = owner[d]
      BY <1>1, <2>2
    <3>2. IsPosted(d) => IsPosted(d)'
      <4> SUFFICES ASSUME NEW w \in Worker, NEW i \in 1..Len(posted[w]), posted[w][i] = d
                   PROVE  IsPosted(d)'
        BY DEF IsPosted
      <4>1. i \in 1..Len(posted'[w]) /\ posted'[w][i] = d
        BY <1>2, <1>3
      <4> QED
        BY <4>1 DEF IsPosted
    <3>3. IsPosted(d)' => IsPosted(d)
      <4> SUFFICES ASSUME NEW w \in Worker, NEW i \in 1..Len(posted'[w]), posted'[w][i] = d
                   PROVE  IsPosted(d)
        BY DEF IsPosted
      <4>1. i \in 1..Len(posted[w]) /\ posted[w][i] = d
        BY <1>2, <1>3, <2>2
      <4> QED
        BY <4>1 DEF IsPosted
    <3> QED
      BY <3>1, <3>2, <3>3
  <2> QED
    BY <2>1, <2>2
<1> QED
  BY <1>5, <1>6, StartedIsGone

\* The start() that is run is in no queue any more.
LEMMA RunStarts ==
  ASSUME PoolInv, PostedInv, NEW w \in Worker, Run(w)
  PROVE  /\ PostedInv'
         /\ \E c \in Conn : /\ owner[c] # 0 /\ c \notin Started
                            /\ Started' = Started \cup {c}
<1>1. /\ posted \in [Worker -> Seq(Conn)] /\ posted[w] # <<>> /\ owner' = owner
      /\ posted' = [posted EXCEPT ![w] = Tail(@)] /\ 0 \notin Worker
  BY DEF PoolInv, TypeOK, Run, Worker
<1>2. PICK n \in Nat : n = Len(posted[w])
  BY <1>1
<1>3. /\ 1 \in 1..n
      /\ Len(posted'[w]) = n - 1
      /\ \A i \in 1..(n - 1) : posted'[w][i] = posted[w][i + 1]
      /\ \A v \in Worker : v # w => posted'[v] = posted[v]
  BY <1>1, <1>2
<1>4. PICK c \in Conn : c = posted[w][1]
  BY <1>1, <1>2, <1>3
<1>5. owner[c] = w /\ \A j \in 1..n : posted[w][j] = c => j = 1
  BY <1>2, <1>3, <1>4 DEF PostedInv
<1>6. PostedInv'
  <2> SUFFICES ASSUME NEW v \in Worker, NEW i \in 1..Len(posted'[v])
               PROVE  /\ owner'[posted'[v][i]] = v
                      /\ \A j \in 1..Len(posted'[v]) :
                           posted'[v][j] = posted'[v][i] => j = i
    BY DEF PostedInv
  <2>1. CASE v # w
    BY <1>1, <1>3, <2>1 DEF PostedInv
  <2>2. CASE v = w
    <3>1. i \in 1..(n - 1) /\ i + 1 \in 1..n /\ posted'[w][i] = posted[w][i + 1]
      BY <1>2, <1>3, <2>2
    <3>2. owner'[posted'[w][i]] = w
      BY <1>1, <1>2, <3>1 DEF PostedInv
    <3>3. ASSUME NEW j \in 1..(n - 1), posted'[w][j] = posted'[w][i]
          PROVE  j = i
      <4>1. j + 1 \in 1..n /\ posted[w][j + 1] = posted[w][i + 1]
        BY <1>2, <1>3, <3>1, <3>3
      <4>2. j + 1 = i + 1
        BY <1>2, <3>1, <4>1 DEF PostedInv
      <4> QED
        BY <3>1, <3>3, <4>2
    <3> QED
      BY <1>3, <2>2, <3>2, <3>3
  <2> QED
    BY <2>1, <2>2
<1>7. IsPosted(c)
  BY <1>2, <1>3, <1>4 DEF IsPosted
<1>8. ~ IsPosted(c)'
  <2> SUFFICES ASSUME NEW v \in Worker, NEW i \in 1..Len(posted'[v]), posted'[v][i] = c
               PROVE  FALSE
    BY DEF IsPosted
  <2>1. CASE v # w
    <3>1. owner[c] = v
      BY <1>3, <2>1 DEF PostedInv
    <3> QED
      BY <1>5, <2>1, <3>1
  <2>2. CASE v = w
    <3>1. i \in 1..(n - 1) /\ i + 1 \in 1..n /\ posted[w][i + 1] = c /\ i + 1 # 1
      BY <1>2, <1>3, <2>2
    <3> QED
      BY <1>5, <3>1
  <2> QED
    BY <2>1, <2>2
<1>9. ASSUME NEW d \in Conn, d # c
      PROVE  IsPosted(d)' <=> IsPosted(d)
  <2>1. ASSUME NEW v \in Worker, NEW i \in 1..Len(posted[v]), posted[v][i] = d
        PROVE  IsPosted(d)'
    <3>1. CASE v # w
      BY <1>3, <2>1, <3>1 DEF IsPosted
    <3>2. CASE v = w
      <4>1. PICK k : k = i - 1
        OBVIOUS
      <4>2. i # 1
        BY <1>4, <1>9, <2>1, <3>2
      <4>3. k \in 1..(n - 1) /\ i = k + 1
        BY <1>2, <2>1, <3>2, <4>1, <4>2
      <4>4. k \in 1..Len(posted'[w]) /\ posted'[w][k] = d
        BY <1>3, <2>1, <3>2, <4>3
      <4> QED
        BY <4>4 DEF IsPosted
    <3> QED
      BY <3>1, <3>2
  <2>2. ASSUME NEW v \in Worker, NEW i \in 1..Len(posted'[v]), posted'[v][i] = d
        PROVE  IsPosted(d)
    <3>1. CASE v # w
      BY <1>3, <2>2, <3>1 DEF IsPosted
    <3>2. CASE v = w
      <4>1. i + 1 \in 1..Len(posted[w]) /\ posted[w][i + 1] = d
        BY <1>2, <1>3, <2>2, <3>2
      <4> QED
        BY <4>1 DEF IsPosted
    <3> QED
      BY <3>1, <3>2
  <2> QED
    BY <2>1, <2>2 DEF IsPosted
<1>10. c \notin Started /\ owner[c] # 0
  BY <1>1, <1>5, <1>7, StartedIsGone
<1>11. Started' = Started \cup {c}
  BY <1>1, <1>8, <1>9, <1>10, StartedIsGone
<1> QED
  BY <1>6, <1>10, <1>11

-----------------------------------------------------------------------------
\* The other steps leave the turns and the queues alone.
LEMMA OtherPoolSteps ==
  ASSUME PoolInv, TurnInv, PostedInv,
         \/ Signal \/ Halt \/ Join
         \/ \E w \in Worker : Begin(w) \/ Return(w) \/ Throw(w) \/ End(w)
         \/ UNCHANGED vars
  PROVE  UNCHANGED <<target, owner, posted>> /\ TurnInv'
<1>1. UNCHANGED <<target, owner, posted>>
  BY DEF Signal, Halt, Join, Begin, Return, Throw, End, vars
<1>2. CASE \E w \in Worker : Begin(w)
  <2>1. main = "waiting" /\ main' = main
    BY <1>2 DEF Begin, PoolInv, PhaseInv
  <2> QED
    BY <1>1, <2>1 DEF TurnInv
<1>3. CASE ~ \E w \in Worker : Begin(w)
  <2>1. UNCHANGED count /\ (main' # "waiting" => main # "waiting")
    BY <1>3 DEF Signal, Halt, Join, Return, Throw, End, vars
  <2> QED
    BY <1>1, <2>1 DEF TurnInv
<1> QED
  BY <1>1, <1>2, <1>3

LEMMA QueuesKept ==
  ASSUME PostedInv, UNCHANGED <<owner, posted>>
  PROVE  PostedInv' /\ Started' = Started
  BY DEF PostedInv, Started

\* Every step is a turn, a start, or neither.
LEMMA TurnStep ==
  ASSUME PoolInv, TurnInv, PostedInv, [Next]_vars
  PROVE  TurnInv' /\ PostedInv' /\ [Turns!TurnNext]_(Turns!turnVars)
<1> USE DEF Turns!turnVars
<1>1. CASE BeginAccepting
  <2>1. UNCHANGED <<owner, posted>>
    BY <1>1 DEF BeginAccepting
  <2>2. Turns!FirstTurn
    BY <1>1, <2>1, BeginAcceptingTurn, QueuesKept DEF Turns!FirstTurn
  <2> QED
    BY <1>1, <2>1, <2>2, BeginAcceptingTurn, QueuesKept DEF Turns!TurnNext
<1>2. CASE AcceptFails
  <2>1. UNCHANGED <<owner, posted>>
    BY <1>2 DEF AcceptFails
  <2> QED
    BY <1>2, <2>1, AcceptFailsTurn, QueuesKept
<1>3. ASSUME NEW c \in Conn, Accepted(c)
      PROVE  TurnInv' /\ PostedInv' /\ [Turns!TurnNext]_(Turns!turnVars)
  <2>1. target # 0 /\ NextTurn /\ TurnInv'
    BY <1>3, AcceptedTurn
  <2>2. PostedInv' /\ Started' = Started
    BY <1>3, AcceptedPosts
  <2>3. owner[c] = 0 /\ owner' = [owner EXCEPT ![c] = target]
    BY <1>3 DEF Accepted
  <2>4. Turns!Give(c)
    BY <2>1, <2>2, <2>3 DEF Turns!Give, NextTurn
  <2> QED
    BY <2>1, <2>2, <2>4 DEF Turns!TurnNext
<1>4. ASSUME NEW w \in Worker, Run(w)
      PROVE  TurnInv' /\ PostedInv' /\ [Turns!TurnNext]_(Turns!turnVars)
  <2>1. UNCHANGED <<main, count, target, owner>>
    BY <1>4 DEF Run
  <2>2. PICK c \in Conn : /\ owner[c] # 0 /\ c \notin Started
                          /\ Started' = Started \cup {c}
    BY <1>4, RunStarts
  <2>3. Turns!StartConnection(c)
    BY <2>1, <2>2 DEF Turns!StartConnection
  <2>4. TurnInv'
    BY <2>1 DEF TurnInv
  <2>5. PostedInv'
    BY <1>4, RunStarts
  <2> QED
    BY <2>3, <2>4, <2>5 DEF Turns!TurnNext
<1>5. CASE \/ Signal \/ Halt \/ Join
           \/ \E w \in Worker : Begin(w) \/ Return(w) \/ Throw(w) \/ End(w)
           \/ UNCHANGED vars
  <2>1. UNCHANGED <<target, owner, posted>> /\ TurnInv'
    BY <1>5, OtherPoolSteps
  <2> QED
    BY <2>1, QueuesKept
<1> QED
  BY <1>1, <1>2, <1>3, <1>4, <1>5 DEF Next

\* The pool implements TurnTaking, for any number of workers and connections:
\* picking the lowest count gives the connections to the workers in turns, a
\* failing accept passes no turn on, and no connection is started twice.
THEOREM GivenInTurns == Spec => TakesTurns
<1>1. Init => TurnInv /\ PostedInv /\ Turns!TurnInit
  BY DEF Init, TurnInv, PostedInv, Turns!TurnInit, Started
<1>2. PoolInv /\ TurnInv /\ PostedInv /\ [Next]_vars
        => TurnInv' /\ PostedInv' /\ [Turns!TurnNext]_(Turns!turnVars)
  BY TurnStep
<1> QED
  BY <1>1, <1>2, PoolInvariant, PTL DEF Spec, TakesTurns, Turns!TurnSpec
=============================================================================
