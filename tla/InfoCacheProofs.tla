-------------------------- MODULE InfoCacheProofs ---------------------------
(***************************************************************************)
(* What InfoCache guarantees for every set of threads.                     *)
(***************************************************************************)
EXTENDS InfoCache, TLAPS

\* The inductive invariant holds in the initial state.
LEMMA InfoInitInv == InfoInit => InfoInv
<1> SUFFICES ASSUME InfoInit
             PROVE  InfoInv
  OBVIOUS
<1>1. InfoTypeOK
  BY DEF InfoInit, InfoTypeOK, InfoSteps, Json, Code, Answer, BlankResponse
<1>2. LockInv
  BY NobodyIsNoWorker DEF InfoInit, LockInv
<1>3. ValueInv
  BY DEF InfoInit, ValueInv, At
<1> QED
  BY <1>1, <1>2, <1>3 DEF InfoInv

\* A response built by a thread is a well-formed answer.
LEMMA ResponseType ==
  ASSUME InfoTypeOK, NEW w \in Worker, NEW json \in Json
  PROVE  JSONResponse(w, json) \in Answer
  BY DEF InfoTypeOK, JSONResponse, Answer

\* A step of one thread keeps every variable in its type.
LEMMA InfoTypeStep ==
  ASSUME InfoTypeOK, InfoNext
  PROVE  InfoTypeOK'
<1>1. PICK w \in Worker : Request(w) \/ InfoStep(w) \/ ElsewhereFails(w)
  BY DEF InfoNext
<1> USE DEF InfoTypeOK, InfoSteps, infoLocal, infoShared, At, GoTo
<1>2. CASE Request(w)
  BY <1>2 DEF Request, BlankResponse, Answer, Json, Code
<1>3. CASE ReadLock(w)
  BY <1>3 DEF ReadLock
<1>4. CASE ServeCached(w)
  <2>1. JSONResponse(w, cachedInfoMetadata) \in Answer
    BY ResponseType
  <2> QED
    BY <1>4, <2>1 DEF ServeCached
<1>5. CASE CacheMiss(w)
  BY <1>5 DEF CacheMiss
<1>6. CASE Extract(w)
  <2>1. PICK section \in Sections :
          /\ infoResult' = [infoResult EXCEPT ![w] = @ \cup {section}]
          /\ infoPc' = [infoPc EXCEPT ![w] = StepAfter[section]]
    BY <1>6 DEF Extract
  <2>2. infoResult[w] \cup {section} \in Json
    BY DEF Json
  <2>3. StepAfter[section] \in InfoSteps
    BY DEF StepAfter, Sections
  <2> QED
    BY <1>6, <2>1, <2>2, <2>3 DEF Extract
<1>7. CASE ExtractFails(w)
  <2>1. infoResult[w] \cup {"error"} \in Json
    BY DEF Json
  <2> QED
    BY <1>7, <2>1 DEF ExtractFails, Code
<1>8. CASE Respond(w)
  <2>1. JSONResponse(w, infoResult[w]) \in Answer
    BY ResponseType
  <2> QED
    BY <1>8, <2>1 DEF Respond
<1>9. CASE WriteLock(w)
  BY <1>9 DEF WriteLock
<1>10. CASE MoveIntoCache(w)
  <2>1. {} \in Json
    BY DEF Json
  <2> QED
    BY <1>10, <2>1 DEF MoveIntoCache
<1>11. CASE Publish(w)
  BY <1>11 DEF Publish
<1>12. CASE LostRace(w)
  BY <1>12 DEF LostRace
<1>13. CASE ElsewhereFails(w)
  BY <1>13 DEF ElsewhereFails, Code
<1> QED
  BY <1>1, <1>2, <1>3, <1>4, <1>5, <1>6, <1>7, <1>8, <1>9, <1>10, <1>11, <1>12,
     <1>13 DEF InfoStep

\* The locks exclude what they should after every step.
LEMMA LockStep ==
  ASSUME InfoTypeOK, LockInv, InfoNext
  PROVE  LockInv'
<1>1. PICK w \in Worker : Request(w) \/ InfoStep(w) \/ ElsewhereFails(w)
  BY DEF InfoNext
<1> USE NobodyIsNoWorker DEF InfoTypeOK, LockInv, infoLocal, infoShared, At, GoTo
<1>2. CASE Request(w)
  BY <1>2 DEF Request
<1>3. CASE ReadLock(w)
  BY <1>3 DEF ReadLock
<1>4. CASE ServeCached(w)
  BY <1>4 DEF ServeCached
<1>5. CASE CacheMiss(w)
  BY <1>5 DEF CacheMiss
<1>6. CASE Extract(w)
  BY <1>6 DEF Extract, StepAfter, Sections
<1>7. CASE ExtractFails(w)
  BY <1>7 DEF ExtractFails, Sections
<1>8. CASE Respond(w)
  BY <1>8 DEF Respond
<1>9. CASE WriteLock(w)
  BY <1>9 DEF WriteLock
<1>10. CASE MoveIntoCache(w)
  BY <1>10 DEF MoveIntoCache
<1>11. CASE Publish(w)
  BY <1>11 DEF Publish
<1>12. CASE LostRace(w)
  BY <1>12 DEF LostRace
<1>13. CASE ElsewhereFails(w)
  BY <1>13 DEF ElsewhereFails
<1> QED
  BY <1>1, <1>2, <1>3, <1>4, <1>5, <1>6, <1>7, <1>8, <1>9, <1>10, <1>11, <1>12,
     <1>13 DEF InfoStep

\* The members of results, responses and the cache agree after every step.
LEMMA ValueStep ==
  ASSUME InfoInv, InfoNext
  PROVE  ValueInv'
<1>1. PICK w \in Worker : Request(w) \/ InfoStep(w) \/ ElsewhereFails(w)
  BY DEF InfoNext
<1> USE DEF InfoInv, InfoTypeOK, ValueInv, infoLocal, infoShared, At, GoTo
<1>2. CASE Request(w)
  BY <1>2 DEF Request
<1>3. CASE ReadLock(w)
  BY <1>3 DEF ReadLock
<1>4. CASE ServeCached(w)
  BY <1>4 DEF ServeCached
<1>5. CASE CacheMiss(w)
  BY <1>5 DEF CacheMiss
<1>6. CASE Extract(w)
  <2>1. PICK section \in Sections :
          /\ infoPc[w] = section
          /\ infoResult' = [infoResult EXCEPT ![w] = @ \cup {section}]
          /\ infoPc' = [infoPc EXCEPT ![w] = StepAfter[section]]
    BY <1>6 DEF Extract
  <2>2. StepAfter[section] \in {"variables", "global_attributes", "respond"}
    BY DEF StepAfter, Sections
  <2>3. infoResult'[w] # {}
    BY <2>1
  <2> QED
    BY <1>6, <2>1, <2>2, <2>3 DEF Extract
<1>7. CASE ExtractFails(w)
  BY <1>7 DEF ExtractFails, Sections
<1>8. CASE Respond(w)
  BY <1>8 DEF Respond, JSONResponse
<1>9. CASE WriteLock(w)
  BY <1>9 DEF WriteLock
<1>10. CASE MoveIntoCache(w)
  <2>1. \A v \in Worker : infoPc[v] = "publish" => v = w
    BY <1>10 DEF MoveIntoCache, LockInv
  <2> QED
    BY <1>10, <2>1 DEF MoveIntoCache
<1>11. CASE Publish(w)
  <2>1. \A v \in Worker : infoPc[v] = "publish" => v = w
    BY <1>11 DEF Publish, LockInv
  <2> QED
    BY <1>11, <2>1 DEF Publish
<1>12. CASE LostRace(w)
  BY <1>12 DEF LostRace
<1>13. CASE ElsewhereFails(w)
  BY <1>13 DEF ElsewhereFails
<1> QED
  BY <1>1, <1>2, <1>3, <1>4, <1>5, <1>6, <1>7, <1>8, <1>9, <1>10, <1>11, <1>12,
     <1>13 DEF InfoStep

\* The inductive invariant is kept by every step and by stuttering.
LEMMA InfoInvStep ==
  ASSUME InfoInv, [InfoNext]_infoVars
  PROVE  InfoInv'
<1>1. CASE InfoNext
  <2>1. InfoTypeOK'
    BY <1>1, InfoTypeStep DEF InfoInv
  <2>2. LockInv'
    BY <1>1, LockStep DEF InfoInv
  <2>3. ValueInv'
    BY <1>1, ValueStep
  <2> QED
    BY <2>1, <2>2, <2>3 DEF InfoInv
<1>2. CASE UNCHANGED infoVars
  BY <1>2 DEF infoVars, infoLocal, infoShared, InfoInv, InfoTypeOK, LockInv,
              ValueInv, At
<1> QED
  BY <1>1, <1>2

\* Type correctness, mutual exclusion of infoMetadataMutex_ and agreement of
\* the cached value with what was answered, for any number of threads.
THEOREM InfoInvariant == InfoSpec => []InfoInv
<1>1. InfoInit => InfoInv
  BY InfoInitInv
<1>2. InfoInv /\ [InfoNext]_infoVars => InfoInv'
  BY InfoInvStep
<1> QED
  BY <1>1, <1>2, PTL DEF InfoSpec

\* A step taken where the invariant holds leaves a filled cache as it is.
LEMMA FilledCacheStays ==
  ASSUME InfoInv, [InfoNext]_infoVars, infoMetadataCached
  PROVE  infoMetadataCached' /\ cachedInfoMetadata' = cachedInfoMetadata
<1>1. CASE InfoNext
  <2>1. PICK w \in Worker : Request(w) \/ InfoStep(w) \/ ElsewhereFails(w)
    BY <1>1 DEF InfoNext
  <2>2. ~ MoveIntoCache(w)
    BY DEF MoveIntoCache
  <2>3. ~ Publish(w)
    BY DEF Publish, InfoInv, ValueInv
  <2> QED
    BY <2>1, <2>2, <2>3
    DEF InfoStep, Request, ReadLock, ServeCached, CacheMiss, Extract,
        ExtractFails, Respond, WriteLock, LostRace, ElsewhereFails, infoShared
<1>2. CASE UNCHANGED infoVars
  BY <1>2 DEF infoVars, infoShared
<1> QED
  BY <1>1, <1>2

\* The first extraction wins: handleGetInfo fills the cache once, for any
\* number of threads that find it empty at the same time.
THEOREM CacheFilledOnce == InfoSpec => FirstExtractionWins
<1>1. InfoInv /\ [InfoNext]_infoVars =>
        [infoMetadataCached =>
           infoMetadataCached' /\ cachedInfoMetadata' = cachedInfoMetadata]_infoVars
  BY FilledCacheStays
<1> QED
  BY <1>1, InfoInvariant, PTL DEF InfoSpec, FirstExtractionWins

\* What is returned is a member of the cache, or of a result, that is not empty.
LEMMA AnswersStep ==
  ASSUME InfoInv, AnswersHaveMembers, [InfoNext]_infoVars
  PROVE  AnswersHaveMembers'
<1> SUFFICES ASSUME NEW w \in Worker, NEW reply \in infoReply'[w]
             PROVE  reply.body # {}
  BY DEF AnswersHaveMembers
<1>1. CASE infoReply' = infoReply
  BY <1>1 DEF AnswersHaveMembers
<1>2. ASSUME NEW v \in Worker, NEW e, e.body # {}, infoReply' = [infoReply EXCEPT ![v] = {e}]
      PROVE  reply.body # {}
  BY <1>2 DEF InfoInv, InfoTypeOK, AnswersHaveMembers
<1>3. ASSUME NEW v \in Worker, ServeCached(v)
      PROVE  reply.body # {}
  <2>1. JSONResponse(v, cachedInfoMetadata).body # {}
    BY <1>3 DEF ServeCached, InfoInv, ValueInv, JSONResponse
  <2> QED
    BY <1>2, <1>3, <2>1 DEF ServeCached
<1>4. ASSUME NEW v \in Worker, Publish(v) \/ LostRace(v)
      PROVE  reply.body # {}
  <2>1. infoResponse[v].body # {}
    BY <1>4 DEF Publish, LostRace, InfoInv, ValueInv, At
  <2> QED
    BY <1>2, <1>4, <2>1 DEF Publish, LostRace
<1>5. CASE UNCHANGED infoVars
  BY <1>1, <1>5 DEF infoVars, infoLocal
<1>6. ASSUME NEW v \in Worker,
             \/ Request(v) \/ ReadLock(v) \/ CacheMiss(v) \/ Extract(v) \/ ExtractFails(v)
             \/ Respond(v) \/ WriteLock(v) \/ MoveIntoCache(v) \/ ElsewhereFails(v)
      PROVE  infoReply' = infoReply
  BY <1>6 DEF Request, ReadLock, CacheMiss, Extract, ExtractFails, Respond, WriteLock,
              MoveIntoCache, ElsewhereFails, infoLocal
<1> QED
  BY <1>1, <1>3, <1>4, <1>5, <1>6 DEF InfoNext, InfoStep

\* No thread ever returns the value that was moved from.
THEOREM NoMovedFromAnswer == InfoSpec => []AnswersHaveMembers
<1>1. InfoInit => AnswersHaveMembers
  BY DEF InfoInit, AnswersHaveMembers
<1>2. InfoInv /\ AnswersHaveMembers /\ [InfoNext]_infoVars => AnswersHaveMembers'
  BY AnswersStep
<1> QED
  BY <1>1, <1>2, InfoInvariant, PTL DEF InfoSpec

-----------------------------------------------------------------------------
\* The refinement: the initial cell is empty and every client idle.
LEMMA CellInitStep == InfoInit => Cell!CellInit
  BY DEF InfoInit, Cell!CellInit, CellPhase

\* Returning one response replaces what the client sees and nothing else.
LEMMA OneReply ==
  ASSUME InfoTypeOK, NEW w \in Worker, NEW response,
         infoReply' = [infoReply EXCEPT ![w] = {response}]
  PROVE  [v \in Worker |-> {reply.body : reply \in infoReply'[v]}] =
         [[v \in Worker |-> {reply.body : reply \in infoReply[v]}]
            EXCEPT ![w] = {response.body}]
<1>1. \A v \in Worker : infoReply'[v] = IF v = w THEN {response} ELSE infoReply[v]
  BY DEF InfoTypeOK
<1>2. {reply.body : reply \in {response}} = {response.body}
  OBVIOUS
<1>3. \A v \in Worker : {reply.body : reply \in infoReply'[v]} =
        IF v = w THEN {response.body} ELSE {reply.body : reply \in infoReply[v]}
  BY <1>1, <1>2
<1> QED
  BY <1>3

\* A thread that leaves a making step for idle does so in the abstract too.
LEMMA MakingToIdle ==
  ASSUME InfoTypeOK, NEW w \in Worker,
         infoPc[w] \in InfoSteps \ {"idle", "lookup", "reading"},
         infoPc' = [infoPc EXCEPT ![w] = "idle"]
  PROVE  /\ CellPhase[w] = "making"
         /\ CellPhase' = [CellPhase EXCEPT ![w] = "idle"]
  BY DEF InfoTypeOK, InfoSteps, CellPhase

\* Every step of handleGetInfo is a step of the write-once cell or leaves it.
LEMMA CellNextStep ==
  ASSUME InfoInv, [InfoNext]_infoVars
  PROVE  [Cell!CellNext]_(Cell!cellVars)
<1> USE DEF InfoInv, InfoTypeOK, infoLocal, infoShared, At, GoTo
<1>1. CASE UNCHANGED infoVars
  BY <1>1 DEF infoVars, Cell!cellVars, CellPhase
<1>2. CASE InfoNext
  <2>1. PICK w \in Worker : Request(w) \/ InfoStep(w) \/ ElsewhereFails(w)
    BY <1>2 DEF InfoNext
  <2>2. CASE Request(w)
    <3>1. Cell!Ask(w)
      BY <2>2 DEF Request, Cell!Ask, CellPhase
    <3> QED
      BY <3>1 DEF Cell!CellNext
  <2>3. CASE ReadLock(w)
    BY <2>3 DEF ReadLock, Cell!cellVars, CellPhase
  <2>4. CASE ServeCached(w)
    <3>1. Cell!Find(w)
      <4>1. [v \in Worker |-> {reply.body : reply \in infoReply'[v]}] =
            [[v \in Worker |-> {reply.body : reply \in infoReply[v]}]
               EXCEPT ![w] = {cachedInfoMetadata}]
        <5>1. infoReply' =
              [infoReply EXCEPT ![w] = {JSONResponse(w, cachedInfoMetadata)}]
          BY <2>4 DEF ServeCached
        <5>2. JSONResponse(w, cachedInfoMetadata).body = cachedInfoMetadata
          BY DEF JSONResponse
        <5> QED
          BY <5>1, <5>2, OneReply
      <4> QED
        BY <2>4, <4>1 DEF ServeCached, Cell!Find, CellPhase
    <3> QED
      BY <3>1 DEF Cell!CellNext
  <2>5. CASE CacheMiss(w)
    <3>1. Cell!Miss(w)
      BY <2>5 DEF CacheMiss, Cell!Miss, CellPhase
    <3> QED
      BY <3>1 DEF Cell!CellNext
  <2>6. CASE Extract(w)
    BY <2>6 DEF Extract, StepAfter, Sections, Cell!cellVars, CellPhase
  <2>7. CASE ExtractFails(w)
    BY <2>7 DEF ExtractFails, Sections, Cell!cellVars, CellPhase
  <2>8. CASE Respond(w)
    BY <2>8 DEF Respond, Cell!cellVars, CellPhase
  <2>9. CASE WriteLock(w)
    BY <2>9 DEF WriteLock, Cell!cellVars, CellPhase
  <2>10. CASE MoveIntoCache(w)
    BY <2>10 DEF MoveIntoCache, Cell!cellVars, CellPhase
  <2>11. CASE Publish(w)
    <3>1. Cell!Make(w, infoResponse[w].body)
      <4>1. [v \in Worker |-> {reply.body : reply \in infoReply'[v]}] =
            [[v \in Worker |-> {reply.body : reply \in infoReply[v]}]
               EXCEPT ![w] = {infoResponse[w].body}]
        BY <2>11, OneReply DEF Publish
      <4>2. /\ CellPhase[w] = "making"
            /\ CellPhase' = [CellPhase EXCEPT ![w] = "idle"]
        BY <2>11, MakingToIdle DEF Publish, InfoSteps
      <4> QED
        BY <2>11, <4>1, <4>2 DEF Publish, Cell!Make, ValueInv
    <3>2. infoResponse[w].body \in Json
      BY DEF Answer
    <3> QED
      BY <3>1, <3>2 DEF Cell!CellNext, Cell!Make
  <2>12. CASE LostRace(w)
    <3>1. Cell!Make(w, infoResponse[w].body)
      <4>1. [v \in Worker |-> {reply.body : reply \in infoReply'[v]}] =
            [[v \in Worker |-> {reply.body : reply \in infoReply[v]}]
               EXCEPT ![w] = {infoResponse[w].body}]
        BY <2>12, OneReply DEF LostRace
      <4>2. /\ CellPhase[w] = "making"
            /\ CellPhase' = [CellPhase EXCEPT ![w] = "idle"]
        BY <2>12, MakingToIdle DEF LostRace, InfoSteps
      <4> QED
        BY <2>12, <4>1, <4>2 DEF LostRace, Cell!Make
    <3>2. infoResponse[w].body \in Json
      BY DEF Answer
    <3> QED
      BY <3>1, <3>2 DEF Cell!CellNext, Cell!Make
  <2>13. CASE ElsewhereFails(w)
    BY <2>13 DEF ElsewhereFails, Cell!cellVars, CellPhase
  <2> QED
    BY <2>1, <2>2, <2>3, <2>4, <2>5, <2>6, <2>7, <2>8, <2>9, <2>10, <2>11,
       <2>12, <2>13 DEF InfoStep
<1> QED
  BY <1>1, <1>2

\* handleGetInfo implements the write-once cell, for any number of threads.
THEOREM CacheImplementsCell == InfoSpec => ImplementsCell
<1>1. InfoInit => Cell!CellInit
  BY CellInitStep
<1>2. InfoInv /\ [InfoNext]_infoVars => [Cell!CellNext]_(Cell!cellVars)
  BY CellNextStep
<1> QED
  BY <1>1, <1>2, InfoInvariant, PTL DEF InfoSpec, ImplementsCell, Cell!CellSpec
=============================================================================
