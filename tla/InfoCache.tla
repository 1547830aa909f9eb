----------------------------- MODULE InfoCache ------------------------------
(***************************************************************************)
(* NetCDFServer::handleGetInfo, as it runs on several worker threads.      *)
(*                                                                         *)
(* infoMetadataMutex_ is a std::shared_mutex: readers is the set of the    *)
(* threads that hold it shared, writer the thread that holds it alone.  A  *)
(* JSON object is the set of its top-level keys: the three sections that   *)
(* are extracted, and "error".  A default-constructed or moved-from value  *)
(* has no key (json.h dumps both without a member).                        *)
(***************************************************************************)
EXTENDS FiniteSets

CONSTANTS Worker,     \* the threads that run handlers
          Nobody      \* not a thread: the mutex has no exclusive holder

VARIABLES infoPc,              \* where each thread is in handleGetInfo
          infoResult,          \* the local `result` of each thread
          infoResponse,        \* the local `response` of each thread
          infoReply,           \* what each thread last returned, {} before that
          readers, writer,     \* infoMetadataMutex_
          infoMetadataCached,  \* infoMetadataCached_
          cachedInfoMetadata,  \* cachedInfoMetadata_
          responseCode         \* thread_local responseCode_

infoLocal == <<infoPc, infoResult, infoResponse, infoReply>>
infoShared == <<readers, writer, infoMetadataCached, cachedInfoMetadata>>
infoVars == <<infoLocal, infoShared, responseCode>>

Sections == {"dimensions", "variables", "global_attributes"}
Json == SUBSET (Sections \cup {"error"})
Code == {200, 500}
Answer == [code : Code, body : Json]
BlankResponse == [code |-> 200, body |-> {}]   \* default-constructed

ASSUME NobodyIsNoWorker == Nobody \notin Worker

InfoSteps == {"idle", "lookup", "reading", "dimensions", "variables",
              "global_attributes", "respond", "lock", "recheck", "publish"}

InfoInit ==
  /\ infoPc = [w \in Worker |-> "idle"]
  /\ infoResult = [w \in Worker |-> {}]
  /\ infoResponse = [w \in Worker |-> BlankResponse]
  /\ infoReply = [w \in Worker |-> {}]
  /\ readers = {}
  /\ writer = Nobody
  /\ infoMetadataCached = FALSE
  /\ cachedInfoMetadata = {}
  /\ responseCode = [w \in Worker |-> 200]

At(w, step) == infoPc[w] = step
GoTo(w, step) == infoPc' = [infoPc EXCEPT ![w] = step]

\* JSONResponse: the thread's current responseCode_, whatever set it.
JSONResponse(w, json) == [code |-> responseCode[w], body |-> json]

-----------------------------------------------------------------------------
\* /get-info is called: the locals are default-constructed.
Request(w) ==
  /\ At(w, "idle")
  /\ GoTo(w, "lookup")
  /\ infoResult' = [infoResult EXCEPT ![w] = {}]
  /\ infoResponse' = [infoResponse EXCEPT ![w] = BlankResponse]
  /\ UNCHANGED <<infoReply, infoShared, responseCode>>

\* std::shared_lock: waits while a thread holds the mutex alone.
ReadLock(w) ==
  /\ At(w, "lookup")
  /\ writer = Nobody
  /\ readers' = readers \cup {w}
  /\ GoTo(w, "reading")
  /\ UNCHANGED <<infoResult, infoResponse, infoReply, writer,
                 infoMetadataCached, cachedInfoMetadata, responseCode>>

\* Under the shared lock: the cached value is the reply.
ServeCached(w) ==
  /\ At(w, "reading")
  /\ infoMetadataCached
  /\ infoReply' = [infoReply EXCEPT ![w] = {JSONResponse(w, cachedInfoMetadata)}]
  /\ readers' = readers \ {w}
  /\ GoTo(w, "idle")
  /\ UNCHANGED <<infoResult, infoResponse, writer,
                 infoMetadataCached, cachedInfoMetadata, responseCode>>

\* MUTANT of CacheMiss: the scope of the shared lock reaches to the end of the
\* function, where the same thread asks for the exclusive lock.
CacheMissKeepsLock(w) ==
  /\ At(w, "reading")
  /\ ~ infoMetadataCached
  /\ GoTo(w, "dimensions")
  /\ UNCHANGED <<infoResult, infoResponse, infoReply, infoShared, responseCode>>

\* MUTANT of CacheMiss: the flag is not looked at.
CacheMissUnchecked(w) ==
  /\ At(w, "reading")
  /\ readers' = readers \ {w}
  /\ GoTo(w, "dimensions")
  /\ UNCHANGED <<infoResult, infoResponse, infoReply, writer,
                 infoMetadataCached, cachedInfoMetadata, responseCode>>

\* Under the shared lock: nothing is cached, the lock is released.
CacheMiss(w) ==
  /\ At(w, "reading")
  /\ ~ infoMetadataCached
  /\ readers' = readers \ {w}
  /\ GoTo(w, "dimensions")
  /\ UNCHANGED <<infoResult, infoResponse, infoReply, writer,
                 infoMetadataCached, cachedInfoMetadata, responseCode>>

\* The section that is extracted at a step, and the step after it.
StepAfter == [dimensions |-> "variables",
              variables |-> "global_attributes",
              global_attributes |-> "respond"]

\* extractDimensions, extractVariables, extractGlobalAttributes: the section
\* enters the result only when all of it was read.
Extract(w) ==
  \E section \in Sections :
    /\ At(w, section)
    /\ infoResult' = [infoResult EXCEPT ![w] = @ \cup {section}]
    /\ GoTo(w, StepAfter[section])
    /\ UNCHANGED <<infoResponse, infoReply, infoShared, responseCode>>

\* NcException in any of the three: the error joins the sections read so far.
ExtractFails(w) ==
  /\ infoPc[w] \in Sections
  /\ infoResult' = [infoResult EXCEPT ![w] = @ \cup {"error"}]
  /\ responseCode' = [responseCode EXCEPT ![w] = 500]
  /\ GoTo(w, "respond")
  /\ UNCHANGED <<infoResponse, infoReply, infoShared>>

\* The response is built before the result is moved into the cache.
Respond(w) ==
  /\ At(w, "respond")
  /\ infoResponse' = [infoResponse EXCEPT ![w] = JSONResponse(w, infoResult[w])]
  /\ GoTo(w, "lock")
  /\ UNCHANGED <<infoResult, infoReply, infoShared, responseCode>>

\* MUTANT of WriteLock: a plain mutex among writers, readers not excluded.
WriteLockAmongReaders(w) ==
  /\ At(w, "lock")
  /\ writer = Nobody
  /\ writer' = w
  /\ GoTo(w, "recheck")
  /\ UNCHANGED <<infoResult, infoResponse, infoReply, readers,
                 infoMetadataCached, cachedInfoMetadata, responseCode>>

\* std::unique_lock: waits for every other holder of the mutex.
WriteLock(w) ==
  /\ At(w, "lock")
  /\ writer = Nobody
  /\ readers = {}
  /\ writer' = w
  /\ GoTo(w, "recheck")
  /\ UNCHANGED <<infoResult, infoResponse, infoReply, readers,
                 infoMetadataCached, cachedInfoMetadata, responseCode>>

\* MUTANT of MoveIntoCache: no second look at the flag under the lock.
MoveUnchecked(w) ==
  /\ At(w, "recheck")
  /\ cachedInfoMetadata' = infoResult[w]
  /\ infoResult' = [infoResult EXCEPT ![w] = {}]
  /\ GoTo(w, "publish")
  /\ UNCHANGED <<infoResponse, infoReply, readers, writer,
                 infoMetadataCached, responseCode>>

\* Still nothing cached: the result is moved into the cache, error or not.
MoveIntoCache(w) ==
  /\ At(w, "recheck")
  /\ ~ infoMetadataCached
  /\ cachedInfoMetadata' = infoResult[w]
  /\ infoResult' = [infoResult EXCEPT ![w] = {}]
  /\ GoTo(w, "publish")
  /\ UNCHANGED <<infoResponse, infoReply, readers, writer,
                 infoMetadataCached, responseCode>>

\* MUTANT of Publish: the response is built from the result after the move.
PublishMovedFrom(w) ==
  /\ At(w, "publish")
  /\ infoMetadataCached' = TRUE
  /\ writer' = Nobody
  /\ infoReply' = [infoReply EXCEPT ![w] = {JSONResponse(w, infoResult[w])}]
  /\ GoTo(w, "idle")
  /\ UNCHANGED <<infoResult, infoResponse, readers, cachedInfoMetadata,
                 responseCode>>

\* MUTANT of Publish: the flag is forgotten.
PublishNoFlag(w) ==
  /\ At(w, "publish")
  /\ writer' = Nobody
  /\ infoReply' = [infoReply EXCEPT ![w] = {infoResponse[w]}]
  /\ GoTo(w, "idle")
  /\ UNCHANGED <<infoResult, infoResponse, readers, infoMetadataCached,
                 cachedInfoMetadata, responseCode>>

\* The flag is set, the lock released and the response returned.
Publish(w) ==
  /\ At(w, "publish")
  /\ infoMetadataCached' = TRUE
  /\ writer' = Nobody
  /\ infoReply' = [infoReply EXCEPT ![w] = {infoResponse[w]}]
  /\ GoTo(w, "idle")
  /\ UNCHANGED <<infoResult, infoResponse, readers, cachedInfoMetadata,
                 responseCode>>

\* Another thread was first: its value stays, this thread returns its own.
LostRace(w) ==
  /\ At(w, "recheck")
  /\ infoMetadataCached
  /\ writer' = Nobody
  /\ infoReply' = [infoReply EXCEPT ![w] = {infoResponse[w]}]
  /\ GoTo(w, "idle")
  /\ UNCHANGED <<infoResult, infoResponse, readers,
                 infoMetadataCached, cachedInfoMetadata, responseCode>>

\* A handler of another route fails on this thread: responseCode_ stays 500.
ElsewhereFails(w) ==
  /\ At(w, "idle")
  /\ responseCode' = [responseCode EXCEPT ![w] = 500]
  /\ UNCHANGED <<infoLocal, infoShared>>

-----------------------------------------------------------------------------
\* The steps of handleGetInfo once it was called.
InfoStep(w) ==
  \/ ReadLock(w) \/ ServeCached(w) \/ CacheMiss(w)
  \/ Extract(w) \/ ExtractFails(w) \/ Respond(w)
  \/ WriteLock(w) \/ MoveIntoCache(w) \/ Publish(w) \/ LostRace(w)

InfoNext ==
  \E w \in Worker : Request(w) \/ InfoStep(w) \/ ElsewhereFails(w)

InfoSpec == InfoInit /\ [][InfoNext]_infoVars

\* The operating system keeps running every thread that can take a step.
InfoFairness == \A w \in Worker : WF_infoVars(InfoStep(w))

FairInfoSpec == InfoSpec /\ InfoFairness

-----------------------------------------------------------------------------
InfoTypeOK ==
  /\ infoPc \in [Worker -> InfoSteps]
  /\ infoResult \in [Worker -> Json]
  /\ infoResponse \in [Worker -> Answer]
  /\ infoReply \in [Worker -> SUBSET Answer]
  /\ readers \in SUBSET Worker
  /\ writer \in Worker \cup {Nobody}
  /\ infoMetadataCached \in BOOLEAN
  /\ cachedInfoMetadata \in Json
  /\ responseCode \in [Worker -> Code]

\* Once the flag is set, neither the flag nor the cached value changes again,
\* whichever threads found the cache empty and extract at the same time.
FirstExtractionWins ==
  [][infoMetadataCached =>
       infoMetadataCached' /\ cachedInfoMetadata' = cachedInfoMetadata]_infoVars

\* The locks: a thread holds the mutex shared while it reads, alone while it
\* rechecks and publishes, and never while another thread holds it alone.
LockInv ==
  /\ readers = {w \in Worker : infoPc[w] = "reading"}
  /\ \A w \in Worker : infoPc[w] \in {"recheck", "publish"} <=> writer = w
  /\ writer # Nobody => readers = {}

\* Between building its response and moving its result a thread holds the
\* same members in both; while it publishes, the cache holds its response's.
ValueInv ==
  /\ \A w \in Worker :
       /\ infoPc[w] \in {"lock", "recheck"} => infoResult[w] = infoResponse[w].body
       /\ At(w, "publish") => /\ ~ infoMetadataCached
                              /\ cachedInfoMetadata = infoResponse[w].body
       /\ infoPc[w] \in {"variables", "global_attributes", "respond", "lock", "recheck"}
            => infoResult[w] # {}
       /\ At(w, "publish") => infoResponse[w].body # {}
  /\ infoMetadataCached => cachedInfoMetadata # {}

\* The inductive invariant of the cache.
InfoInv == InfoTypeOK /\ LockInv /\ ValueInv

\* No answer is the moved-from value: whatever order the threads fill and read
\* the cache in, a returned body has at least one member.
AnswersHaveMembers ==
  \A w \in Worker : \A reply \in infoReply[w] : reply.body # {}

\* Where a thread is, seen from outside.
CellPhase == [w \in Worker |->
  CASE infoPc[w] = "idle" -> "idle"
    [] infoPc[w] \in {"lookup", "reading"} -> "asking"
    [] OTHER -> "making"]

\* The cell is empty until the flag is set.
Cell == INSTANCE OnceCell WITH
  Client <- Worker,
  Value <- Json,
  cell <- IF infoMetadataCached THEN {cachedInfoMetadata} ELSE {},
  phase <- CellPhase,
  answer <- [w \in Worker |-> {reply.body : reply \in infoReply[w]}]

\* handleGetInfo, with its locks and its steps, implements the write-once cell.
ImplementsCell == Cell!CellSpec

\* Some request fills the cache, whatever the other threads do meanwhile.
EventuallyCached ==
  (\E w \in Worker : infoPc[w] # "idle") ~> infoMetadataCached

\* When no further request arrives every pending one is answered.
NoMoreRequests == <>[][\A w \in Worker : ~ Request(w)]_infoVars
PendingAnswered ==
  NoMoreRequests => \A w \in Worker : infoPc[w] # "idle" ~> infoPc[w] = "idle"

\* netcdf_server.h:80 "cache get-info data", and netcdf_server.cpp:64-65
\* "Returns the NetCDF detailed information (equivalent of `ncdump -h` with
\* dimensions, variables, and global attributes)": what is cached is that.
CacheHoldsInfo == infoMetadataCached => cachedInfoMetadata = Sections
=============================================================================
