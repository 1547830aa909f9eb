---------------------------- MODULE NetCDFServer ----------------------------
(***************************************************************************)
(* NetCDFServer: the threads that Crow runs handlers on, each taking one   *)
(* request after another, the three routes, and what the handlers share:   *)
(* the metadata cache (module InfoCache), the renderer (module ImageRender)*)
(* and, through thread_local variables, each thread's own past.            *)
(*                                                                         *)
(* The thread_local variables timeIndex_, zIndex_ and concentrationData_   *)
(* are functions of a slot; Slot maps a thread to its slot.                *)
(***************************************************************************)
EXTENDS RequestParams, FiniteSets

CONSTANTS Worker, Nobody, File, NoFile, MaxPolls, PipeCap, WholeSize,
          Target,       \* the request targets that are sent
          MaxRequests   \* BOUND: requests that arrive in a behaviour

ASSUME ServerAssumption ==
  /\ Nobody \notin Worker
  /\ NoFile \notin File
  /\ MaxPolls \in Nat \ {0}
  /\ PipeCap \in Nat \ {0}
  /\ WholeSize \in Nat \ {0}
  /\ TimeSize > 0 /\ ZSize > 0   \* the data file holds data
  /\ MaxRequests \in Nat
  /\ \A t \in Target :
       /\ t \in Seq(Pair)
       /\ \A i \in 1..Len(t) : \A m, n \in t[i].value : m = n

VARIABLES serverPc,            \* what each thread is doing
          route,               \* the route of the request it is at, or was last
          target,              \* the parameters of that request
          timeIndex, zIndex,   \* thread_local timeIndex_, zIndex_, per slot
          concentrationData,   \* thread_local concentrationData_: {slice}, or {}
          result,              \* the local `result`: {slice}, {} for an error
          reply,               \* what each thread last handed to Crow
          arrived,             \* HISTORY: how many requests have arrived
          failed               \* HISTORY: threads on which a handler set 500

VARIABLES infoPc, infoResult, infoResponse, infoReply, readers, writer,
          infoMetadataCached, cachedInfoMetadata

VARIABLES imagePc, grid, imagePath, polls, imageBuffer, imageReply, pngMutex,
          figure, pipe, drawing, fileSize, fileSlice, abandoned

VARIABLE responseCode          \* thread_local responseCode_

Slice == (0..(TimeSize - 1)) \X (0..(ZSize - 1))

Info == INSTANCE InfoCache
Image == INSTANCE ImageRender WITH EmptySlices <- {}

ownVars == <<serverPc, route, target, timeIndex, zIndex, concentrationData,
             result, reply, arrived, failed>>
infoParts == <<infoPc, infoResult, infoResponse, infoReply, readers, writer,
               infoMetadataCached, cachedInfoMetadata>>
imageParts == <<imagePc, grid, imagePath, polls, imageBuffer, imageReply,
                pngMutex, figure, pipe, drawing, fileSize, fileSlice, abandoned>>
serverVars == <<ownVars, infoParts, imageParts, responseCode>>

Routes == {"/get-info", "/get-data", "/get-image"}
ServerSteps == {"idle", "info", "validate", "extract", "respond", "grid", "image"}
Bodies == {"info", "data", "png", "error"}
Response == [code : {200, 500}, body : Bodies, slices : SUBSET Slice]

\* MUTANT of Slot: static variables, one slot for all threads.
OneSlot(w) == CHOOSE v \in Worker : TRUE

\* thread_local: each thread has its own.
Slot(w) == w

ServerInit ==
  /\ serverPc = [w \in Worker |-> "idle"]
  /\ route = [w \in Worker |-> "/get-info"]
  /\ target = [w \in Worker |-> <<>>]
  /\ timeIndex = [w \in Worker |-> 0]
  /\ zIndex = [w \in Worker |-> 0]
  /\ concentrationData = [w \in Worker |-> {}]
  /\ result = [w \in Worker |-> {}]
  /\ reply = [w \in Worker |-> {}]
  /\ arrived = 0
  /\ failed = {}
  /\ Info!InfoInit
  /\ Image!ImageInit

-----------------------------------------------------------------------------
At(w, step) == serverPc[w] = step
GoTo(w, step) == serverPc' = [serverPc EXCEPT ![w] = step]

\* A handler returns: Crow gets the reply and the thread is free.
Reply(w, code, body, slices) ==
  /\ reply' = [reply EXCEPT ![w] = {[code |-> code, body |-> body, slices |-> slices]}]
  /\ GoTo(w, "idle")

\* JSONResponse: whatever responseCode_ the thread has.
JSONReply(w, body, slices) == Reply(w, responseCode[w], body, slices)

\* A request arrives; it replaces what the thread was asked before.
Arrive(w, r, t) ==
  /\ At(w, "idle")
  /\ arrived < MaxRequests
  /\ arrived' = arrived + 1
  /\ route' = [route EXCEPT ![w] = r]
  /\ target' = [target EXCEPT ![w] = t]

\* /get-info without '?': handleGetInfo is called.
GetInfo(w) ==
  /\ Arrive(w, "/get-info", <<>>)
  /\ Info!Request(w)
  /\ GoTo(w, "info")
  /\ UNCHANGED <<timeIndex, zIndex, concentrationData, result, reply, failed,
                 imageParts>>

\* /get-info with a '?' anywhere in the raw url is refused.
RefuseQuery(w, t) ==
  /\ Arrive(w, "/get-info", t)
  /\ JSONReply(w, "error", {})
  /\ UNCHANGED <<timeIndex, zIndex, concentrationData, result, failed,
                 infoParts, imageParts, responseCode>>

\* /get-data and /get-image: the parameters come first.  Another name must be
\* left for the picture (the bound that File sets).
NameLeft ==
  Cardinality({v \in Worker : route[v] = "/get-image" /\
                              serverPc[v] \in {"validate", "extract", "grid"}})
    < Cardinality({f \in File : Image!Fresh(f)})

GetWithParams(w, r, t) ==
  /\ r \in {"/get-data", "/get-image"}
  /\ r = "/get-image" => NameLeft
  /\ Arrive(w, r, t)
  /\ GoTo(w, "validate")
  /\ UNCHANGED <<timeIndex, zIndex, concentrationData, result, reply, failed,
                 infoParts, imageParts, responseCode>>

\* The conversions assign the thread's indices as far as they get.
AssignIndices(w, pairs) ==
  /\ timeIndex' = IF AssignsTime(pairs)
                  THEN [timeIndex EXCEPT ![Slot(w)] = Index(Get(pairs, "time"))]
                  ELSE timeIndex
  /\ zIndex' = IF AssignsZ(pairs)
               THEN [zIndex EXCEPT ![Slot(w)] = Index(Get(pairs, "z"))]
               ELSE zIndex

\* validateRequestParameters accepts.
Accept(w) ==
  LET pairs == Pairs(target[w]) IN
    /\ At(w, "validate")
    /\ Verdict(pairs) = "accepted"
    /\ AssignIndices(w, pairs)
    /\ GoTo(w, "extract")
    /\ UNCHANGED <<route, target, concentrationData, result, reply, arrived,
                   failed, infoParts, imageParts, responseCode>>

\* MUTANT of Reject: the error of the validation is not looked at.
RejectGoesOn(w) ==
  LET pairs == Pairs(target[w]) IN
    /\ At(w, "validate")
    /\ Verdict(pairs) \in {"MISSING_PARMS", "INVALID_PARM", "INDEX_OOR"}
    /\ AssignIndices(w, pairs)
    /\ GoTo(w, "extract")
    /\ UNCHANGED <<route, target, concentrationData, result, reply, arrived,
                   failed, infoParts, imageParts, responseCode>>

\* It rejects with an error in the body and the thread's status unchanged.
Reject(w) ==
  LET pairs == Pairs(target[w]) IN
    /\ At(w, "validate")
    /\ Verdict(pairs) \in {"MISSING_PARMS", "INVALID_PARM", "INDEX_OOR"}
    /\ AssignIndices(w, pairs)
    /\ JSONReply(w, "error", {})
    /\ UNCHANGED <<route, target, concentrationData, result, arrived, failed,
                   infoParts, imageParts, responseCode>>

\* MUTANT of Fail: one status for all threads.
FailEverywhere(w) ==
  /\ responseCode' = [v \in Worker |-> 500]
  /\ failed' = failed \cup {w}

\* responseCode_ = 500.
Fail(w) ==
  /\ responseCode' = [responseCode EXCEPT ![w] = 500]
  /\ failed' = failed \cup {w}

\* std::stoi throws: an error with status 500.
RejectStoi(w) ==
  LET pairs == Pairs(target[w]) IN
    /\ At(w, "validate")
    /\ Verdict(pairs) = "FAIL_STOI"
    /\ AssignIndices(w, pairs)
    /\ Fail(w)
    /\ Reply(w, responseCode'[w], "error", {})
    /\ UNCHANGED <<route, target, concentrationData, result, arrived,
                   infoParts, imageParts>>

\* A dimension is missing: the exception leaves the handler, Crow answers 500.
ValidateThrows(w) ==
  LET pairs == Pairs(target[w]) IN
    /\ At(w, "validate")
    /\ Verdict(pairs) \in {"INDEX_OOR", "accepted"}
    /\ AssignIndices(w, pairs)
    /\ Reply(w, 500, "error", {})
    /\ failed' = failed \cup {w}
    /\ UNCHANGED <<route, target, concentrationData, result, arrived,
                   infoParts, imageParts, responseCode>>

\* extractNetCDFSlice reads the slice of the thread's indices.
ExtractSlice(w) ==
  /\ At(w, "extract")
  /\ LET slice == <<timeIndex[Slot(w)], zIndex[Slot(w)]>> IN
       /\ slice \in Slice
       /\ concentrationData' = [concentrationData EXCEPT ![Slot(w)] = {slice}]
       /\ result' = [result EXCEPT ![w] = {slice}]
  /\ GoTo(w, IF route[w] = "/get-data" THEN "respond" ELSE "grid")
  /\ UNCHANGED <<route, target, timeIndex, zIndex, reply, arrived, failed,
                 infoParts, imageParts, responseCode>>

\* Reading fails: the error is in the result, concentrationData_ keeps what an
\* earlier request left there.
ExtractSliceFails(w) ==
  /\ At(w, "extract")
  /\ result' = [result EXCEPT ![w] = {}]
  /\ GoTo(w, IF route[w] = "/get-data" THEN "respond" ELSE "grid")
  /\ UNCHANGED <<route, target, timeIndex, zIndex, concentrationData, reply,
                 arrived, failed, infoParts, imageParts, responseCode>>

\* handleGetData answers the result, error or not, with the thread's status.
RespondData(w) ==
  /\ At(w, "respond")
  /\ JSONReply(w, IF result[w] = {} THEN "error" ELSE "data", result[w])
  /\ UNCHANGED <<route, target, timeIndex, zIndex, concentrationData, result,
                 arrived, failed, infoParts, imageParts, responseCode>>

\* handleGetImage answers an extraction error with 500.
ImageError(w) ==
  /\ At(w, "grid")
  /\ result[w] = {}
  /\ Fail(w)
  /\ Reply(w, responseCode'[w], "error", {})
  /\ UNCHANGED <<route, target, timeIndex, zIndex, concentrationData, result,
                 arrived, infoParts, imageParts>>

\* MUTANT of BuildGrid: the error of the extraction is not looked at.
BuildGridAnyway(w) ==
  /\ At(w, "grid")
  /\ \E slice \in concentrationData[Slot(w)] : Image!Begin(w, slice)
  /\ GoTo(w, "image")
  /\ UNCHANGED <<route, target, timeIndex, zIndex, concentrationData, result,
                 reply, arrived, failed, infoParts>>

\* The grid is filled from concentrationData_ and rendering begins.
BuildGrid(w) ==
  /\ At(w, "grid")
  /\ result[w] # {}
  /\ \E slice \in concentrationData[Slot(w)] : Image!Begin(w, slice)
  /\ GoTo(w, "image")
  /\ UNCHANGED <<route, target, timeIndex, zIndex, concentrationData, result,
                 reply, arrived, failed, infoParts>>

\* handleGetInfo goes on, and its response is the reply when it returns.
InfoReplies(w) ==
  IF infoPc'[w] = "idle"
  THEN \E answer \in infoReply'[w] :
         Reply(w, answer.code, IF "error" \in answer.body THEN "error" ELSE "info", {})
  ELSE UNCHANGED <<reply, serverPc>>

InfoGoesOn(w) ==
  /\ At(w, "info")
  /\ Info!InfoStep(w)
  /\ InfoReplies(w)
  /\ failed' = IF responseCode' # responseCode THEN failed \cup {w} ELSE failed
  /\ UNCHANGED <<route, target, timeIndex, zIndex, concentrationData, result,
                 arrived, imageParts>>

\* Rendering goes on, and the picture or the error is the reply.
ImageReplies(w) ==
  IF imagePc'[w] = "idle"
  THEN \E answer \in imageReply'[w] :
         /\ Reply(w, answer.code, IF answer.image = {} THEN "error" ELSE "png",
                  {picture.slice : picture \in answer.image})
         /\ failed' = IF answer.code = 500 THEN failed \cup {w} ELSE failed
  ELSE UNCHANGED <<reply, serverPc, failed>>

ImageGoesOn(w) ==
  /\ At(w, "image")
  /\ Image!ImageStep(w)
  /\ ImageReplies(w)
  /\ UNCHANGED <<route, target, timeIndex, zIndex, concentrationData, result,
                 arrived, infoParts>>

\* gnuplot runs beside the threads.
GnuplotGoesOn ==
  /\ Image!Gnuplot
  /\ UNCHANGED <<ownVars, infoParts>>

-----------------------------------------------------------------------------
Handle(w) ==
  \/ Accept(w) \/ Reject(w) \/ RejectStoi(w) \/ ValidateThrows(w)
  \/ ExtractSlice(w) \/ ExtractSliceFails(w) \/ RespondData(w)
  \/ ImageError(w) \/ BuildGrid(w)
  \/ InfoGoesOn(w) \/ ImageGoesOn(w)

ServerNext ==
  \/ \E w \in Worker :
       \/ GetInfo(w)
       \/ \E t \in Target : RefuseQuery(w, t)
       \/ \E t \in Target, r \in Routes : GetWithParams(w, r, t)
       \/ Handle(w)
  \/ GnuplotGoesOn

ServerSpec == ServerInit /\ [][ServerNext]_serverVars

\* The operating system runs every thread that is not blocked, and gnuplot.
FairServerSpec ==
  /\ ServerSpec
  /\ \A w \in Worker : WF_serverVars(Handle(w))
  /\ WF_serverVars(GnuplotGoesOn)

-----------------------------------------------------------------------------
ServerTypeOK ==
  /\ serverPc \in [Worker -> ServerSteps]
  /\ route \in [Worker -> Routes]
  /\ target \in [Worker -> Seq(Pair)]
  /\ timeIndex \in [Worker -> 0..(2 * IntHalf - 1)]
  /\ zIndex \in [Worker -> 0..(2 * IntHalf - 1)]
  /\ concentrationData \in [Worker -> SUBSET Slice]
  /\ result \in [Worker -> SUBSET Slice]
  /\ reply \in [Worker -> SUBSET Response]
  /\ arrived \in 0..MaxRequests
  /\ failed \in SUBSET Worker

\* A thread runs one handler at a time.
PartInv ==
  \A w \in Worker :
    /\ infoPc[w] # "idle" <=> At(w, "info")
    /\ imagePc[w] # "idle" <=> At(w, "image")

\* Data and pictures are of the slice that this request asked for: neither a
\* request that another thread handles at the same time nor one that this
\* thread handled before gets into the indices, the data, the grid, the figure
\* or the file on the way to the reply.
DataIsWhatWasAsked ==
  \A w \in Worker : At(w, "idle") =>
    \A response \in reply[w] : \A slice \in response.slices :
      AsksForSlice(target[w], slice)

\* Status 500 is answered only by a thread on which a handler has failed: the
\* failure of one thread never shows in the status of another's replies.
StatusIsOwn ==
  \A w \in Worker : \A response \in reply[w] :
    response.code = 500 => w \in failed

\* The threads of the server, seen through the cache, behave as InfoCache says
\* (other routes' failures included), and seen through the renderer as
\* ImageRender says: what holds of the parts holds in the server.
UsesCache == Info!InfoSpec
UsesRenderer == Image!ImageSpec

Service == INSTANCE NetCDFService WITH
  asked <- [w \in Worker |-> IF At(w, "idle") THEN {}
                              ELSE {[route |-> route[w], target |-> target[w]]}],
  spoiled <- {w \in Worker : responseCode[w] = 500}

\* The threads, with everything that they share, implement NetCDFService: each
\* request has one reply, of its own kind and for the slice that it asks for, or
\* an error; only well-formed requests have slices; and the status of replies
\* is the thread's, but for pictures and for what Crow answers itself.
ImplementsService == Service!ServiceSpec

\* Whom a thread waits for: the holders of the lock that keeps it.
WaitsFor(w) == {v \in Worker :
  \/ infoPc[w] \in {"lookup", "lock"} /\ writer = v
  \/ infoPc[w] = "lock" /\ v \in readers
  \/ imagePc[w] = "visual" /\ pngMutex = v}

\* Whoever holds a lock that a thread waits for is another thread, in the middle
\* of its own handler, and waits for no lock itself: neither the upgrade of the
\* cache's mutex nor any return of a handler, failed or not, leaves a lock behind.
NoCircularWait ==
  \A w \in Worker : \A v \in WaitsFor(w) :
    v # w /\ ~ At(v, "idle") /\ WaitsFor(v) = {}

\* How many steps a handler takes at most from where it is, the waiting for locks
\* and for room in the pipe left out.
InfoStepsLeft == [lookup |-> 9, reading |-> 8, dimensions |-> 7, variables |-> 6,
                  global_attributes |-> 5, respond |-> 4, lock |-> 3,
                  recheck |-> 2, publish |-> 1]
ImageStepsLeft == [visual |-> 5, draw |-> 4, save |-> 3, wait |-> 2, open |-> 2,
                   remove |-> 1]
PollsLeft(w) == IF imagePc[w] \in {"open", "remove"} THEN 0
                ELSE IF imagePc[w] = "wait" THEN MaxPolls - polls[w] ELSE MaxPolls
StepsLeft(w) ==
  CASE At(w, "idle") -> 0
    [] At(w, "info") -> InfoStepsLeft[infoPc[w]]
    [] At(w, "image") -> ImageStepsLeft[imagePc[w]] + PollsLeft(w)
    [] At(w, "respond") -> 1
    [] At(w, "grid") -> 6 + MaxPolls
    [] At(w, "extract") -> 7 + MaxPolls
    [] At(w, "validate") -> 8 + MaxPolls

\* A handler only ever gets nearer to its end: no failure, poll or other thread
\* makes it go back, so that a request ends after a bounded number of steps.
HandlersGetOn ==
  [][\A w \in Worker : ~ At(w, "idle") =>
       \/ StepsLeft(w)' \in 0 .. StepsLeft(w) - 1
       \/ UNCHANGED <<serverPc[w], infoPc[w], imagePc[w], polls[w]>>]_serverVars

\* Every request is answered once the stream of requests pauses (which
\* MaxRequests makes it do): no thread waits for ever for the cache's mutex,
\* png_mutex, the pipe or the file, whatever the other threads fail at.
EveryRequestAnswered ==
  \A w \in Worker : ~ At(w, "idle") ~> At(w, "idle")

\* netcdf_server.cpp:252-253 "function for b. /get-data, params to include time
\* index and z ( height )  index, returns json response that includes x, y, and
\* concentration data": a response that holds the data is not an Internal
\* Server Error (500, common.h:205).
DataIsNotAnError ==
  \A w \in Worker : \A response \in reply[w] :
    response.body = "data" => response.code = 200
=============================================================================
