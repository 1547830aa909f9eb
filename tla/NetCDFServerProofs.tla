------------------------- MODULE NetCDFServerProofs -------------------------
(***************************************************************************)
(* The composed server implements its parts, for any threads, targets,     *)
(* names and bounds, and keeps requests apart.                             *)
(***************************************************************************)
EXTENDS NetCDFServer, RequestParamsProofs

InfoProofs == INSTANCE InfoCacheProofs
ImageProofs == INSTANCE ImageRenderProofs WITH EmptySlices <- {}

\* Where the threads are: each runs one handler at a time.
PlaceInv ==
  /\ serverPc \in [Worker -> ServerSteps]
  /\ infoPc \in [Worker -> Info!InfoSteps]
  /\ imagePc \in [Worker -> Image!ImageSteps]
  /\ PartInv

LEMMA PlaceInit == ServerInit => PlaceInv
  BY DEF ServerInit, PlaceInv, PartInv, Info!InfoInit, Image!ImageInit, At,
         ServerSteps, Info!InfoSteps, Image!ImageSteps

\* A step of a handler changes the place of its own thread only.
LEMMA InfoStepPlace ==
  ASSUME infoPc \in [Worker -> Info!InfoSteps], NEW w \in Worker, Info!InfoStep(w)
  PROVE  /\ infoPc' \in [Worker -> Info!InfoSteps]
         /\ \A v \in Worker : v # w => infoPc'[v] = infoPc[v]
  BY DEF Info!InfoStep, Info!ReadLock, Info!ServeCached, Info!CacheMiss,
         Info!Extract, Info!ExtractFails, Info!Respond, Info!WriteLock,
         Info!MoveIntoCache, Info!Publish, Info!LostRace, Info!At, Info!GoTo,
         Info!StepAfter, Info!Sections, Info!InfoSteps

LEMMA ImageStepPlace ==
  ASSUME imagePc \in [Worker -> Image!ImageSteps], NEW w \in Worker, Image!ImageStep(w)
  PROVE  /\ imagePc' \in [Worker -> Image!ImageSteps]
         /\ \A v \in Worker : v # w => imagePc'[v] = imagePc[v]
  BY DEF Image!ImageStep, Image!GridEmpty, Image!LockPng, Image!DrawFigure,
         Image!DrawThrows, Image!Save, Image!SaveReturnsFalse, Image!SaveThrows,
         Image!FileReady, Image!FileNotReady, Image!WaitTimesOut,
         Image!ReadImage, Image!OpenFails, Image!RemoveImage,
         Image!FilesystemThrows, Image!ReturnError, Image!Uncaught,
         Image!Return, Image!ImageSteps

\* Where every thread is after every step.
LEMMA PlaceStep ==
  ASSUME PlaceInv, [ServerNext]_serverVars
  PROVE  PlaceInv'
<1> USE DEF PlaceInv, PartInv, At
<1>1. ASSUME NEW w \in Worker, GetInfo(w)
      PROVE  PlaceInv'
  BY <1>1 DEF GetInfo, Arrive, GoTo, Info!Request, Info!At, Info!GoTo,
              Info!InfoSteps, ServerSteps, imageParts
<1>2. ASSUME NEW w \in Worker, NEW t \in Target, RefuseQuery(w, t)
      PROVE  PlaceInv'
  BY <1>2 DEF RefuseQuery, Arrive, JSONReply, Reply, GoTo, ServerSteps,
              infoParts, imageParts
<1>3. ASSUME NEW w \in Worker, NEW t \in Target, NEW r \in Routes,
             GetWithParams(w, r, t)
      PROVE  PlaceInv'
  BY <1>3 DEF GetWithParams, Arrive, GoTo, ServerSteps, infoParts, imageParts
<1>4. ASSUME NEW w \in Worker, Accept(w)
      PROVE  PlaceInv'
  BY <1>4 DEF Accept, GoTo, ServerSteps, infoParts, imageParts
<1>5. ASSUME NEW w \in Worker,
             Reject(w) \/ RejectStoi(w) \/ ValidateThrows(w)
      PROVE  PlaceInv'
  BY <1>5 DEF Reject, RejectStoi, ValidateThrows, JSONReply, Reply, GoTo,
              ServerSteps, infoParts, imageParts
<1>6. ASSUME NEW w \in Worker, ExtractSlice(w) \/ ExtractSliceFails(w)
      PROVE  PlaceInv'
  BY <1>6 DEF ExtractSlice, ExtractSliceFails, GoTo, ServerSteps, infoParts,
              imageParts
<1>7. ASSUME NEW w \in Worker, RespondData(w) \/ ImageError(w)
      PROVE  PlaceInv'
  BY <1>7 DEF RespondData, ImageError, JSONReply, Reply, GoTo, ServerSteps,
              infoParts, imageParts
<1>8. ASSUME NEW w \in Worker, BuildGrid(w)
      PROVE  PlaceInv'
  BY <1>8 DEF BuildGrid, GoTo, ServerSteps, Image!Begin, Image!ImageSteps,
              infoParts
<1>9. ASSUME NEW w \in Worker, InfoGoesOn(w)
      PROVE  PlaceInv'
  <2>1. Info!InfoStep(w) /\ InfoReplies(w) /\ UNCHANGED imageParts
    BY <1>9 DEF InfoGoesOn
  <2>2. /\ infoPc' \in [Worker -> Info!InfoSteps]
        /\ \A v \in Worker : v # w => infoPc'[v] = infoPc[v]
    BY <2>1, InfoStepPlace
  <2>3. CASE infoPc'[w] = "idle"
    BY <1>9, <2>1, <2>2, <2>3 DEF InfoGoesOn, InfoReplies, Reply, GoTo,
       ServerSteps, imageParts
  <2>4. CASE infoPc'[w] # "idle"
    BY <1>9, <2>1, <2>2, <2>4 DEF InfoGoesOn, InfoReplies, imageParts
  <2> QED
    BY <2>3, <2>4
<1>10. ASSUME NEW w \in Worker, ImageGoesOn(w)
       PROVE  PlaceInv'
  <2>1. Image!ImageStep(w) /\ ImageReplies(w) /\ UNCHANGED infoParts
    BY <1>10 DEF ImageGoesOn
  <2>2. /\ imagePc' \in [Worker -> Image!ImageSteps]
        /\ \A v \in Worker : v # w => imagePc'[v] = imagePc[v]
    BY <2>1, ImageStepPlace
  <2>3. CASE imagePc'[w] = "idle"
    BY <1>10, <2>1, <2>2, <2>3 DEF ImageGoesOn, ImageReplies, Reply, GoTo,
       ServerSteps, infoParts
  <2>4. CASE imagePc'[w] # "idle"
    BY <1>10, <2>1, <2>2, <2>4 DEF ImageGoesOn, ImageReplies, infoParts
  <2> QED
    BY <2>3, <2>4
<1>11. CASE GnuplotGoesOn
  BY <1>11 DEF GnuplotGoesOn, Image!Gnuplot, Image!GnuplotOpen,
     Image!GnuplotRejects, Image!GnuplotWrite, Image!GnuplotDone,
     Image!imageLocal, ownVars, infoParts
<1>12. CASE UNCHANGED serverVars
  BY <1>12 DEF serverVars, ownVars, infoParts, imageParts
<1> QED
  BY <1>1, <1>2, <1>3, <1>4, <1>5, <1>6, <1>7, <1>8, <1>9, <1>10, <1>11, <1>12
     DEF ServerNext, Handle

LEMMA Place == ServerSpec => []PlaceInv
<1>1. ServerInit => PlaceInv
  BY PlaceInit
<1>2. PlaceInv /\ [ServerNext]_serverVars => PlaceInv'
  BY PlaceStep
<1> QED
  BY <1>1, <1>2, PTL DEF ServerSpec

-----------------------------------------------------------------------------
\* Every step sets responseCode_ of at most one thread, to 500, or leaves it.
Sets500(w) == responseCode' = [responseCode EXCEPT ![w] = 500]

LEMMA InfoStepCode ==
  ASSUME NEW w \in Worker, Info!InfoStep(w)
  PROVE  UNCHANGED responseCode \/ Sets500(w)
  BY DEF Info!InfoStep, Info!ReadLock, Info!ServeCached, Info!CacheMiss,
         Info!Extract, Info!ExtractFails, Info!Respond, Info!WriteLock,
         Info!MoveIntoCache, Info!Publish, Info!LostRace, Sets500

LEMMA ImageStepCode ==
  ASSUME NEW w \in Worker, Image!ImageStep(w)
  PROVE  UNCHANGED responseCode \/ Sets500(w)
  BY DEF Image!ImageStep, Image!GridEmpty, Image!LockPng, Image!DrawFigure,
         Image!DrawThrows, Image!Save, Image!SaveReturnsFalse, Image!SaveThrows,
         Image!FileReady, Image!FileNotReady, Image!WaitTimesOut,
         Image!ReadImage, Image!OpenFails, Image!RemoveImage,
         Image!FilesystemThrows, Image!ReturnError, Image!Uncaught, Sets500

\* The steps that are not the cache's leave it alone, but for the status that
\* another route sets on a thread that is not in handleGetInfo.
LEMMA OtherStepOfCache ==
  ASSUME PlaceInv, NEW w \in Worker, ~ At(w, "info"), UNCHANGED infoParts,
         UNCHANGED responseCode \/ Sets500(w)
  PROVE  [Info!InfoNext]_(Info!infoVars)
<1>1. CASE UNCHANGED responseCode
  BY <1>1 DEF infoParts, Info!infoVars, Info!infoLocal, Info!infoShared
<1>2. CASE Sets500(w)
  <2>1. Info!ElsewhereFails(w)
    BY <1>2 DEF PlaceInv, PartInv, infoParts, Sets500, Info!ElsewhereFails,
                Info!At, Info!infoLocal, Info!infoShared
  <2> QED
    BY <2>1 DEF Info!InfoNext
<1> QED
  BY <1>1, <1>2

LEMMA StepOfCache ==
  ASSUME PlaceInv, [ServerNext]_serverVars
  PROVE  [Info!InfoNext]_(Info!infoVars)
<1>1. ASSUME NEW w \in Worker, GetInfo(w)
      PROVE  [Info!InfoNext]_(Info!infoVars)
  BY <1>1 DEF GetInfo, Info!InfoNext
<1>2. ASSUME NEW w \in Worker, NEW t \in Target,
             RefuseQuery(w, t) \/ \E r \in Routes : GetWithParams(w, r, t)
      PROVE  [Info!InfoNext]_(Info!infoVars)
  <2>1. ~ At(w, "info") /\ UNCHANGED <<infoParts, responseCode>>
    BY <1>2 DEF RefuseQuery, GetWithParams, Arrive, At
  <2> QED
    BY <2>1, OtherStepOfCache
<1>3. ASSUME NEW w \in Worker,
             \/ Accept(w) \/ Reject(w) \/ RejectStoi(w) \/ ValidateThrows(w)
             \/ ExtractSlice(w) \/ ExtractSliceFails(w) \/ RespondData(w)
             \/ ImageError(w)
      PROVE  [Info!InfoNext]_(Info!infoVars)
  <2>1. ~ At(w, "info") /\ UNCHANGED infoParts
    BY <1>3 DEF Accept, Reject, RejectStoi, ValidateThrows, ExtractSlice,
                ExtractSliceFails, RespondData, ImageError, At
  <2>2. UNCHANGED responseCode \/ Sets500(w)
    BY <1>3 DEF Accept, Reject, RejectStoi, ValidateThrows, ExtractSlice,
                ExtractSliceFails, RespondData, ImageError, Fail, Sets500
  <2> QED
    BY <2>1, <2>2, OtherStepOfCache
<1>4. ASSUME NEW w \in Worker, BuildGrid(w)
      PROVE  [Info!InfoNext]_(Info!infoVars)
  <2>1. ~ At(w, "info") /\ UNCHANGED <<infoParts, responseCode>>
    BY <1>4 DEF BuildGrid, Image!Begin, At
  <2> QED
    BY <2>1, OtherStepOfCache
<1>5. ASSUME NEW w \in Worker, InfoGoesOn(w)
      PROVE  [Info!InfoNext]_(Info!infoVars)
  BY <1>5 DEF InfoGoesOn, Info!InfoNext
<1>6. ASSUME NEW w \in Worker, ImageGoesOn(w)
      PROVE  [Info!InfoNext]_(Info!infoVars)
  <2>1. ~ At(w, "info") /\ UNCHANGED infoParts /\ Image!ImageStep(w)
    BY <1>6 DEF ImageGoesOn, At
  <2> QED
    BY <2>1, ImageStepCode, OtherStepOfCache
<1>7. CASE GnuplotGoesOn
  BY <1>7 DEF GnuplotGoesOn, Image!Gnuplot, Image!GnuplotOpen,
     Image!GnuplotRejects, Image!GnuplotWrite, Image!GnuplotDone, infoParts,
     Info!infoVars, Info!infoLocal, Info!infoShared
<1>8. CASE UNCHANGED serverVars
  BY <1>8 DEF serverVars, infoParts, Info!infoVars, Info!infoLocal, Info!infoShared
<1> QED
  BY <1>1, <1>2, <1>3, <1>4, <1>5, <1>6, <1>7, <1>8 DEF ServerNext, Handle

\* The server, seen through its cache, is InfoCache: what the other routes do to
\* a thread's status is all that reaches it.
THEOREM ServerUsesCache == ServerSpec => UsesCache
<1>1. ServerInit => Info!InfoInit
  BY DEF ServerInit
<1>2. PlaceInv /\ [ServerNext]_serverVars => [Info!InfoNext]_(Info!infoVars)
  BY StepOfCache
<1> QED
  BY <1>1, <1>2, Place, PTL DEF ServerSpec, UsesCache, Info!InfoSpec

-----------------------------------------------------------------------------
\* The same of the renderer.
LEMMA OtherStepOfRenderer ==
  ASSUME PlaceInv, NEW w \in Worker, ~ At(w, "image"), UNCHANGED imageParts,
         UNCHANGED responseCode \/ Sets500(w)
  PROVE  [Image!ImageNext]_(Image!imageVars)
<1> USE DEF imageParts, Image!imageLocal, Image!gnuplotVars, Image!diskVars
<1>1. CASE UNCHANGED responseCode
  BY <1>1 DEF Image!imageVars
<1>2. CASE Sets500(w)
  <2>1. Image!ImageElsewhereFails(w)
    BY <1>2 DEF PlaceInv, PartInv, Sets500, Image!ImageElsewhereFails
  <2> QED
    BY <2>1 DEF Image!ImageNext
<1> QED
  BY <1>1, <1>2

LEMMA StepOfRenderer ==
  ASSUME PlaceInv, [ServerNext]_serverVars, \A w \in Worker : concentrationData[w] \subseteq Slice
  PROVE  [Image!ImageNext]_(Image!imageVars)
<1>1. ASSUME NEW w \in Worker, GetInfo(w)
      PROVE  [Image!ImageNext]_(Image!imageVars)
  <2>1. ~ At(w, "image") /\ UNCHANGED <<imageParts, responseCode>>
    BY <1>1 DEF GetInfo, Arrive, At, Info!Request
  <2> QED
    BY <2>1, OtherStepOfRenderer
<1>2. ASSUME NEW w \in Worker, NEW t \in Target,
             RefuseQuery(w, t) \/ \E r \in Routes : GetWithParams(w, r, t)
      PROVE  [Image!ImageNext]_(Image!imageVars)
  <2>1. ~ At(w, "image") /\ UNCHANGED <<imageParts, responseCode>>
    BY <1>2 DEF RefuseQuery, GetWithParams, Arrive, At
  <2> QED
    BY <2>1, OtherStepOfRenderer
<1>3. ASSUME NEW w \in Worker,
             \/ Accept(w) \/ Reject(w) \/ RejectStoi(w) \/ ValidateThrows(w)
             \/ ExtractSlice(w) \/ ExtractSliceFails(w) \/ RespondData(w)
             \/ ImageError(w)
      PROVE  [Image!ImageNext]_(Image!imageVars)
  <2>1. ~ At(w, "image") /\ UNCHANGED imageParts
    BY <1>3 DEF Accept, Reject, RejectStoi, ValidateThrows, ExtractSlice,
                ExtractSliceFails, RespondData, ImageError, At
  <2>2. UNCHANGED responseCode \/ Sets500(w)
    BY <1>3 DEF Accept, Reject, RejectStoi, ValidateThrows, ExtractSlice,
                ExtractSliceFails, RespondData, ImageError, Fail, Sets500
  <2> QED
    BY <2>1, <2>2, OtherStepOfRenderer
<1>4. ASSUME NEW w \in Worker, BuildGrid(w)
      PROVE  [Image!ImageNext]_(Image!imageVars)
  <2>1. PICK slice \in concentrationData[w] : Image!Begin(w, slice)
    BY <1>4 DEF BuildGrid, Slot
  <2>2. slice \in Slice
    BY <2>1
  <2> QED
    BY <2>1, <2>2 DEF Image!ImageNext
<1>5. ASSUME NEW w \in Worker, InfoGoesOn(w)
      PROVE  [Image!ImageNext]_(Image!imageVars)
  <2>1. ~ At(w, "image") /\ UNCHANGED imageParts /\ Info!InfoStep(w)
    BY <1>5 DEF InfoGoesOn, At
  <2> QED
    BY <2>1, InfoStepCode, OtherStepOfRenderer
<1>6. ASSUME NEW w \in Worker, ImageGoesOn(w)
      PROVE  [Image!ImageNext]_(Image!imageVars)
  BY <1>6 DEF ImageGoesOn, Image!ImageNext
<1>7. CASE GnuplotGoesOn
  BY <1>7 DEF GnuplotGoesOn, Image!ImageNext
<1>8. CASE UNCHANGED serverVars
  BY <1>8 DEF serverVars, imageParts, Image!imageVars, Image!imageLocal,
     Image!gnuplotVars, Image!diskVars
<1> QED
  BY <1>1, <1>2, <1>3, <1>4, <1>5, <1>6, <1>7, <1>8 DEF ServerNext, Handle

\* A thread's data is that of a slice of the file.
DataInv == concentrationData \in [Worker -> SUBSET Slice]

LEMMA DataStep ==
  ASSUME DataInv, [ServerNext]_serverVars
  PROVE  DataInv'
<1>1. ASSUME NEW w \in Worker, ExtractSlice(w)
      PROVE  DataInv'
  BY <1>1 DEF ExtractSlice, DataInv, Slot
<1>2. CASE UNCHANGED concentrationData
  BY <1>2 DEF DataInv
<1>3. UNCHANGED concentrationData \/ \E w \in Worker : ExtractSlice(w)
  BY DEF ServerNext, Handle, GetInfo, RefuseQuery, GetWithParams, Accept,
         Reject, RejectStoi, ValidateThrows, ExtractSliceFails, RespondData,
         ImageError, BuildGrid, InfoGoesOn, ImageGoesOn, GnuplotGoesOn,
         serverVars, ownVars
<1> QED
  BY <1>1, <1>2, <1>3

\* The server, seen through the renderer, is ImageRender.
THEOREM ServerUsesRenderer == ServerSpec => UsesRenderer
<1>1. ServerInit => Image!ImageInit /\ DataInv
  BY DEF ServerInit, DataInv
<1>2. DataInv /\ [ServerNext]_serverVars => DataInv'
  BY DataStep
<1>3. PlaceInv /\ DataInv /\ [ServerNext]_serverVars
        => [Image!ImageNext]_(Image!imageVars)
  BY StepOfRenderer DEF DataInv
<1> QED
  BY <1>1, <1>2, <1>3, Place, PTL DEF ServerSpec, UsesRenderer, Image!ImageSpec

-----------------------------------------------------------------------------
\* What is proved of the parts holds in the server.  The modules of the proofs
\* are instantiated beside those of the server; they say the same.
LEMMA SameCache ==
  /\ Info!InfoInit = InfoProofs!InfoInit
  /\ [Info!InfoNext]_(Info!infoVars) = [InfoProofs!InfoNext]_(InfoProofs!infoVars)
  /\ Info!InfoInv = InfoProofs!InfoInv
<1>1. Info!InfoInit = InfoProofs!InfoInit
  BY DEF Info!InfoInit, InfoProofs!InfoInit, Info!BlankResponse,
     InfoProofs!BlankResponse
<1>2. Info!InfoNext = InfoProofs!InfoNext
  BY DEF Info!InfoNext, InfoProofs!InfoNext, Info!InfoStep,
     InfoProofs!InfoStep, Info!Request, InfoProofs!Request, Info!ReadLock,
     InfoProofs!ReadLock, Info!ServeCached, InfoProofs!ServeCached,
     Info!CacheMiss, InfoProofs!CacheMiss, Info!Extract, InfoProofs!Extract,
     Info!ExtractFails, InfoProofs!ExtractFails, Info!Respond,
     InfoProofs!Respond, Info!WriteLock, InfoProofs!WriteLock,
     Info!MoveIntoCache, InfoProofs!MoveIntoCache, Info!Publish,
     InfoProofs!Publish, Info!LostRace, InfoProofs!LostRace,
     Info!ElsewhereFails, InfoProofs!ElsewhereFails, Info!At, InfoProofs!At,
     Info!GoTo, InfoProofs!GoTo, Info!JSONResponse, InfoProofs!JSONResponse,
     Info!StepAfter, InfoProofs!StepAfter, Info!infoLocal,
     InfoProofs!infoLocal, Info!infoShared, InfoProofs!infoShared,
     Info!Sections, InfoProofs!Sections, Info!BlankResponse,
     InfoProofs!BlankResponse
<1>3. Info!InfoInv = InfoProofs!InfoInv
  BY DEF Info!InfoInv, InfoProofs!InfoInv, Info!InfoTypeOK,
     InfoProofs!InfoTypeOK, Info!LockInv, InfoProofs!LockInv, Info!ValueInv,
     InfoProofs!ValueInv, Info!At, InfoProofs!At, Info!Sections,
     InfoProofs!Sections, Info!Json, InfoProofs!Json, Info!Code,
     InfoProofs!Code, Info!Answer, InfoProofs!Answer, Info!InfoSteps,
     InfoProofs!InfoSteps
<1> QED
  BY <1>1, <1>2, <1>3 DEF Info!infoVars, InfoProofs!infoVars, Info!infoLocal,
     InfoProofs!infoLocal, Info!infoShared, InfoProofs!infoShared

LEMMA SameRenderer ==
  /\ Image!ImageInit = ImageProofs!ImageInit
  /\ [Image!ImageNext]_(Image!imageVars) = [ImageProofs!ImageNext]_(ImageProofs!imageVars)
  /\ Image!ImageInv = ImageProofs!ImageInv
<1>1. Image!ImageInit = ImageProofs!ImageInit
  BY DEF Image!ImageInit, ImageProofs!ImageInit, Image!Absent,
     ImageProofs!Absent
<1>2. Image!ImageNext = ImageProofs!ImageNext
  BY DEF Image!ImageNext, ImageProofs!ImageNext, Image!ImageStep,
     ImageProofs!ImageStep, Image!Begin, ImageProofs!Begin, Image!Fresh,
     ImageProofs!Fresh, Image!Return, ImageProofs!Return, Image!ReturnError,
     ImageProofs!ReturnError, Image!Uncaught, ImageProofs!Uncaught,
     Image!GridEmpty, ImageProofs!GridEmpty, Image!LockPng,
     ImageProofs!LockPng, Image!DrawFigure, ImageProofs!DrawFigure,
     Image!DrawThrows, ImageProofs!DrawThrows, Image!PipeHasRoom,
     ImageProofs!PipeHasRoom, Image!Save, ImageProofs!Save,
     Image!SaveReturnsFalse, ImageProofs!SaveReturnsFalse, Image!SaveThrows,
     ImageProofs!SaveThrows, Image!FileReady, ImageProofs!FileReady,
     Image!FileNotReady, ImageProofs!FileNotReady, Image!WaitTimesOut,
     ImageProofs!WaitTimesOut, Image!ReadImage, ImageProofs!ReadImage,
     Image!OpenFails, ImageProofs!OpenFails, Image!RemoveImage,
     ImageProofs!RemoveImage, Image!FilesystemThrows,
     ImageProofs!FilesystemThrows, Image!ImageElsewhereFails,
     ImageProofs!ImageElsewhereFails, Image!Gnuplot, ImageProofs!Gnuplot,
     Image!GnuplotOpen, ImageProofs!GnuplotOpen, Image!GnuplotRejects,
     ImageProofs!GnuplotRejects, Image!GnuplotWrite,
     ImageProofs!GnuplotWrite, Image!GnuplotDone, ImageProofs!GnuplotDone,
     Image!imageVars, ImageProofs!imageVars, Image!imageLocal,
     ImageProofs!imageLocal, Image!gnuplotVars, ImageProofs!gnuplotVars,
     Image!diskVars, ImageProofs!diskVars, Image!Absent, ImageProofs!Absent
<1>3. Image!ImageInv = ImageProofs!ImageInv
  BY DEF Image!ImageInv, ImageProofs!ImageInv, Image!ImageTypeOK,
     ImageProofs!ImageTypeOK, Image!MutexInv, ImageProofs!MutexInv,
     Image!NameInv, ImageProofs!NameInv, Image!DiskInv, ImageProofs!DiskInv,
     Image!SliceInv, ImageProofs!SliceInv, Image!OwnImage,
     ImageProofs!OwnImage, Image!PipeInv, ImageProofs!PipeInv,
     Image!FileInv, ImageProofs!FileInv, Image!NoStrayFile,
     ImageProofs!NoStrayFile, Image!BufferInv, ImageProofs!BufferInv,
     Image!NoEmptyImage, ImageProofs!NoEmptyImage, Image!Absent, ImageProofs!Absent,
     Image!Picture, ImageProofs!Picture, Image!ImageAnswer,
     ImageProofs!ImageAnswer, Image!Job, ImageProofs!Job, Image!Drawing,
     ImageProofs!Drawing, Image!ImageSteps, ImageProofs!ImageSteps
<1> QED
  BY <1>1, <1>2, <1>3 DEF Image!imageVars, ImageProofs!imageVars, Image!imageLocal,
     ImageProofs!imageLocal, Image!gnuplotVars, ImageProofs!gnuplotVars,
     Image!diskVars, ImageProofs!diskVars

\* The assumptions of the parts follow from the server's.
LEMMA PartAssumptions == InfoProofs!NobodyIsNoWorker /\ ImageProofs!ImageAssumption
  BY ServerAssumption DEF InfoProofs!NobodyIsNoWorker, ImageProofs!ImageAssumption

LEMMA ServerInfoInv == ServerSpec => []Info!InfoInv
<1>1. InfoProofs!InfoSpec => []InfoProofs!InfoInv
  BY PartAssumptions, InfoProofs!InfoInvariant, PTL
<1>2. /\ Info!InfoInit => InfoProofs!InfoInit
      /\ [Info!InfoNext]_(Info!infoVars) => [InfoProofs!InfoNext]_(InfoProofs!infoVars)
      /\ InfoProofs!InfoInv => Info!InfoInv
  BY SameCache
<1> QED
  BY <1>1, <1>2, ServerUsesCache, PTL
     DEF UsesCache, Info!InfoSpec, InfoProofs!InfoSpec

LEMMA ServerImageInv == ServerSpec => []Image!ImageInv
<1>1. ImageProofs!ImageSpec => []ImageProofs!ImageInv
  BY PartAssumptions, ImageProofs!ImageInvariant, PTL
<1>2. /\ Image!ImageInit => ImageProofs!ImageInit
      /\ [Image!ImageNext]_(Image!imageVars) => [ImageProofs!ImageNext]_(ImageProofs!imageVars)
      /\ ImageProofs!ImageInv => Image!ImageInv
  BY SameRenderer
<1> QED
  BY <1>1, <1>2, ServerUsesRenderer, PTL
     DEF UsesRenderer, Image!ImageSpec, ImageProofs!ImageSpec

-----------------------------------------------------------------------------
\* The last thing that a handler of a part does to a thread's status, and what
\* it hands over when it returns.
LEMMA InfoStepStatus ==
  ASSUME Info!InfoTypeOK, NEW w \in Worker, Info!InfoStep(w)
  PROVE  /\ \A v \in Worker :
              infoResponse'[v].code \in {200, infoResponse[v].code, responseCode[v]}
         /\ infoPc'[w] = "idle" =>
              \A answer \in infoReply'[w] :
                answer.code \in {responseCode[w], infoResponse[w].code}
<1> USE DEF Info!InfoTypeOK, Info!At, Info!GoTo, Info!JSONResponse,
            Info!InfoSteps, Info!Answer
<1>1. CASE Info!ReadLock(w) \/ Info!CacheMiss(w) \/ Info!WriteLock(w)
  BY <1>1 DEF Info!ReadLock, Info!CacheMiss, Info!WriteLock
<1>2. CASE Info!ServeCached(w)
  BY <1>2 DEF Info!ServeCached
<1>3. CASE Info!Extract(w) \/ Info!ExtractFails(w)
  BY <1>3 DEF Info!Extract, Info!ExtractFails, Info!StepAfter, Info!Sections
<1>4. CASE Info!Respond(w)
  BY <1>4 DEF Info!Respond
<1>5. CASE Info!MoveIntoCache(w)
  BY <1>5 DEF Info!MoveIntoCache
<1>6. CASE Info!Publish(w) \/ Info!LostRace(w)
  BY <1>6 DEF Info!Publish, Info!LostRace
<1> QED
  BY <1>1, <1>2, <1>3, <1>4, <1>5, <1>6 DEF Info!InfoStep

LEMMA ImageStepStatus ==
  ASSUME Image!ImageTypeOK, NEW w \in Worker, Image!ImageStep(w)
  PROVE  /\ grid' = grid
         /\ \/ UNCHANGED responseCode
            \/ /\ Sets500(w)
               /\ imagePc'[w] = "idle"
               /\ imageReply'[w] = {[code |-> 500, image |-> {}]}
<1> USE DEF Image!ImageTypeOK, Sets500
<1>1. CASE \/ Image!GridEmpty(w) \/ Image!SaveThrows(w)
           \/ Image!WaitTimesOut(w) \/ Image!OpenFails(w)
  <2>1. Image!ReturnError(w)
    BY <1>1 DEF Image!GridEmpty, Image!SaveThrows, Image!WaitTimesOut, Image!OpenFails
  <2> QED
    BY <2>1 DEF Image!ReturnError, Image!Return
<1>2. CASE Image!DrawThrows(w) \/ Image!FilesystemThrows(w)
  BY <1>2 DEF Image!DrawThrows, Image!FilesystemThrows, Image!Uncaught, Image!Return
<1>3. CASE \/ Image!LockPng(w) \/ Image!DrawFigure(w) \/ Image!Save(w)
           \/ Image!SaveReturnsFalse(w) \/ Image!FileReady(w)
           \/ Image!FileNotReady(w) \/ Image!ReadImage(w)
  BY <1>3 DEF Image!LockPng, Image!DrawFigure, Image!Save,
     Image!SaveReturnsFalse, Image!FileReady, Image!FileNotReady, Image!ReadImage
<1>4. CASE Image!RemoveImage(w)
  BY <1>4 DEF Image!RemoveImage, Image!Return
<1> QED
  BY <1>1, <1>2, <1>3, <1>4 DEF Image!ImageStep

-----------------------------------------------------------------------------
\* What a request asks for goes with its thread: from the indices through the
\* data and the grid to the reply.
AskedBy(w) ==
  /\ target[w] \in Target \cup {<<>>}
  /\ At(w, "extract") => AsksForSlice(target[w], <<timeIndex[w], zIndex[w]>>)
  /\ At(w, "respond") => \A s \in result[w] : AsksForSlice(target[w], s)
  /\ At(w, "grid") => \A s \in result[w] :
       concentrationData[w] = {s} /\ AsksForSlice(target[w], s)
  /\ At(w, "image") => AsksForSlice(target[w], grid[w])
  /\ At(w, "idle") => \A response \in reply[w] : \A slice \in response.slices :
       AsksForSlice(target[w], slice)

AskedInv == \A w \in Worker : AskedBy(w)

\* A status of 500 is that of a thread on which a handler failed.
FailedBy(w) ==
  /\ responseCode[w] = 500 => w \in failed
  /\ infoResponse[w].code = 500 => w \in failed
  /\ \A response \in reply[w] : response.code = 500 => w \in failed

StatusInv == \A w \in Worker : FailedBy(w)

\* The inductive invariant of the server, given those of its parts.
ServerInv == ServerTypeOK /\ AskedInv /\ StatusInv

LEMMA ServerInitInv == ServerInit => ServerInv
<1> SUFFICES ASSUME ServerInit PROVE ServerInv
  OBVIOUS
<1> USE DEF ServerInit, At
<1>1. ServerTypeOK
  <2>1. <<>> \in Seq(Pair)
    OBVIOUS
  <2>2. 0 \in 0..(2 * IntHalf - 1) /\ 0 \in 0..MaxRequests
    BY ParamsAssumption, ServerAssumption
  <2> QED
    BY <2>1, <2>2 DEF ServerTypeOK, ServerSteps, Routes
<1>2. AskedInv
  BY DEF AskedInv, AskedBy
<1>3. StatusInv
  BY DEF StatusInv, FailedBy, Info!InfoInit, Info!BlankResponse
<1> QED
  BY <1>1, <1>2, <1>3 DEF ServerInv

\* Every target is a sequence of pieces with at most one value each.
LEMMA TargetShape ==
  ASSUME NEW w \in Worker, AskedBy(w)
  PROVE  /\ target[w] \in Seq(Pair)
         /\ \A i \in 1..Len(target[w]) : \A m, n \in target[w][i].value : m = n
<1>1. target[w] \in Target \cup {<<>>}
  BY DEF AskedBy
<1>2. CASE target[w] = <<>>
  BY <1>2
<1>3. CASE target[w] \in Target
  BY <1>3, ServerAssumption
<1> QED
  BY <1>1, <1>2, <1>3

\* The indices of an accepted request are those that it asks for.
LEMMA AcceptedAsksFor ==
  ASSUME ServerTypeOK, NEW w \in Worker, AskedBy(w), Accept(w)
  PROVE  AsksForSlice(target[w], <<timeIndex'[w], zIndex'[w]>>)
<1> DEFINE pairs == Pairs(target[w])
<1>1. /\ Positions(pairs, "time") # {} /\ Positions(pairs, "z") # {}
      /\ ~ StoiThrows(Get(pairs, "time")) /\ ~ StoiThrows(Get(pairs, "z"))
      /\ ~ OutOfRange(Index(Get(pairs, "time")), TimeSize)
      /\ ~ OutOfRange(Index(Get(pairs, "z")), ZSize)
      /\ AssignsTime(pairs) /\ AssignsZ(pairs)
  BY AcceptedPassed DEF Accept
<1>2. /\ timeIndex'[w] = Index(Get(pairs, "time"))
      /\ zIndex'[w] = Index(Get(pairs, "z"))
  BY <1>1 DEF Accept, AssignIndices, Slot, ServerTypeOK
<1>3. TimeSize \in 0..IntHalf /\ ZSize \in 0..IntHalf
  BY ParamsAssumption
<1>4. AsksFor(target[w], "time", Index(Get(pairs, "time")))
  BY <1>1, <1>3, TargetShape, GetIsAskedFor
<1>5. AsksFor(target[w], "z", Index(Get(pairs, "z")))
  BY <1>1, <1>3, TargetShape, GetIsAskedFor
<1> QED
  BY <1>2, <1>4, <1>5 DEF AsksForSlice

\* What belongs to a thread.
Own(w) == <<serverPc[w], target[w], timeIndex[w], zIndex[w],
            concentrationData[w], result[w], reply[w], grid[w]>>

\* The variables that a thread's requests go through are functions of threads.
Owned ==
  /\ serverPc \in [Worker -> ServerSteps]
  /\ target \in [Worker -> Seq(Pair)]
  /\ timeIndex \in [Worker -> 0..(2 * IntHalf - 1)]
  /\ zIndex \in [Worker -> 0..(2 * IntHalf - 1)]
  /\ concentrationData \in [Worker -> SUBSET Slice]
  /\ result \in [Worker -> SUBSET Slice]
  /\ reply \in [Worker -> SUBSET Response]
  /\ grid \in [Worker -> Slice]

LEMMA AreOwned ==
  ASSUME ServerTypeOK, Image!ImageTypeOK
  PROVE  Owned
  BY DEF ServerTypeOK, Image!ImageTypeOK, Owned

\* A step of one thread leaves what belongs to the others alone.
LEMMA OthersKeep ==
  ASSUME Owned, Image!ImageTypeOK, NEW w \in Worker, NEW v \in Worker, v # w,
         \/ GetInfo(w)
         \/ \E t \in Target : RefuseQuery(w, t)
         \/ \E t \in Target, r \in Routes : GetWithParams(w, r, t)
         \/ Handle(w)
  PROVE  UNCHANGED Own(v)
<1> USE DEF Owned, Own
<1>1. CASE GetInfo(w)
  BY <1>1 DEF GetInfo, Arrive, GoTo, imageParts
<1>2. CASE \E t \in Target : RefuseQuery(w, t)
  BY <1>2 DEF RefuseQuery, Arrive, JSONReply, Reply, GoTo, imageParts
<1>3. CASE \E t \in Target, r \in Routes : GetWithParams(w, r, t)
  BY <1>3 DEF GetWithParams, Arrive, GoTo, imageParts
<1>4. CASE Accept(w)
  BY <1>4 DEF Accept, AssignIndices, Slot, GoTo, imageParts
<1>5. CASE Reject(w) \/ RejectStoi(w) \/ ValidateThrows(w)
  <2>1. UNCHANGED <<target[v], concentrationData[v], result[v], grid[v]>>
    BY <1>5 DEF Reject, RejectStoi, ValidateThrows, imageParts
  <2>2. UNCHANGED <<timeIndex[v], zIndex[v]>>
    BY <1>5 DEF Reject, RejectStoi, ValidateThrows, AssignIndices, Slot
  <2>3. UNCHANGED <<serverPc[v], reply[v]>>
    BY <1>5 DEF Reject, RejectStoi, ValidateThrows, JSONReply, Reply, GoTo
  <2> QED
    BY <2>1, <2>2, <2>3
<1>6. CASE ExtractSlice(w) \/ ExtractSliceFails(w)
  BY <1>6 DEF ExtractSlice, ExtractSliceFails, Slot, GoTo, imageParts
<1>7. CASE RespondData(w)
  BY <1>7 DEF RespondData, JSONReply, Reply, GoTo, imageParts
<1>8. CASE ImageError(w)
  BY <1>8 DEF ImageError, Reply, GoTo, imageParts
<1>9. CASE BuildGrid(w)
  BY <1>9 DEF BuildGrid, Image!Begin, GoTo
<1>10. CASE InfoGoesOn(w)
  BY <1>10 DEF InfoGoesOn, InfoReplies, Reply, GoTo, imageParts
<1>11. CASE ImageGoesOn(w)
  <2>1. grid' = grid
    BY <1>11, ImageStepStatus DEF ImageGoesOn
  <2> QED
    BY <1>11, <2>1 DEF ImageGoesOn, ImageReplies, Reply, GoTo
<1> QED
  BY <1>1, <1>2, <1>3, <1>4, <1>5, <1>6, <1>7, <1>8, <1>9, <1>10, <1>11 DEF Handle

\* What does not change for a thread keeps its request apart.
LEMMA AskedFrame ==
  ASSUME NEW v \in Worker, AskedBy(v), UNCHANGED Own(v)
  PROVE  AskedBy(v)'
  BY DEF AskedBy, Own, At

\* The thread that moves.
LEMMA AskedMove ==
  ASSUME Owned, Image!ImageInv, Image!ImageInv', ServerTypeOK,
         NEW w \in Worker, AskedBy(w),
         \/ GetInfo(w)
         \/ \E t \in Target : RefuseQuery(w, t)
         \/ \E t \in Target, r \in Routes : GetWithParams(w, r, t)
         \/ Handle(w)
  PROVE  AskedBy(w)'
<1> USE DEF Owned, AskedBy, At
<1>1. CASE GetInfo(w)
  BY <1>1 DEF GetInfo, Arrive, GoTo
<1>2. CASE \E t \in Target : RefuseQuery(w, t)
  BY <1>2 DEF RefuseQuery, Arrive, JSONReply, Reply, GoTo
<1>3. CASE \E t \in Target, r \in Routes : GetWithParams(w, r, t)
  BY <1>3 DEF GetWithParams, Arrive, GoTo
<1>4. CASE Accept(w)
  <2>1. AsksForSlice(target[w], <<timeIndex'[w], zIndex'[w]>>)
    BY <1>4, AcceptedAsksFor
  <2> QED
    BY <1>4, <2>1 DEF Accept, GoTo
<1>5. CASE Reject(w) \/ RejectStoi(w) \/ ValidateThrows(w)
  <2>1. \A response \in reply'[w] : response.slices = {}
    BY <1>5 DEF Reject, RejectStoi, ValidateThrows, JSONReply, Reply
  <2>2. serverPc' = [serverPc EXCEPT ![w] = "idle"] /\ target' = target
    BY <1>5 DEF Reject, RejectStoi, ValidateThrows, JSONReply, Reply, GoTo
  <2> QED
    BY <2>1, <2>2
<1>6. CASE ExtractSlice(w)
  <2> DEFINE slice == <<timeIndex[w], zIndex[w]>>
  <2>1. AsksForSlice(target[w], slice)
    BY <1>6 DEF ExtractSlice
  <2>2. /\ concentrationData'[w] = {slice} /\ result'[w] = {slice}
        /\ target' = target
        /\ serverPc'[w] \in {"respond", "grid"}
    BY <1>6 DEF ExtractSlice, Slot, GoTo
  <2> QED
    BY <2>1, <2>2
<1>7. CASE ExtractSliceFails(w)
  BY <1>7 DEF ExtractSliceFails, GoTo
<1>8. CASE RespondData(w)
  BY <1>8 DEF RespondData, JSONReply, Reply, GoTo
<1>9. CASE ImageError(w)
  BY <1>9 DEF ImageError, Reply, GoTo
<1>10. CASE BuildGrid(w)
  <2>1. PICK slice \in concentrationData[w] : Image!Begin(w, slice)
    BY <1>10 DEF BuildGrid, Slot
  <2>2. AsksForSlice(target[w], slice)
    BY <1>10, <2>1 DEF BuildGrid
  <2>3. grid' = [grid EXCEPT ![w] = slice]
    BY <2>1 DEF Image!Begin
  <2>4. serverPc' = [serverPc EXCEPT ![w] = "image"] /\ target' = target
    BY <1>10 DEF BuildGrid, GoTo
  <2> QED
    BY <2>2, <2>3, <2>4
<1>11. CASE InfoGoesOn(w)
  <2>1. CASE infoPc'[w] # "idle"
    BY <1>11, <2>1 DEF InfoGoesOn, InfoReplies, imageParts
  <2>2. CASE infoPc'[w] = "idle"
    BY <1>11, <2>2 DEF InfoGoesOn, InfoReplies, Reply, GoTo
  <2> QED
    BY <2>1, <2>2
<1>12. CASE ImageGoesOn(w)
  <2>1. grid' = grid /\ target' = target /\ At(w, "image")
    BY <1>12, ImageStepStatus DEF ImageGoesOn, Image!ImageInv
  <2>2. CASE imagePc'[w] # "idle"
    BY <1>12, <2>1, <2>2 DEF ImageGoesOn, ImageReplies
  <2>3. CASE imagePc'[w] = "idle"
    <3>1. PICK answer \in imageReply'[w] :
            Reply(w, answer.code, IF answer.image = {} THEN "error" ELSE "png",
                  {picture.slice : picture \in answer.image})
      BY <1>12, <2>3 DEF ImageGoesOn, ImageReplies
    <3>2. \A picture \in answer.image : picture.slice = grid[w]
      BY <2>1, <2>3, <3>1 DEF Image!ImageInv, Image!OwnImage
    <3>3. AsksForSlice(target[w], grid[w])
      BY <2>1
    <3>4. /\ serverPc' = [serverPc EXCEPT ![w] = "idle"]
          /\ \A response \in reply'[w] :
               response.slices = {picture.slice : picture \in answer.image}
      BY <3>1 DEF Reply, GoTo
    <3>5. \A response \in reply'[w] : \A slice \in response.slices :
            AsksForSlice(target[w], slice)
      <4> TAKE response \in reply'[w]
      <4> TAKE slice \in response.slices
      <4>1. slice \in {picture.slice : picture \in answer.image}
        BY <3>4
      <4>2. slice = grid[w]
        BY <3>2, <4>1
      <4> QED
        BY <3>3, <4>2
    <3>6. serverPc'[w] = "idle"
      BY <3>4
    <3> QED
      BY <2>1, <3>5, <3>6
  <2> QED
    BY <2>2, <2>3
<1> QED
  BY <1>1, <1>2, <1>3, <1>4, <1>5, <1>6, <1>7, <1>8, <1>9, <1>10, <1>11, <1>12
     DEF Handle

\* Requests are kept apart by every step.
LEMMA AskedStep ==
  ASSUME ServerTypeOK, AskedInv, Image!ImageInv, Image!ImageInv',
         [ServerNext]_serverVars
  PROVE  AskedInv'
<1> SUFFICES ASSUME NEW v \in Worker
             PROVE  AskedBy(v)'
  BY DEF AskedInv
<1>0. Owned /\ Image!ImageTypeOK /\ AskedBy(v)
  BY AreOwned DEF Image!ImageInv, AskedInv
<1>1. ASSUME NEW w \in Worker,
             \/ GetInfo(w)
             \/ \E t \in Target : RefuseQuery(w, t)
             \/ \E t \in Target, r \in Routes : GetWithParams(w, r, t)
             \/ Handle(w)
      PROVE  AskedBy(v)'
  <2>1. CASE v = w
    BY <1>0, <1>1, <2>1, AskedMove
  <2>2. CASE v # w
    BY <1>0, <1>1, <2>2, OthersKeep, AskedFrame
  <2> QED
    BY <2>1, <2>2
<1>2. CASE GnuplotGoesOn
  <2>1. UNCHANGED Own(v)
    BY <1>2 DEF GnuplotGoesOn, ownVars, Image!Gnuplot, Image!GnuplotOpen,
       Image!GnuplotRejects, Image!GnuplotWrite, Image!GnuplotDone,
       Image!imageLocal, Own
  <2> QED
    BY <1>0, <2>1, AskedFrame
<1>3. CASE UNCHANGED serverVars
  <2>1. UNCHANGED Own(v)
    BY <1>3 DEF serverVars, ownVars, imageParts, Own
  <2> QED
    BY <1>0, <2>1, AskedFrame
<1> QED
  BY <1>1, <1>2, <1>3 DEF ServerNext

-----------------------------------------------------------------------------
\* An index that is assigned fits a uint.
LEMMA IndexIsUint ==
  ASSUME NEW t \in Seq(Pair), NEW name, Positions(Pairs(t), name) # {},
         ~ StoiThrows(Get(Pairs(t), name))
  PROVE  Index(Get(Pairs(t), name)) \in 0..(2 * IntHalf - 1)
<1> DEFINE pairs == Pairs(t)
           value == Get(pairs, name)
           n == CHOOSE m \in value : TRUE
<1>1. pairs \in Seq(Pair) /\ First(pairs, name) \in 1..Len(pairs)
  BY PairsArePrefix, FirstIsFirst
<1>2. pairs[First(pairs, name)] \in Pair
  BY <1>1
<1>3. value \in SUBSET Int
  BY <1>2 DEF Get, Pair
<1>4. value # {}
  BY DEF StoiThrows
<1>5. n \in Int
  BY <1>3, <1>4
<1> HIDE DEF n
<1>6. n % (2 * IntHalf) \in 0..(2 * IntHalf - 1)
  BY <1>5, ParamsAssumption
<1>7. Index(value) = n % (2 * IntHalf)
  BY DEF Index, ToUint, n
<1> QED
  BY <1>6, <1>7

\* Whatever is assigned of the indices.
LEMMA AssignTypes ==
  ASSUME ServerTypeOK, NEW w \in Worker, AskedBy(w),
         AssignIndices(w, Pairs(target[w]))
  PROVE  /\ timeIndex' \in [Worker -> 0..(2 * IntHalf - 1)]
         /\ zIndex' \in [Worker -> 0..(2 * IntHalf - 1)]
<1> DEFINE pairs == Pairs(target[w])
<1>1. target[w] \in Seq(Pair)
  BY TargetShape
<1>2. AssignsTime(pairs) => Positions(pairs, "time") # {} /\ Positions(pairs, "z") # {}
  BY DEF AssignsTime, Verdict
<1>3. AssignsTime(pairs) => Index(Get(pairs, "time")) \in 0..(2 * IntHalf - 1)
  BY <1>1, <1>2, IndexIsUint DEF AssignsTime
<1>4. AssignsZ(pairs) => Index(Get(pairs, "z")) \in 0..(2 * IntHalf - 1)
  BY <1>1, <1>2, IndexIsUint DEF AssignsZ
<1> HIDE DEF pairs
<1>5. AssignIndices(w, pairs)
  BY DEF pairs
<1>6. timeIndex' \in [Worker -> 0..(2 * IntHalf - 1)]
  BY <1>3, <1>5 DEF AssignIndices, Slot, ServerTypeOK
<1>7. zIndex' \in [Worker -> 0..(2 * IntHalf - 1)]
  BY <1>4, <1>5 DEF AssignIndices, Slot, ServerTypeOK
<1> QED
  BY <1>6, <1>7

\* A reply is a response, and its thread is free.
LEMMA ReplyTypes ==
  ASSUME ServerTypeOK, NEW w \in Worker, NEW code \in {200, 500},
         NEW body \in Bodies, NEW slices \in SUBSET Slice,
         Reply(w, code, body, slices)
  PROVE  /\ reply' \in [Worker -> SUBSET Response]
         /\ serverPc' \in [Worker -> ServerSteps]
<1>1. [code |-> code, body |-> body, slices |-> slices] \in Response
  BY DEF Response
<1> QED
  BY <1>1 DEF Reply, GoTo, ServerTypeOK, ServerSteps

LEMMA ArriveTypes ==
  ASSUME ServerTypeOK, NEW w \in Worker, NEW r \in Routes,
         NEW t \in Target \cup {<<>>}, Arrive(w, r, t)
  PROVE  /\ route' \in [Worker -> Routes]
         /\ target' \in [Worker -> Seq(Pair)]
         /\ arrived' \in 0..MaxRequests
<1>1. t \in Seq(Pair)
  <2>1. <<>> \in Seq(Pair)
    OBVIOUS
  <2>2. t \in Target => t \in Seq(Pair)
    BY ServerAssumption
  <2> QED
    BY <2>1, <2>2
<1>2. arrived' \in 0..MaxRequests
  BY ServerAssumption DEF Arrive, ServerTypeOK
<1> QED
  BY <1>1, <1>2 DEF Arrive, ServerTypeOK

\* The types of the next state, action by action.
LEMMA TypeStep ==
  ASSUME ServerTypeOK, AskedInv, Info!InfoTypeOK, Info!InfoTypeOK',
         Image!ImageTypeOK, Image!ImageTypeOK', [ServerNext]_serverVars
  PROVE  ServerTypeOK'
<1>0. \A w \in Worker : responseCode[w] \in {200, 500} /\ responseCode'[w] \in {200, 500}
  BY DEF Image!ImageTypeOK
<1>1. ASSUME NEW w \in Worker, GetInfo(w)
      PROVE  ServerTypeOK'
  <2>1. Arrive(w, "/get-info", <<>>)
    BY <1>1 DEF GetInfo
  <2>2. /\ route' \in [Worker -> Routes] /\ target' \in [Worker -> Seq(Pair)]
        /\ arrived' \in 0..MaxRequests
    BY <2>1, ArriveTypes DEF Routes
  <2> QED
    BY <1>1, <2>2 DEF GetInfo, GoTo, ServerTypeOK, ServerSteps
<1>2. ASSUME NEW w \in Worker, NEW t \in Target, RefuseQuery(w, t)
      PROVE  ServerTypeOK'
  <2>1. Arrive(w, "/get-info", t) /\ Reply(w, responseCode[w], "error", {})
    BY <1>2 DEF RefuseQuery, JSONReply
  <2>2. /\ route' \in [Worker -> Routes] /\ target' \in [Worker -> Seq(Pair)]
        /\ arrived' \in 0..MaxRequests
    BY <2>1, ArriveTypes DEF Routes
  <2>3. reply' \in [Worker -> SUBSET Response] /\ serverPc' \in [Worker -> ServerSteps]
    BY <1>0, <2>1, ReplyTypes DEF Bodies
  <2> QED
    BY <1>2, <2>2, <2>3 DEF RefuseQuery, ServerTypeOK
<1>3. ASSUME NEW w \in Worker, NEW t \in Target, NEW r \in Routes,
             GetWithParams(w, r, t)
      PROVE  ServerTypeOK'
  <2>1. Arrive(w, r, t)
    BY <1>3 DEF GetWithParams
  <2>2. /\ route' \in [Worker -> Routes] /\ target' \in [Worker -> Seq(Pair)]
        /\ arrived' \in 0..MaxRequests
    BY <2>1, ArriveTypes
  <2> QED
    BY <1>3, <2>2 DEF GetWithParams, GoTo, ServerTypeOK, ServerSteps
<1>4. ASSUME NEW w \in Worker, Accept(w)
      PROVE  ServerTypeOK'
  <2>1. /\ timeIndex' \in [Worker -> 0..(2 * IntHalf - 1)]
        /\ zIndex' \in [Worker -> 0..(2 * IntHalf - 1)]
    BY <1>4, AssignTypes DEF Accept, AskedInv
  <2> QED
    BY <1>4, <2>1 DEF Accept, GoTo, ServerTypeOK, ServerSteps
<1>5. ASSUME NEW w \in Worker,
             Reject(w) \/ RejectStoi(w) \/ ValidateThrows(w)
      PROVE  ServerTypeOK'
  <2>1. /\ timeIndex' \in [Worker -> 0..(2 * IntHalf - 1)]
        /\ zIndex' \in [Worker -> 0..(2 * IntHalf - 1)]
    BY <1>5, AssignTypes DEF Reject, RejectStoi, ValidateThrows, AskedInv
  <2>2. \E code \in {200, 500} : Reply(w, code, "error", {})
    BY <1>0, <1>5 DEF Reject, RejectStoi, ValidateThrows, JSONReply
  <2>3. reply' \in [Worker -> SUBSET Response] /\ serverPc' \in [Worker -> ServerSteps]
    BY <2>2, ReplyTypes DEF Bodies
  <2>4. failed' \in SUBSET Worker
    BY <1>5 DEF Reject, RejectStoi, ValidateThrows, Fail, ServerTypeOK
  <2>5. UNCHANGED <<route, target, concentrationData, result, arrived>>
    BY <1>5 DEF Reject, RejectStoi, ValidateThrows
  <2> QED
    BY <2>1, <2>3, <2>4, <2>5 DEF ServerTypeOK
<1>6. ASSUME NEW w \in Worker, ExtractSlice(w) \/ ExtractSliceFails(w)
      PROVE  ServerTypeOK'
  <2>1. serverPc' \in [Worker -> ServerSteps]
    BY <1>6 DEF ExtractSlice, ExtractSliceFails, GoTo, ServerTypeOK, ServerSteps
  <2>2. \E s \in SUBSET Slice : result' = [result EXCEPT ![w] = s]
    BY <1>6 DEF ExtractSlice, ExtractSliceFails
  <2>3. result' \in [Worker -> SUBSET Slice]
    BY <2>2 DEF ServerTypeOK
  <2>4. \/ UNCHANGED concentrationData
        \/ \E s \in SUBSET Slice : concentrationData' = [concentrationData EXCEPT ![w] = s]
    BY <1>6 DEF ExtractSlice, ExtractSliceFails, Slot
  <2>5. concentrationData' \in [Worker -> SUBSET Slice]
    BY <2>4 DEF ServerTypeOK
  <2> QED
    BY <1>6, <2>1, <2>3, <2>5 DEF ExtractSlice, ExtractSliceFails, ServerTypeOK
<1>7. ASSUME NEW w \in Worker, RespondData(w)
      PROVE  ServerTypeOK'
  <2>1. \E body \in Bodies : Reply(w, responseCode[w], body, result[w])
    BY <1>7 DEF RespondData, JSONReply, Bodies
  <2>2. result[w] \in SUBSET Slice
    BY DEF ServerTypeOK
  <2>3. reply' \in [Worker -> SUBSET Response] /\ serverPc' \in [Worker -> ServerSteps]
    BY <1>0, <2>1, <2>2, ReplyTypes
  <2> QED
    BY <1>7, <2>3 DEF RespondData, ServerTypeOK
<1>8. ASSUME NEW w \in Worker, ImageError(w)
      PROVE  ServerTypeOK'
  <2>1. reply' \in [Worker -> SUBSET Response] /\ serverPc' \in [Worker -> ServerSteps]
    BY <1>0, <1>8, ReplyTypes DEF ImageError, Bodies
  <2> QED
    BY <1>8, <2>1 DEF ImageError, Fail, ServerTypeOK
<1>9. ASSUME NEW w \in Worker, BuildGrid(w)
      PROVE  ServerTypeOK'
  BY <1>9 DEF BuildGrid, GoTo, ServerTypeOK, ServerSteps
<1>10. ASSUME NEW w \in Worker, InfoGoesOn(w)
       PROVE  ServerTypeOK'
  <2>1. reply' \in [Worker -> SUBSET Response] /\ serverPc' \in [Worker -> ServerSteps]
    <3>1. CASE infoPc'[w] = "idle"
      <4>1. PICK answer \in infoReply'[w] :
              Reply(w, answer.code,
                    IF "error" \in answer.body THEN "error" ELSE "info", {})
        BY <1>10, <3>1 DEF InfoGoesOn, InfoReplies
      <4>2. answer.code \in {200, 500}
        BY <4>1 DEF Info!InfoTypeOK, Info!Answer, Info!Code
      <4> QED
        BY <4>1, <4>2, ReplyTypes DEF Bodies
    <3>2. CASE infoPc'[w] # "idle"
      BY <1>10, <3>2 DEF InfoGoesOn, InfoReplies, ServerTypeOK
    <3> QED
      BY <3>1, <3>2
  <2> QED
    BY <1>10, <2>1 DEF InfoGoesOn, ServerTypeOK
<1>11. ASSUME NEW w \in Worker, ImageGoesOn(w)
       PROVE  ServerTypeOK'
  <2>1. /\ reply' \in [Worker -> SUBSET Response]
        /\ serverPc' \in [Worker -> ServerSteps]
        /\ failed' \in SUBSET Worker
    <3>1. CASE imagePc'[w] = "idle"
      <4>1. PICK answer \in imageReply'[w] :
              /\ Reply(w, answer.code, IF answer.image = {} THEN "error" ELSE "png",
                       {picture.slice : picture \in answer.image})
              /\ failed' = IF answer.code = 500 THEN failed \cup {w} ELSE failed
        BY <1>11, <3>1 DEF ImageGoesOn, ImageReplies
      <4>2. answer \in Image!ImageAnswer
        BY <4>1 DEF Image!ImageTypeOK
      <4>3. answer.code \in {200, 500}
        BY <4>2 DEF Image!ImageAnswer
      <4>4. {picture.slice : picture \in answer.image} \in SUBSET Slice
        BY <4>2 DEF Image!ImageAnswer, Image!Picture
      <4>5. failed' \in SUBSET Worker
        BY <4>1 DEF ServerTypeOK
      <4> QED
        BY <4>1, <4>3, <4>4, <4>5, ReplyTypes DEF Bodies
    <3>2. CASE imagePc'[w] # "idle"
      BY <1>11, <3>2 DEF ImageGoesOn, ImageReplies, ServerTypeOK
    <3> QED
      BY <3>1, <3>2
  <2> QED
    BY <1>11, <2>1 DEF ImageGoesOn, ServerTypeOK
<1>12. CASE GnuplotGoesOn \/ UNCHANGED serverVars
  BY <1>12 DEF GnuplotGoesOn, serverVars, ownVars, ServerTypeOK
<1> QED
  BY <1>1, <1>2, <1>3, <1>4, <1>5, <1>6, <1>7, <1>8, <1>9, <1>10, <1>11, <1>12
     DEF ServerNext, Handle

\* A status of 500 comes from the thread's own failures, step by step.
LEMMA StatusStep ==
  ASSUME ServerTypeOK, StatusInv, Info!InfoTypeOK, Image!ImageTypeOK,
         Image!ImageTypeOK', Info!InfoTypeOK', [ServerNext]_serverVars
  PROVE  StatusInv'
<1> SUFFICES ASSUME NEW v \in Worker
             PROVE  FailedBy(v)'
  BY DEF StatusInv
<1> USE DEF FailedBy
<1>0. FailedBy(v) /\ failed \subseteq Worker /\ Owned
  BY AreOwned DEF StatusInv, ServerTypeOK
<1>1. ASSUME NEW w \in Worker, GetInfo(w)
      PROVE  FailedBy(v)'
  BY <1>0, <1>1 DEF GetInfo, Info!Request, Info!InfoTypeOK, Info!BlankResponse
<1>2. ASSUME NEW w \in Worker, NEW t \in Target, RefuseQuery(w, t)
      PROVE  FailedBy(v)'
  BY <1>0, <1>2 DEF RefuseQuery, JSONReply, Reply, infoParts, Owned
<1>3. ASSUME NEW w \in Worker,
             \/ \E t \in Target, r \in Routes : GetWithParams(w, r, t)
             \/ Accept(w) \/ ExtractSlice(w) \/ ExtractSliceFails(w)
      PROVE  FailedBy(v)'
  <2>1. UNCHANGED <<reply, failed, infoResponse, responseCode>>
    BY <1>3 DEF GetWithParams, Accept, ExtractSlice, ExtractSliceFails, infoParts
  <2> QED
    BY <1>0, <2>1
<1>4. ASSUME NEW w \in Worker, Reject(w) \/ RespondData(w)
      PROVE  FailedBy(v)'
  <2>1. /\ UNCHANGED <<failed, infoResponse, responseCode>>
        /\ \E r : r.code = responseCode[w] /\ reply' = [reply EXCEPT ![w] = {r}]
    BY <1>4 DEF Reject, RespondData, JSONReply, Reply, infoParts
  <2> QED
    BY <1>0, <2>1 DEF Owned
<1>5. ASSUME NEW w \in Worker,
             RejectStoi(w) \/ ValidateThrows(w) \/ ImageError(w)
      PROVE  FailedBy(v)'
  <2>1. /\ failed' = failed \cup {w} /\ UNCHANGED infoResponse
        /\ UNCHANGED responseCode \/ Sets500(w)
        /\ \E r : reply' = [reply EXCEPT ![w] = {r}]
    BY <1>5 DEF RejectStoi, ValidateThrows, ImageError, Fail, Reply, Sets500, infoParts
  <2>2. CASE v = w
    BY <2>1, <2>2
  <2>3. CASE v # w
    <3>1. reply'[v] = reply[v]
      BY <2>1, <2>3 DEF Owned
    <3>2. responseCode'[v] = responseCode[v]
      BY <2>1, <2>3 DEF Sets500, Image!ImageTypeOK
    <3> QED
      BY <1>0, <2>1, <3>1, <3>2
  <2> QED
    BY <2>2, <2>3
<1>6. ASSUME NEW w \in Worker, BuildGrid(w)
      PROVE  FailedBy(v)'
  BY <1>0, <1>6 DEF BuildGrid, Image!Begin, infoParts
<1>7. ASSUME NEW w \in Worker, InfoGoesOn(w)
      PROVE  FailedBy(v)'
  <2>1. /\ Info!InfoStep(w)
        /\ failed' = IF responseCode' # responseCode THEN failed \cup {w} ELSE failed
    BY <1>7 DEF InfoGoesOn
  <2>2. infoResponse'[v].code \in {200, infoResponse[v].code, responseCode[v]}
    BY <2>1, InfoStepStatus
  <2>3. responseCode'[v] = 500 => v \in failed'
    <3>1. CASE UNCHANGED responseCode
      BY <1>0, <2>1, <3>1
    <3>2. CASE responseCode' # responseCode
      BY <1>0, <2>1, <3>2, InfoStepCode DEF Sets500, Image!ImageTypeOK
    <3> QED
      BY <3>1, <3>2
  <2>4. infoResponse'[v].code = 500 => v \in failed'
    BY <1>0, <2>1, <2>2
  <2>5. \A response \in reply'[v] : response.code = 500 => v \in failed'
    <3>1. CASE reply'[v] = reply[v]
      BY <1>0, <2>1, <3>1
    <3>2. CASE reply'[v] # reply[v]
      <4>1. infoPc'[w] = "idle"
        BY <1>7, <3>2 DEF InfoGoesOn, InfoReplies
      <4>2. PICK answer \in infoReply'[w] :
              Reply(w, answer.code,
                    IF "error" \in answer.body THEN "error" ELSE "info", {})
        BY <1>7, <4>1 DEF InfoGoesOn, InfoReplies
      <4>3. v = w /\ \A response \in reply'[v] : response.code = answer.code
        BY <1>0, <3>2, <4>2 DEF Reply, Owned
      <4>4. answer.code \in {responseCode[w], infoResponse[w].code}
        BY <2>1, <4>1, <4>2, InfoStepStatus
      <4> QED
        BY <1>0, <2>1, <4>3, <4>4
    <3> QED
      BY <3>1, <3>2
  <2> QED
    BY <2>3, <2>4, <2>5
<1>8. ASSUME NEW w \in Worker, ImageGoesOn(w)
      PROVE  FailedBy(v)'
  <2>1. Image!ImageStep(w) /\ ImageReplies(w) /\ UNCHANGED infoResponse
    BY <1>8 DEF ImageGoesOn, infoParts
  <2>2. CASE imagePc'[w] # "idle"
    <3>1. UNCHANGED <<reply, failed, responseCode>>
      BY <2>1, <2>2, ImageStepStatus DEF ImageReplies
    <3> QED
      BY <1>0, <2>1, <3>1
  <2>3. CASE imagePc'[w] = "idle"
    <3>1. PICK answer \in imageReply'[w] :
            /\ Reply(w, answer.code, IF answer.image = {} THEN "error" ELSE "png",
                     {picture.slice : picture \in answer.image})
            /\ failed' = IF answer.code = 500 THEN failed \cup {w} ELSE failed
      BY <2>1, <2>3 DEF ImageReplies
    <3>2. \A response \in reply'[v] : response.code = 500 => v \in failed'
      BY <1>0, <3>1 DEF Reply, Owned
    <3>3. CASE UNCHANGED responseCode
      BY <1>0, <2>1, <3>1, <3>2, <3>3
    <3>4. CASE ~ UNCHANGED responseCode
      <4>1. Sets500(w) /\ imageReply'[w] = {[code |-> 500, image |-> {}]}
        BY <2>1, <3>4, ImageStepStatus
      <4>2. failed' = failed \cup {w}
        BY <3>1, <4>1
      <4>3. responseCode'[v] = 500 => v \in failed'
        BY <1>0, <4>1, <4>2 DEF Sets500, Image!ImageTypeOK
      <4> QED
        BY <1>0, <2>1, <3>2, <4>2, <4>3
    <3> QED
      BY <3>3, <3>4
  <2> QED
    BY <2>2, <2>3
<1>9. CASE GnuplotGoesOn
  BY <1>0, <1>9 DEF GnuplotGoesOn, ownVars, infoParts, Image!Gnuplot,
     Image!GnuplotOpen, Image!GnuplotRejects, Image!GnuplotWrite, Image!GnuplotDone
<1>10. CASE UNCHANGED serverVars
  BY <1>0, <1>10 DEF serverVars, ownVars, infoParts
<1> QED
  BY <1>1, <1>2, <1>3, <1>4, <1>5, <1>6, <1>7, <1>8, <1>9, <1>10
     DEF ServerNext, Handle

-----------------------------------------------------------------------------
LEMMA ServerInvariant == ServerSpec => []ServerInv
<1> DEFINE Parts == Info!InfoInv /\ Image!ImageInv
<1>1. ServerInit => ServerInv
  BY ServerInitInv
<1>2. ServerInv /\ Parts /\ Parts' /\ [ServerNext]_serverVars => ServerInv'
  <2> SUFFICES ASSUME ServerInv, Parts, Parts', [ServerNext]_serverVars
               PROVE  ServerInv'
    OBVIOUS
  <2>1. /\ ServerTypeOK /\ AskedInv /\ StatusInv
        /\ Info!InfoTypeOK /\ Info!InfoTypeOK'
        /\ Image!ImageTypeOK /\ Image!ImageTypeOK'
    BY DEF ServerInv, Info!InfoInv, Image!ImageInv
  <2>2. ServerTypeOK'
    BY <2>1, TypeStep
  <2>3. AskedInv'
    BY <2>1, AskedStep
  <2>4. StatusInv'
    BY <2>1, StatusStep
  <2> QED
    BY <2>2, <2>3, <2>4 DEF ServerInv
<1> QED
  BY <1>1, <1>2, ServerInfoInv, ServerImageInv, PTL DEF ServerSpec

\* Every variable of the composition keeps its type, over every interleaving of
\* the three routes, for any number of threads and any targets.
THEOREM ServerTypes == ServerSpec => []ServerTypeOK
<1>1. ServerInv => ServerTypeOK
  BY DEF ServerInv
<1> QED
  BY <1>1, ServerInvariant, PTL

\* A reply never carries the slice of another request: not of one that another
\* thread handles, through the figure, the pipe or a file, nor of an earlier one
\* of its own thread, through the thread_local indices and data.
THEOREM NoMixedRequests == ServerSpec => []DataIsWhatWasAsked
<1>1. ServerInv => DataIsWhatWasAsked
  BY DEF ServerInv, AskedInv, AskedBy, DataIsWhatWasAsked
<1> QED
  BY <1>1, ServerInvariant, PTL

\* One thread's failure is never the status of another's replies.
THEOREM OwnStatus == ServerSpec => []StatusIsOwn
<1>1. ServerInv => StatusIsOwn
  BY DEF ServerInv, StatusInv, FailedBy, StatusIsOwn
<1> QED
  BY <1>1, ServerInvariant, PTL

-----------------------------------------------------------------------------
\* Where a thread is tells the route that it serves; a slice is extracted for
\* well-formed requests only, and at most one.
ServedBy(w) ==
  /\ At(w, "info") => route[w] = "/get-info"
  /\ serverPc[w] \in {"validate", "extract"} => route[w] \in {"/get-data", "/get-image"}
  /\ At(w, "respond") => route[w] = "/get-data"
  /\ serverPc[w] \in {"grid", "image"} => route[w] = "/get-image"
  /\ serverPc[w] \in {"extract", "respond", "grid", "image"} =>
       (Len(target[w]) <= MaxPairs => WellFormed(target[w]))
  /\ serverPc[w] \in {"respond", "grid"} =>
       result[w] = {} \/ \E slice \in Slice : result[w] = {slice}

ServedInv == \A w \in Worker : ServedBy(w)

\* What a step of a handler does to the place of its thread.
LEMMA HandlerPlace ==
  ASSUME ServerTypeOK, NEW w \in Worker, InfoGoesOn(w) \/ ImageGoesOn(w)
  PROVE  /\ serverPc' \in {serverPc, [serverPc EXCEPT ![w] = "idle"]}
         /\ UNCHANGED <<route, target, result>>
  BY DEF InfoGoesOn, ImageGoesOn, InfoReplies, ImageReplies, Reply, GoTo

LEMMA ServedMove ==
  ASSUME ServerTypeOK, NEW w \in Worker, AskedBy(w), ServedBy(w),
         \/ GetInfo(w)
         \/ \E t \in Target : RefuseQuery(w, t)
         \/ \E t \in Target, r \in Routes : GetWithParams(w, r, t)
         \/ Handle(w)
  PROVE  ServedBy(w)'
<1> USE DEF ServedBy, At, ServerTypeOK
<1>1. CASE GetInfo(w)
  BY <1>1 DEF GetInfo, Arrive, GoTo
<1>2. CASE \E t \in Target : RefuseQuery(w, t)
  BY <1>2 DEF RefuseQuery, Arrive, JSONReply, Reply, GoTo
<1>3. CASE \E t \in Target, r \in Routes : GetWithParams(w, r, t)
  BY <1>3 DEF GetWithParams, Arrive, GoTo
<1>4. CASE Accept(w)
  <2>1. Len(target[w]) <= MaxPairs => WellFormed(target[w])
    BY <1>4, TargetShape, AcceptedIffWellFormed DEF Accept
  <2>2. /\ serverPc' = [serverPc EXCEPT ![w] = "extract"]
        /\ UNCHANGED <<route, target, result>> /\ serverPc[w] = "validate"
    BY <1>4 DEF Accept, GoTo
  <2>3. serverPc'[w] = "extract" /\ route'[w] = route[w] /\ target'[w] = target[w]
    BY <2>2
  <2> QED
    BY <2>1, <2>2, <2>3
<1>5. CASE Reject(w) \/ RejectStoi(w) \/ ValidateThrows(w) \/ ImageError(w)
  <2>1. serverPc'[w] = "idle"
    BY <1>5 DEF Reject, RejectStoi, ValidateThrows, ImageError, JSONReply, Reply, GoTo
  <2> QED
    BY <2>1
<1>6. CASE ExtractSlice(w)
  <2>1. PICK slice \in Slice : result' = [result EXCEPT ![w] = {slice}]
    BY <1>6 DEF ExtractSlice
  <2>2. result'[w] = {slice}
    BY <2>1
  <2>3. /\ serverPc'[w] = IF route[w] = "/get-data" THEN "respond" ELSE "grid"
        /\ UNCHANGED <<route, target>> /\ serverPc[w] = "extract"
    BY <1>6 DEF ExtractSlice, GoTo
  <2> QED
    BY <2>2, <2>3
<1>7. CASE ExtractSliceFails(w)
  <2>1. /\ serverPc'[w] = IF route[w] = "/get-data" THEN "respond" ELSE "grid"
        /\ UNCHANGED <<route, target>> /\ serverPc[w] = "extract" /\ result'[w] = {}
    BY <1>7 DEF ExtractSliceFails, GoTo
  <2> QED
    BY <2>1
<1>8. CASE RespondData(w)
  BY <1>8 DEF RespondData, JSONReply, Reply, GoTo
<1>9. CASE BuildGrid(w)
  <2>1. /\ serverPc'[w] = "image" /\ serverPc[w] = "grid"
        /\ UNCHANGED <<route, target>>
    BY <1>9 DEF BuildGrid, GoTo
  <2> QED
    BY <2>1
<1>10. CASE InfoGoesOn(w) \/ ImageGoesOn(w)
  <2>1. /\ serverPc' \in {serverPc, [serverPc EXCEPT ![w] = "idle"]}
        /\ UNCHANGED <<route, target, result>>
    BY <1>10, HandlerPlace
  <2>2. serverPc'[w] = serverPc[w] \/ serverPc'[w] = "idle"
    BY <2>1
  <2> QED
    BY <2>1, <2>2
<1> QED
  BY <1>1, <1>2, <1>3, <1>4, <1>5, <1>6, <1>7, <1>8, <1>9, <1>10 DEF Handle

\* The request of a thread is its own.
LEMMA RouteKept ==
  ASSUME ServerTypeOK, NEW w \in Worker, NEW v \in Worker, v # w,
         \/ GetInfo(w)
         \/ \E t \in Target : RefuseQuery(w, t)
         \/ \E t \in Target, r \in Routes : GetWithParams(w, r, t)
         \/ Handle(w)
  PROVE  route'[v] = route[v]
<1>1. CASE \/ GetInfo(w)
           \/ \E t \in Target : RefuseQuery(w, t)
           \/ \E t \in Target, r \in Routes : GetWithParams(w, r, t)
  BY <1>1 DEF GetInfo, RefuseQuery, GetWithParams, Arrive, ServerTypeOK
<1>2. CASE Handle(w)
  BY <1>2 DEF Handle, Accept, Reject, RejectStoi, ValidateThrows, ExtractSlice,
     ExtractSliceFails, RespondData, ImageError, BuildGrid, InfoGoesOn, ImageGoesOn
<1> QED
  BY <1>1, <1>2

LEMMA ServedStep ==
  ASSUME ServerTypeOK, AskedInv, ServedInv, Image!ImageTypeOK,
         [ServerNext]_serverVars
  PROVE  ServedInv'
<1> SUFFICES ASSUME NEW v \in Worker
             PROVE  ServedBy(v)'
  BY DEF ServedInv
<1>0. ServedBy(v) /\ AskedBy(v) /\ Owned
  BY AreOwned DEF ServedInv, AskedInv
<1>1. ASSUME NEW w \in Worker,
             \/ GetInfo(w)
             \/ \E t \in Target : RefuseQuery(w, t)
             \/ \E t \in Target, r \in Routes : GetWithParams(w, r, t)
             \/ Handle(w)
      PROVE  ServedBy(v)'
  <2>1. CASE v = w
    BY <1>0, <1>1, <2>1, ServedMove
  <2>2. CASE v # w
    <3>1. UNCHANGED Own(v) /\ route'[v] = route[v]
      BY <1>0, <1>1, <2>2, OthersKeep, RouteKept
    <3> QED
      BY <1>0, <3>1 DEF ServedBy, Own, At
  <2> QED
    BY <2>1, <2>2
<1>2. CASE GnuplotGoesOn \/ UNCHANGED serverVars
  <2>1. UNCHANGED ownVars
    BY <1>2 DEF GnuplotGoesOn, serverVars
  <2> QED
    BY <1>0, <2>1 DEF ServedBy, ownVars, At
<1> QED
  BY <1>1, <1>2 DEF ServerNext

\* The status that a thread has not answered yet is the one it has.
CodeKept == \A w \in Worker :
  infoPc[w] \in {"lock", "recheck", "publish"} => infoResponse[w].code = responseCode[w]

LEMMA CodeKeptStep ==
  ASSUME CodeKept, Info!InfoTypeOK, [Info!InfoNext]_(Info!infoVars)
  PROVE  CodeKept'
<1> USE DEF CodeKept, Info!InfoTypeOK, Info!At, Info!GoTo, Info!InfoSteps
<1>1. ASSUME NEW w \in Worker, Info!Request(w) \/ Info!ElsewhereFails(w)
      PROVE  CodeKept'
  BY <1>1 DEF Info!Request, Info!ElsewhereFails, Info!infoLocal
<1>2. ASSUME NEW w \in Worker,
             Info!ReadLock(w) \/ Info!ServeCached(w) \/ Info!CacheMiss(w)
      PROVE  CodeKept'
  BY <1>2 DEF Info!ReadLock, Info!ServeCached, Info!CacheMiss
<1>3. ASSUME NEW w \in Worker, Info!Extract(w) \/ Info!ExtractFails(w)
      PROVE  CodeKept'
  BY <1>3 DEF Info!Extract, Info!ExtractFails, Info!StepAfter, Info!Sections
<1>4. ASSUME NEW w \in Worker, Info!Respond(w)
      PROVE  CodeKept'
  BY <1>4 DEF Info!Respond, Info!JSONResponse
<1>5. ASSUME NEW w \in Worker,
             Info!WriteLock(w) \/ Info!MoveIntoCache(w) \/ Info!Publish(w) \/ Info!LostRace(w)
      PROVE  CodeKept'
  BY <1>5 DEF Info!WriteLock, Info!MoveIntoCache, Info!Publish, Info!LostRace
<1>6. CASE UNCHANGED Info!infoVars
  BY <1>6 DEF Info!infoVars, Info!infoLocal
<1> QED
  BY <1>1, <1>2, <1>3, <1>4, <1>5, <1>6 DEF Info!InfoNext, Info!InfoStep

-----------------------------------------------------------------------------
\* What the service sees of the server.
Ask == [w \in Worker |-> IF At(w, "idle") THEN {}
                          ELSE {[route |-> route[w], target |-> target[w]]}]
Spoiled == {w \in Worker : responseCode[w] = 500}

LEMMA AskAfter ==
  ASSUME ServerTypeOK, NEW w \in Worker, NEW step, serverPc' = [serverPc EXCEPT ![w] = step],
         \A v \in Worker \ {w} : route'[v] = route[v] /\ target'[v] = target[v]
  PROVE  Ask' = [Ask EXCEPT ![w] =
                   IF step = "idle" THEN {}
                   ELSE {[route |-> route'[w], target |-> target'[w]]}]
<1>1. \A v \in Worker : serverPc'[v] = IF v = w THEN step ELSE serverPc[v]
  BY DEF ServerTypeOK
<1> QED
  BY <1>1 DEF Ask, At

\* A step within a handler is none of the service.
LEMMA AskKept ==
  ASSUME ServerTypeOK, NEW w \in Worker, NEW step, step # "idle",
         serverPc' = [serverPc EXCEPT ![w] = step], ~ At(w, "idle"),
         UNCHANGED <<route, target>>
  PROVE  Ask' = Ask
<1>1. \A v \in Worker : serverPc'[v] = IF v = w THEN step ELSE serverPc[v]
  BY DEF ServerTypeOK
<1> QED
  BY <1>1 DEF Ask, At

LEMMA SpoiledAfter ==
  ASSUME Image!ImageTypeOK, NEW w \in Worker, UNCHANGED responseCode \/ Sets500(w)
  PROVE  /\ UNCHANGED responseCode => UNCHANGED Spoiled
         /\ Sets500(w) => Spoiled' = Spoiled \cup {w}
         /\ responseCode'[w] = IF w \in Spoiled' THEN 500 ELSE 200
<1>1. Sets500(w) => \A v \in Worker : responseCode'[v] = IF v = w THEN 500 ELSE responseCode[v]
  BY DEF Sets500, Image!ImageTypeOK
<1> QED
  BY <1>1 DEF Spoiled, Image!ImageTypeOK

LEMMA SameService ==
  /\ Service!serviceVars = <<Ask, reply, Spoiled>>
  /\ \A w \in Worker :
       Service!Status(w) = IF w \in Spoiled' THEN 500 ELSE 200
  BY DEF Service!serviceVars, Ask, Spoiled, Service!Status

LEMMA ServiceStutter ==
  ASSUME UNCHANGED <<Ask, reply, Spoiled>>
  PROVE  UNCHANGED Service!serviceVars
  BY DEF Service!serviceVars, Ask, Spoiled

\* A request ends: its thread is free, the reply is there.
LEMMA AnswerStep ==
  ASSUME ServerTypeOK, NEW w \in Worker, NEW code, NEW body, NEW slices,
         Reply(w, code, body, slices), UNCHANGED <<route, target>>
  PROVE  Service!Answer(w, [code |-> code, body |-> body, slices |-> slices])
<1>1. Ask' = [Ask EXCEPT ![w] = {}]
  BY AskAfter DEF Reply, GoTo
<1> QED
  BY <1>1 DEF Service!Answer, Reply, Ask

\* It ends with an error.
LEMMA ErrorStep ==
  ASSUME ServerTypeOK, Image!ImageTypeOK, NEW w \in Worker, ~ At(w, "idle"),
         UNCHANGED <<route, target>>, UNCHANGED responseCode \/ Sets500(w),
         NEW code, code \in {500, responseCode'[w]}, Reply(w, code, "error", {})
  PROVE  Service!ServiceNext
<1> DEFINE response == [code |-> code, body |-> "error", slices |-> {}]
<1>1. Service!Answer(w, response)
  BY AnswerStep
<1>2. responseCode'[w] = Service!Status(w) /\ responseCode'[w] \in {200, 500}
  BY SpoiledAfter, SameService
<1>3. Spoiled' \in {Spoiled, Spoiled \cup {w}}
  BY SpoiledAfter
<1>4. Ask[w] # {}
  BY DEF Ask
<1>5. response.code \in {Service!Status(w), 500}
  BY <1>2
<1>6. response.body = "error" /\ response.slices = {}
  OBVIOUS
<1>7. response \in Service!Response
  BY <1>2 DEF Service!Response
<1> HIDE DEF response
<1>8. Service!Fail(w, response)
  BY <1>1, <1>3, <1>4, <1>5, <1>6 DEF Service!Fail, Ask, Spoiled
<1> QED
  BY <1>7, <1>8 DEF Service!ServiceNext

\* It ends with what was asked for.
LEMMA FulfilStep ==
  ASSUME ServerTypeOK, Image!ImageTypeOK, NEW w \in Worker, ~ At(w, "idle"),
         UNCHANGED <<route, target, responseCode>>,
         NEW code \in {200, 500}, NEW body \in {"info", "data", "png"},
         NEW slices \in SUBSET Slice,
         code = IF body = "png" THEN 200 ELSE responseCode[w],
         Reply(w, code, body, slices),
         Service!Fulfils([route |-> route[w], target |-> target[w]],
                         [code |-> code, body |-> body, slices |-> slices])
  PROVE  Service!ServiceNext
<1> DEFINE response == [code |-> code, body |-> body, slices |-> slices]
           request == [route |-> route[w], target |-> target[w]]
<1>1. Service!Answer(w, response)
  BY AnswerStep
<1>2. responseCode[w] = Service!Status(w) /\ UNCHANGED Spoiled
  BY SpoiledAfter, SameService
<1>3. request \in Ask[w]
  BY DEF Ask
<1>4. Service!Fulfils(request, response)
  OBVIOUS
<1>5. response.code = IF response.body = "png" THEN 200 ELSE Service!Status(w)
  BY <1>2
<1>6. response \in Service!Response
  BY DEF Service!Response, Service!Slice, Slice
<1> HIDE DEF response, request
<1>7. Service!Fulfil(w, response)
  BY <1>1, <1>2, <1>3, <1>4, <1>5 DEF Service!Fulfil, Ask, Spoiled
<1> QED
  BY <1>6, <1>7 DEF Service!ServiceNext

\* The service's well-formed requests are those of the parameters.
LEMMA SameRequests ==
  ASSUME NEW t, NEW slice
  PROVE  /\ Service!WellFormed(t) <=> WellFormed(t)
         /\ Service!AsksForSlice(t, slice) <=> AsksForSlice(t, slice)
  BY DEF Service!WellFormed, WellFormed, Service!AsksForSlice, AsksForSlice,
     Service!AsksFor, AsksFor

\* How the handlers of the parts end.
LEMMA InfoEnds ==
  ASSUME Info!InfoTypeOK, CodeKept, NEW w \in Worker, Info!InfoStep(w),
         infoPc'[w] = "idle"
  PROVE  /\ UNCHANGED responseCode
         /\ \A answer \in infoReply'[w] : answer.code = responseCode[w]
<1> USE DEF Info!InfoTypeOK, Info!At, Info!GoTo, Info!InfoSteps, CodeKept
<1>1. CASE Info!ServeCached(w) \/ Info!Publish(w) \/ Info!LostRace(w)
  BY <1>1 DEF Info!ServeCached, Info!Publish, Info!LostRace, Info!JSONResponse
<1>2. CASE \/ Info!ReadLock(w) \/ Info!CacheMiss(w) \/ Info!ExtractFails(w)
           \/ Info!Respond(w) \/ Info!WriteLock(w) \/ Info!MoveIntoCache(w)
  BY <1>2 DEF Info!ReadLock, Info!CacheMiss, Info!ExtractFails, Info!Respond,
     Info!WriteLock, Info!MoveIntoCache
<1>3. CASE Info!Extract(w)
  BY <1>3 DEF Info!Extract, Info!StepAfter, Info!Sections
<1> QED
  BY <1>1, <1>2, <1>3 DEF Info!InfoStep

LEMMA ImageEnds ==
  ASSUME Image!ImageTypeOK, Image!BufferInv, NEW w \in Worker, Image!ImageStep(w),
         imagePc'[w] = "idle"
  PROVE  \A answer \in imageReply'[w] :
           \/ answer.code = 500 /\ answer.image = {}
           \/ answer.code = 200 /\ answer.image # {} /\ UNCHANGED responseCode
<1> USE DEF Image!ImageTypeOK
<1>1. CASE \/ Image!GridEmpty(w) \/ Image!SaveThrows(w)
           \/ Image!WaitTimesOut(w) \/ Image!OpenFails(w)
  <2>1. Image!ReturnError(w)
    BY <1>1 DEF Image!GridEmpty, Image!SaveThrows, Image!WaitTimesOut, Image!OpenFails
  <2> QED
    BY <2>1 DEF Image!ReturnError, Image!Return
<1>2. CASE Image!DrawThrows(w) \/ Image!FilesystemThrows(w)
  BY <1>2 DEF Image!DrawThrows, Image!FilesystemThrows, Image!Uncaught, Image!Return
<1>3. CASE Image!RemoveImage(w)
  BY <1>3 DEF Image!RemoveImage, Image!Return, Image!BufferInv
<1>4. CASE \/ Image!LockPng(w) \/ Image!DrawFigure(w) \/ Image!Save(w)
           \/ Image!SaveReturnsFalse(w) \/ Image!FileReady(w)
           \/ Image!FileNotReady(w) \/ Image!ReadImage(w)
  BY <1>4 DEF Image!LockPng, Image!DrawFigure, Image!Save,
     Image!SaveReturnsFalse, Image!FileReady, Image!FileNotReady, Image!ReadImage
<1> QED
  BY <1>1, <1>2, <1>3, <1>4 DEF Image!ImageStep

\* The reply of handleGetInfo, and its failures before it.
LEMMA InfoServes ==
  ASSUME ServerTypeOK, Image!ImageTypeOK, Info!InfoTypeOK, CodeKept,
         NEW w \in Worker, ServedBy(w), InfoGoesOn(w)
  PROVE  [Service!ServiceNext]_(Service!serviceVars)
<1>1. /\ At(w, "info") /\ Info!InfoStep(w) /\ InfoReplies(w)
      /\ UNCHANGED <<route, target>> /\ route[w] = "/get-info"
  BY DEF InfoGoesOn, ServedBy
<1>2. ~ At(w, "idle")
  BY <1>1 DEF At
<1>3. CASE infoPc'[w] = "idle"
  <2>1. PICK answer \in infoReply'[w] :
          Reply(w, answer.code, IF "error" \in answer.body THEN "error" ELSE "info", {})
    BY <1>1, <1>3 DEF InfoReplies
  <2>2. UNCHANGED responseCode /\ answer.code = responseCode[w]
    BY <1>1, <1>3, <2>1, InfoEnds
  <2>3. responseCode[w] \in {200, 500}
    BY DEF Image!ImageTypeOK
  <2>4. CASE "error" \in answer.body
    <3>1. Reply(w, responseCode[w], "error", {})
      BY <2>1, <2>2, <2>4
    <3>2. responseCode'[w] = responseCode[w]
      BY <2>2
    <3> QED
      BY <1>1, <1>2, <2>2, <3>1, <3>2, ErrorStep
  <2>5. CASE "error" \notin answer.body
    <3>1. Reply(w, responseCode[w], "info", {})
      BY <2>1, <2>2, <2>5
    <3>2. Service!Fulfils([route |-> route[w], target |-> target[w]],
                          [code |-> responseCode[w], body |-> "info", slices |-> {}])
      BY <1>1 DEF Service!Fulfils
    <3>3. {} \in SUBSET Slice
      OBVIOUS
    <3> QED
      BY <1>1, <1>2, <2>2, <2>3, <3>1, <3>2, <3>3, FulfilStep
  <2> QED
    BY <2>4, <2>5
<1>4. CASE infoPc'[w] # "idle"
  <2>1. UNCHANGED <<reply, serverPc>>
    BY <1>1, <1>4 DEF InfoReplies
  <2>2. Ask' = Ask
    BY <1>1, <2>1 DEF Ask, At
  <2>3. CASE UNCHANGED responseCode
    BY <2>1, <2>2, <2>3, ServiceStutter DEF Spoiled
  <2>4. CASE Sets500(w)
    <3>1. Spoiled' = Spoiled \cup {w}
      BY <2>4, SpoiledAfter
    <3>2. [route |-> route[w], target |-> target[w]] \in Ask[w]
      BY <1>2 DEF Ask
    <3>3. Service!Spoil(w)
      BY <1>1, <2>1, <2>2, <3>1, <3>2 DEF Service!Spoil, Ask, Spoiled
    <3> QED
      BY <3>3 DEF Service!ServiceNext
  <2> QED
    BY <1>1, <2>3, <2>4, InfoStepCode
<1> QED
  BY <1>3, <1>4

\* The picture, or its error.
LEMMA ImageServes ==
  ASSUME ServerTypeOK, Image!ImageTypeOK, Image!ImageTypeOK', Image!OwnImage',
         Image!BufferInv, NEW w \in Worker, ServedBy(w), AskedBy(w), ImageGoesOn(w)
  PROVE  [Service!ServiceNext]_(Service!serviceVars)
<1>1. /\ At(w, "image") /\ Image!ImageStep(w) /\ ImageReplies(w)
      /\ UNCHANGED <<route, target>> /\ route[w] = "/get-image"
      /\ Len(target[w]) <= MaxPairs => WellFormed(target[w])
      /\ AsksForSlice(target[w], grid[w])
  BY DEF ImageGoesOn, ServedBy, AskedBy, At
<1>2. ~ At(w, "idle")
  BY <1>1 DEF At
<1>3. CASE imagePc'[w] = "idle"
  <2>1. PICK answer \in imageReply'[w] :
          Reply(w, answer.code, IF answer.image = {} THEN "error" ELSE "png",
                {picture.slice : picture \in answer.image})
    BY <1>1, <1>3 DEF ImageReplies
  <2>2. \/ answer.code = 500 /\ answer.image = {}
        \/ answer.code = 200 /\ answer.image # {} /\ UNCHANGED responseCode
    BY <1>1, <1>3, <2>1, ImageEnds
  <2>3. CASE answer.code = 500 /\ answer.image = {}
    <3>1. {picture.slice : picture \in answer.image} = {}
      BY <2>3
    <3>2. Reply(w, 500, "error", {})
      BY <2>1, <2>3, <3>1
    <3> QED
      BY <1>1, <1>2, <3>2, ErrorStep, ImageStepCode
  <2>4. CASE answer.code = 200 /\ answer.image # {} /\ UNCHANGED responseCode
    <3>1. grid' = grid
      BY <1>1, ImageStepStatus
    <3>2. \A picture \in answer.image : picture.slice = grid[w]
      BY <1>3, <2>1, <3>1 DEF Image!OwnImage
    <3>3. {picture.slice : picture \in answer.image} = {grid[w]}
      BY <2>4, <3>2
    <3>4. Reply(w, 200, "png", {grid[w]})
      BY <2>1, <2>4, <3>3
    <3>5. grid[w] \in Slice
      BY DEF Image!ImageTypeOK
    <3>6. Service!Fulfils([route |-> route[w], target |-> target[w]],
                          [code |-> 200, body |-> "png", slices |-> {grid[w]}])
      BY <1>1, <3>5, SameRequests DEF Service!Fulfils, Service!Slice, Slice
    <3>7. UNCHANGED <<route, target, responseCode>> /\ {grid[w]} \in SUBSET Slice
      BY <1>1, <2>4, <3>5
    <3> QED
      BY <1>2, <3>4, <3>6, <3>7, FulfilStep
  <2> QED
    BY <2>2, <2>3, <2>4
<1>4. CASE imagePc'[w] # "idle"
  <2>1. UNCHANGED <<reply, serverPc, responseCode>>
    BY <1>1, <1>4, ImageStepStatus DEF ImageReplies
  <2>2. Ask' = Ask
    BY <1>1, <2>1 DEF Ask, At
  <2> QED
    BY <2>1, <2>2, ServiceStutter DEF Spoiled
<1> QED
  BY <1>3, <1>4

\* Every step of the server is one of the service, or none.
LEMMA ServiceStep ==
  ASSUME ServerTypeOK, AskedInv, ServedInv, CodeKept, Image!BufferInv,
         Info!InfoTypeOK, Image!ImageTypeOK, Image!ImageTypeOK', Image!OwnImage',
         [ServerNext]_serverVars
  PROVE  [Service!ServiceNext]_(Service!serviceVars)
<1>0. \A w \in Worker : /\ AskedBy(w) /\ ServedBy(w)
                        /\ responseCode[w] \in {200, 500}
  BY DEF AskedInv, ServedInv, Image!ImageTypeOK
<1>1. ASSUME NEW w \in Worker, GetInfo(w)
      PROVE  Service!ServiceNext
  <2>1. /\ At(w, "idle") /\ serverPc' = [serverPc EXCEPT ![w] = "info"]
        /\ route' = [route EXCEPT ![w] = "/get-info"]
        /\ target' = [target EXCEPT ![w] = <<>>]
        /\ UNCHANGED <<reply, responseCode>>
    BY <1>1 DEF GetInfo, Arrive, GoTo, Info!Request
  <2>2. route'[w] = "/get-info" /\ target'[w] = <<>>
    BY <2>1 DEF ServerTypeOK
  <2>3. \A v \in Worker \ {w} : route'[v] = route[v] /\ target'[v] = target[v]
    BY <2>1 DEF ServerTypeOK
  <2>4. Ask' = [Ask EXCEPT ![w] = {[route |-> "/get-info", target |-> <<>>]}]
    <3>1. Ask' = [Ask EXCEPT ![w] =
                    IF "info" = "idle" THEN {}
                    ELSE {[route |-> route'[w], target |-> target'[w]]}]
      BY <2>1, <2>3, AskAfter
    <3> QED
      BY <2>2, <3>1
  <2>5. Ask[w] = {} /\ UNCHANGED Spoiled
    BY <2>1 DEF Ask, Spoiled
  <2>6. Service!Take(w, [route |-> "/get-info", target |-> <<>>])
    BY <2>1, <2>4, <2>5 DEF Service!Take, Ask, Spoiled
  <2> QED
    BY <2>6 DEF Service!ServiceNext
<1>2. ASSUME NEW w \in Worker, NEW t \in Target, RefuseQuery(w, t)
      PROVE  Service!ServiceNext
  <2>1. /\ At(w, "idle") /\ serverPc' = [serverPc EXCEPT ![w] = "idle"]
        /\ route' = [route EXCEPT ![w] = "/get-info"]
        /\ target' = [target EXCEPT ![w] = t] /\ UNCHANGED responseCode
        /\ reply' = [reply EXCEPT ![w] =
             {[code |-> responseCode[w], body |-> "error", slices |-> {}]}]
    BY <1>2 DEF RefuseQuery, Arrive, JSONReply, Reply, GoTo
  <2>2. \A v \in Worker \ {w} : route'[v] = route[v] /\ target'[v] = target[v]
    BY <2>1 DEF ServerTypeOK
  <2>3. Ask[w] = {}
    BY <2>1 DEF Ask
  <2>4. Ask' = [Ask EXCEPT ![w] = {}]
    BY <2>1, <2>2, AskAfter
  <2>5. Ask' = Ask
    BY <2>3, <2>4 DEF Ask
  <2>6. responseCode[w] = Service!Status(w) /\ UNCHANGED Spoiled
    BY <2>1, SpoiledAfter, SameService
  <2>7. Service!Refuse(w)
    BY <2>1, <2>3, <2>5, <2>6 DEF Service!Refuse, Ask, Spoiled
  <2> QED
    BY <2>7 DEF Service!ServiceNext
<1>3. ASSUME NEW w \in Worker, NEW t \in Target, NEW r \in Routes,
             GetWithParams(w, r, t)
      PROVE  Service!ServiceNext
  <2>1. /\ At(w, "idle") /\ serverPc' = [serverPc EXCEPT ![w] = "validate"]
        /\ route' = [route EXCEPT ![w] = r]
        /\ target' = [target EXCEPT ![w] = t]
        /\ r \in {"/get-data", "/get-image"}
        /\ UNCHANGED <<reply, responseCode>>
    BY <1>3 DEF GetWithParams, Arrive, GoTo
  <2>2. route'[w] = r /\ target'[w] = t
    BY <2>1 DEF ServerTypeOK
  <2>3. \A v \in Worker \ {w} : route'[v] = route[v] /\ target'[v] = target[v]
    BY <2>1 DEF ServerTypeOK
  <2>4. Ask' = [Ask EXCEPT ![w] = {[route |-> r, target |-> t]}]
    <3>1. Ask' = [Ask EXCEPT ![w] =
                    IF "validate" = "idle" THEN {}
                    ELSE {[route |-> route'[w], target |-> target'[w]]}]
      BY <2>1, <2>3, AskAfter
    <3> QED
      BY <2>2, <3>1
  <2>5. Ask[w] = {} /\ UNCHANGED Spoiled
    BY <2>1 DEF Ask, Spoiled
  <2>6. Service!Take(w, [route |-> r, target |-> t])
    BY <2>1, <2>4, <2>5 DEF Service!Take, Ask, Spoiled
  <2> QED
    BY <2>1, <2>6 DEF Service!ServiceNext
<1>4. ASSUME NEW w \in Worker,
             Accept(w) \/ ExtractSlice(w) \/ ExtractSliceFails(w) \/ BuildGrid(w)
      PROVE  UNCHANGED Service!serviceVars
  <2>1. /\ ~ At(w, "idle")
        /\ \E step : step # "idle" /\ serverPc' = [serverPc EXCEPT ![w] = step]
        /\ UNCHANGED <<route, target, reply, responseCode>>
    BY <1>4 DEF Accept, ExtractSlice, ExtractSliceFails, BuildGrid, GoTo, At,
       Image!Begin
  <2>2. Ask' = Ask
    BY <2>1, AskKept
  <2> QED
    BY <2>1, <2>2, ServiceStutter DEF Spoiled
<1>5. ASSUME NEW w \in Worker,
             Reject(w) \/ RejectStoi(w) \/ ValidateThrows(w) \/ ImageError(w)
      PROVE  Service!ServiceNext
  <2>1. /\ ~ At(w, "idle") /\ UNCHANGED <<route, target>>
        /\ UNCHANGED responseCode \/ Sets500(w)
    BY <1>5 DEF Reject, RejectStoi, ValidateThrows, ImageError, At, Fail, Sets500
  <2>2. \E code : code \in {500, responseCode'[w]} /\ Reply(w, code, "error", {})
    BY <1>5 DEF Reject, RejectStoi, ValidateThrows, ImageError, JSONReply
  <2> QED
    BY <2>1, <2>2, ErrorStep
<1>6. ASSUME NEW w \in Worker, RespondData(w)
      PROVE  Service!ServiceNext
  <2>1. /\ At(w, "respond") /\ UNCHANGED <<route, target, responseCode>>
        /\ Reply(w, responseCode[w], IF result[w] = {} THEN "error" ELSE "data", result[w])
    BY <1>6 DEF RespondData, JSONReply
  <2>2. ~ At(w, "idle")
    BY <2>1 DEF At
  <2>3. CASE result[w] = {}
    <3>1. Reply(w, responseCode[w], "error", {}) /\ responseCode'[w] = responseCode[w]
      BY <2>1, <2>3
    <3> QED
      BY <2>1, <2>2, <3>1, ErrorStep
  <2>4. CASE result[w] # {}
    <3>1. PICK slice \in Slice : result[w] = {slice}
      BY <1>0, <2>1, <2>4 DEF ServedBy, At
    <3>2. Reply(w, responseCode[w], "data", result[w])
      BY <2>1, <2>4
    <3>3. /\ route[w] = "/get-data" /\ AsksForSlice(target[w], slice)
          /\ Len(target[w]) <= MaxPairs => WellFormed(target[w])
      <4>1. serverPc[w] = "respond" /\ ServedBy(w) /\ AskedBy(w)
        BY <1>0, <2>1 DEF At
      <4>2. slice \in result[w]
        BY <3>1
      <4>3. AsksForSlice(target[w], slice)
        BY <4>1, <4>2 DEF AskedBy, At
      <4>4. route[w] = "/get-data" /\ (Len(target[w]) <= MaxPairs => WellFormed(target[w]))
        BY <4>1 DEF ServedBy, At
      <4> QED
        BY <4>3, <4>4
    <3>4. Service!Fulfils([route |-> route[w], target |-> target[w]],
            [code |-> responseCode[w], body |-> "data", slices |-> result[w]])
      BY <3>1, <3>3, SameRequests DEF Service!Fulfils, Service!Slice, Slice
    <3>5. /\ result[w] \in SUBSET Slice /\ responseCode[w] \in {200, 500}
          /\ "data" \in {"info", "data", "png"}
          /\ UNCHANGED <<route, target, responseCode>>
          /\ responseCode[w] = IF "data" = "png" THEN 200 ELSE responseCode[w]
      BY <1>0, <2>1, <3>1
    <3> QED
      BY <2>2, <3>2, <3>4, <3>5, FulfilStep
  <2> QED
    BY <2>3, <2>4
<1>7. ASSUME NEW w \in Worker, InfoGoesOn(w)
      PROVE  [Service!ServiceNext]_(Service!serviceVars)
  BY <1>0, <1>7, InfoServes
<1>8. ASSUME NEW w \in Worker, ImageGoesOn(w)
      PROVE  [Service!ServiceNext]_(Service!serviceVars)
  BY <1>0, <1>8, ImageServes
<1>9. CASE GnuplotGoesOn \/ UNCHANGED serverVars
  <2>1. UNCHANGED <<serverPc, route, target, reply, responseCode>>
    BY <1>9 DEF GnuplotGoesOn, Image!Gnuplot, Image!GnuplotOpen,
       Image!GnuplotRejects, Image!GnuplotWrite, Image!GnuplotDone,
       serverVars, ownVars
  <2>2. UNCHANGED <<Ask, reply, Spoiled>>
    BY <2>1 DEF Ask, Spoiled, At
  <2> QED
    BY <2>2, ServiceStutter
<1> QED
  BY <1>1, <1>2, <1>3, <1>4, <1>5, <1>6, <1>7, <1>8, <1>9 DEF ServerNext, Handle

\* The service, whose requests and threads are the server's, is what its
\* clients can rely on: everything that the handlers share and every thread's
\* own past stay behind it.
THEOREM ServerImplementsService == ServerSpec => ImplementsService
<1>1. ServerInit => Service!ServiceInit /\ ServedInv /\ CodeKept
  BY DEF ServerInit, Service!ServiceInit, ServedInv, ServedBy, CodeKept, At,
     Image!ImageInit, Info!InfoInit
<1>2. ServerInv /\ Image!ImageInv /\ ServedInv /\ [ServerNext]_serverVars => ServedInv'
  BY ServedStep DEF ServerInv, Image!ImageInv
<1>3. CodeKept /\ Info!InfoInv /\ [Info!InfoNext]_(Info!infoVars) => CodeKept'
  BY CodeKeptStep DEF Info!InfoInv
<1>4. /\ ServerInv /\ ServedInv /\ CodeKept
      /\ Info!InfoInv /\ Image!ImageInv /\ Image!ImageInv' /\ [ServerNext]_serverVars
      => [Service!ServiceNext]_(Service!serviceVars)
  BY ServiceStep DEF ServerInv, Info!InfoInv, Image!ImageInv
<1> QED
  BY <1>1, <1>2, <1>3, <1>4, ServerInvariant, ServerInfoInv, ServerImageInv,
     ServerUsesCache, ServerUsesRenderer, PTL
     DEF ServerSpec, ImplementsService, Service!ServiceSpec, UsesCache,
         UsesRenderer, Info!InfoSpec, Image!ImageSpec

-----------------------------------------------------------------------------
\* The locks of the parts are let go of: what LockInv and MutexInv say of who
\* holds them leaves no room for a thread that waits and is waited for.
THEOREM NobodyWaitsInCircles == ServerSpec => []NoCircularWait
<1>1. PlaceInv /\ Info!LockInv /\ Image!MutexInv => NoCircularWait
  <2> SUFFICES ASSUME PlaceInv, Info!LockInv, Image!MutexInv,
                      NEW w \in Worker, NEW v \in WaitsFor(w)
               PROVE  v # w /\ ~ At(v, "idle") /\ WaitsFor(v) = {}
    BY DEF NoCircularWait
  <2>1. v \in Worker
    BY DEF WaitsFor
  <2>2. \/ infoPc[w] \in {"lookup", "lock"} /\ infoPc[v] \in {"recheck", "publish"}
        \/ infoPc[w] = "lock" /\ infoPc[v] = "reading"
        \/ imagePc[w] = "visual" /\ imagePc[v] \in {"draw", "save"}
    BY <2>1 DEF WaitsFor, Info!LockInv, Image!MutexInv
  <2>3. v # w
    BY <2>2
  <2>4. infoPc[v] = "idle" \/ imagePc[v] = "idle"
    BY <2>1 DEF PlaceInv, PartInv, At
  <2>5. /\ ~ At(v, "idle")
        /\ infoPc[v] \notin {"lookup", "lock"} /\ imagePc[v] # "visual"
    BY <2>1, <2>2, <2>4 DEF PlaceInv, PartInv, At
  <2>6. WaitsFor(v) = {}
    BY <2>5 DEF WaitsFor
  <2> QED
    BY <2>3, <2>5, <2>6
<1>2. Info!InfoInv => Info!LockInv
  BY DEF Info!InfoInv
<1>3. Image!ImageInv => Image!MutexInv
  BY DEF Image!ImageInv
<1> QED
  BY <1>1, <1>2, <1>3, Place, ServerInfoInv, ServerImageInv, PTL

-----------------------------------------------------------------------------
\* Where a thread is, to the last poll.
Spot(w) == <<serverPc[w], infoPc[w], imagePc[w], polls[w]>>

LEMMA SpotOfOthers ==
  ASSUME PlaceInv, Image!ImageTypeOK, NEW w \in Worker, NEW v \in Worker, v # w,
         \/ GetInfo(w)
         \/ \E t \in Target : RefuseQuery(w, t)
         \/ \E t \in Target, r \in Routes : GetWithParams(w, r, t)
         \/ Handle(w)
  PROVE  UNCHANGED Spot(v)
<1> USE DEF PlaceInv, Spot
<1>1. CASE \/ GetInfo(w)
           \/ \E t \in Target : RefuseQuery(w, t)
           \/ \E t \in Target, r \in Routes : GetWithParams(w, r, t)
  BY <1>1 DEF GetInfo, RefuseQuery, GetWithParams, Arrive, JSONReply, Reply,
     GoTo, Info!Request, Info!GoTo, infoParts, imageParts
<1>2. CASE \/ Accept(w) \/ Reject(w) \/ RejectStoi(w) \/ ValidateThrows(w)
           \/ ExtractSlice(w) \/ ExtractSliceFails(w) \/ RespondData(w)
           \/ ImageError(w)
  <2>1. UNCHANGED <<infoPc, imagePc, polls>>
    BY <1>2 DEF Accept, Reject, RejectStoi, ValidateThrows, ExtractSlice,
       ExtractSliceFails, RespondData, ImageError, infoParts, imageParts
  <2>2. \E step : serverPc' = [serverPc EXCEPT ![w] = step]
    BY <1>2 DEF Accept, Reject, RejectStoi, ValidateThrows, ExtractSlice,
       ExtractSliceFails, RespondData, ImageError, JSONReply, Reply, GoTo
  <2> QED
    BY <2>1, <2>2
<1>3. CASE BuildGrid(w)
  BY <1>3 DEF BuildGrid, GoTo, Image!Begin, Image!ImageTypeOK, infoParts
<1>4. CASE InfoGoesOn(w)
  <2>1. infoPc'[v] = infoPc[v]
    BY <1>4, InfoStepPlace DEF InfoGoesOn
  <2>2. UNCHANGED <<imagePc, polls>> /\ serverPc'[v] = serverPc[v]
    BY <1>4 DEF InfoGoesOn, InfoReplies, Reply, GoTo, imageParts
  <2> QED
    BY <2>1, <2>2
<1>5. CASE ImageGoesOn(w)
  <2>1. Image!ImageStep(w) /\ imagePc'[v] = imagePc[v]
    BY <1>5, ImageStepPlace DEF ImageGoesOn
  <2>2. polls'[v] = polls[v]
    BY <2>1 DEF Image!ImageStep, Image!GridEmpty, Image!LockPng,
       Image!DrawFigure, Image!DrawThrows, Image!Save, Image!SaveReturnsFalse,
       Image!SaveThrows, Image!FileReady, Image!FileNotReady,
       Image!WaitTimesOut, Image!ReadImage, Image!OpenFails,
       Image!RemoveImage, Image!FilesystemThrows, Image!ReturnError,
       Image!Uncaught, Image!Return, Image!ImageTypeOK
  <2>3. UNCHANGED infoPc /\ serverPc'[v] = serverPc[v]
    BY <1>5 DEF ImageGoesOn, ImageReplies, Reply, GoTo, infoParts
  <2> QED
    BY <2>1, <2>2, <2>3
<1> QED
  BY <1>1, <1>2, <1>3, <1>4, <1>5 DEF Handle

\* A thread that is in no handler has none left; all others have.
LEMMA SomeStepsLeft ==
  ASSUME PlaceInv, Image!ImageTypeOK, NEW w \in Worker, ~ At(w, "idle")
  PROVE  StepsLeft(w) \in Nat /\ StepsLeft(w) > 0
<1>1. MaxPolls \in Nat \ {0} /\ polls[w] \in 0..MaxPolls
  BY ServerAssumption DEF Image!ImageTypeOK
<1>2. PollsLeft(w) \in Nat
  BY <1>1 DEF PollsLeft
<1>3. CASE At(w, "info")
  <2>1. infoPc[w] \in Info!InfoSteps \ {"idle"}
    BY <1>3 DEF PlaceInv, PartInv
  <2> QED
    BY <1>3, <2>1 DEF StepsLeft, InfoStepsLeft, Info!InfoSteps, At
<1>4. CASE At(w, "image")
  <2>1. imagePc[w] \in Image!ImageSteps \ {"idle"}
    BY <1>4 DEF PlaceInv, PartInv
  <2>2. ImageStepsLeft[imagePc[w]] \in 1..5
    BY <2>1 DEF ImageStepsLeft, Image!ImageSteps
  <2>3. StepsLeft(w) = ImageStepsLeft[imagePc[w]] + PollsLeft(w)
    BY <1>4 DEF StepsLeft, At
  <2> QED
    BY <1>2, <2>2, <2>3
<1>5. CASE serverPc[w] \in {"respond", "grid", "extract", "validate"}
  BY <1>1, <1>5 DEF StepsLeft, At
<1> QED
  BY <1>3, <1>4, <1>5 DEF PlaceInv, ServerSteps, At

\* The handlers of the parts get on.
LEMMA InfoGetsOn ==
  ASSUME infoPc \in [Worker -> Info!InfoSteps], NEW w \in Worker, Info!InfoStep(w),
         infoPc'[w] # "idle"
  PROVE  InfoStepsLeft[infoPc'[w]] < InfoStepsLeft[infoPc[w]]
<1> USE DEF InfoStepsLeft, Info!At, Info!GoTo
<1>1. CASE Info!ReadLock(w) \/ Info!CacheMiss(w) \/ Info!Respond(w) \/ Info!WriteLock(w)
           \/ Info!MoveIntoCache(w)
  BY <1>1 DEF Info!ReadLock, Info!CacheMiss, Info!Respond, Info!WriteLock,
     Info!MoveIntoCache
<1>2. CASE Info!Extract(w) \/ Info!ExtractFails(w)
  BY <1>2 DEF Info!Extract, Info!ExtractFails, Info!StepAfter, Info!Sections
<1>3. CASE Info!ServeCached(w) \/ Info!Publish(w) \/ Info!LostRace(w)
  BY <1>3 DEF Info!ServeCached, Info!Publish, Info!LostRace
<1> QED
  BY <1>1, <1>2, <1>3 DEF Info!InfoStep

ImageLeft(w) == ImageStepsLeft[imagePc[w]] + PollsLeft(w)

LEMMA ImageGetsOn ==
  ASSUME Image!ImageTypeOK, Image!ImageTypeOK', NEW w \in Worker, Image!ImageStep(w),
         imagePc'[w] # "idle"
  PROVE  ImageLeft(w)' < ImageLeft(w)
<1>0. /\ MaxPolls \in Nat \ {0} /\ polls[w] \in 0..MaxPolls /\ polls'[w] \in 0..MaxPolls
      /\ imagePc \in [Worker -> Image!ImageSteps] /\ polls \in [Worker -> 0..MaxPolls]
  BY ServerAssumption DEF Image!ImageTypeOK
<1> USE <1>0 DEF ImageLeft, ImageStepsLeft, PollsLeft
<1>1. CASE Image!LockPng(w)
  BY <1>1 DEF Image!LockPng
<1>2. CASE Image!DrawFigure(w)
  BY <1>2 DEF Image!DrawFigure
<1>3. CASE Image!Save(w) \/ Image!SaveReturnsFalse(w)
  BY <1>3 DEF Image!Save, Image!SaveReturnsFalse
<1>4. CASE Image!FileReady(w)
  BY <1>4 DEF Image!FileReady
<1>5. CASE Image!FileNotReady(w)
  BY <1>5 DEF Image!FileNotReady
<1>6. CASE Image!ReadImage(w)
  BY <1>6 DEF Image!ReadImage
<1>7. CASE \/ Image!GridEmpty(w) \/ Image!DrawThrows(w) \/ Image!SaveThrows(w)
           \/ Image!WaitTimesOut(w) \/ Image!OpenFails(w)
           \/ Image!RemoveImage(w) \/ Image!FilesystemThrows(w)
  <2>1. \E answer : Image!Return(w, answer)
    BY <1>7 DEF Image!GridEmpty, Image!DrawThrows, Image!SaveThrows,
       Image!WaitTimesOut, Image!OpenFails, Image!RemoveImage,
       Image!FilesystemThrows, Image!ReturnError, Image!Uncaught
  <2> QED
    BY <2>1 DEF Image!Return
<1> QED
  BY <1>1, <1>2, <1>3, <1>4, <1>5, <1>6, <1>7 DEF Image!ImageStep

\* The thread that moves: every step of a handler takes it nearer to its end.
LEMMA HandlerGetsOn ==
  ASSUME PlaceInv, PlaceInv', Image!ImageTypeOK, Image!ImageTypeOK',
         NEW w \in Worker, ~ At(w, "idle"), Handle(w)
  PROVE  StepsLeft(w)' < StepsLeft(w)
<1>0. /\ MaxPolls \in Nat \ {0} /\ serverPc \in [Worker -> ServerSteps]
      /\ StepsLeft(w) \in Nat /\ StepsLeft(w) > 0
  BY ServerAssumption, SomeStepsLeft DEF PlaceInv
<1>1. ASSUME serverPc'[w] = "idle"
      PROVE  StepsLeft(w)' < StepsLeft(w)
  BY <1>0, <1>1 DEF StepsLeft, At
<1>2. CASE Accept(w)
  <2>1. serverPc[w] = "validate" /\ serverPc'[w] = "extract"
    BY <1>0, <1>2 DEF Accept, GoTo, At
  <2> QED
    BY <1>0, <2>1 DEF StepsLeft, At
<1>3. CASE Reject(w) \/ RejectStoi(w) \/ ValidateThrows(w) \/ RespondData(w) \/ ImageError(w)
  <2>1. serverPc'[w] = "idle"
    BY <1>0, <1>3 DEF Reject, RejectStoi, ValidateThrows, RespondData, ImageError,
       JSONReply, Reply, GoTo
  <2> QED
    BY <1>1, <2>1
<1>4. CASE ExtractSlice(w) \/ ExtractSliceFails(w)
  <2>1. serverPc[w] = "extract" /\ serverPc'[w] \in {"respond", "grid"}
    BY <1>0, <1>4 DEF ExtractSlice, ExtractSliceFails, GoTo, At
  <2> QED
    BY <1>0, <2>1 DEF StepsLeft, At
<1>5. CASE BuildGrid(w)
  <2>1. serverPc[w] = "grid" /\ serverPc'[w] = "image" /\ imagePc'[w] = "visual"
    BY <1>0, <1>5 DEF BuildGrid, GoTo, At, Image!Begin, Image!ImageTypeOK
  <2>2. StepsLeft(w)' = 5 + MaxPolls
    BY <2>1 DEF StepsLeft, At, ImageStepsLeft, PollsLeft
  <2> QED
    BY <1>0, <2>1, <2>2 DEF StepsLeft, At
<1>6. CASE InfoGoesOn(w)
  <2>1. /\ serverPc[w] = "info" /\ Info!InfoStep(w) /\ InfoReplies(w)
        /\ infoPc \in [Worker -> Info!InfoSteps]
    BY <1>6 DEF InfoGoesOn, At, PlaceInv
  <2>2. CASE infoPc'[w] = "idle"
    <3>1. serverPc'[w] = "idle"
      BY <1>0, <2>1, <2>2 DEF InfoReplies, Reply, GoTo
    <3> QED
      BY <1>1, <3>1
  <2>3. CASE infoPc'[w] # "idle"
    <3>1. InfoStepsLeft[infoPc'[w]] < InfoStepsLeft[infoPc[w]]
      BY <2>1, <2>3, InfoGetsOn
    <3>2. serverPc'[w] = "info"
      BY <2>1, <2>3 DEF InfoReplies
    <3>3. /\ StepsLeft(w) = InfoStepsLeft[infoPc[w]]
          /\ StepsLeft(w)' = (InfoStepsLeft[infoPc[w]])'
      BY <2>1, <3>2 DEF StepsLeft, At
    <3>4. (InfoStepsLeft[infoPc[w]])' = InfoStepsLeft[infoPc'[w]]
      BY DEF InfoStepsLeft
    <3> QED
      BY <3>1, <3>3, <3>4
  <2> QED
    BY <2>2, <2>3
<1>7. CASE ImageGoesOn(w)
  <2>1. serverPc[w] = "image" /\ Image!ImageStep(w) /\ ImageReplies(w)
    BY <1>7 DEF ImageGoesOn, At
  <2>2. CASE imagePc'[w] = "idle"
    <3>1. serverPc'[w] = "idle"
      BY <1>0, <2>1, <2>2 DEF ImageReplies, Reply, GoTo
    <3> QED
      BY <1>1, <3>1
  <2>3. CASE imagePc'[w] # "idle"
    <3>1. ImageLeft(w)' < ImageLeft(w)
      BY <2>1, <2>3, ImageGetsOn
    <3>2. serverPc'[w] = "image"
      BY <2>1, <2>3 DEF ImageReplies
    <3>3. StepsLeft(w) = ImageLeft(w) /\ StepsLeft(w)' = ImageLeft(w)'
      BY <2>1, <3>2 DEF StepsLeft, At, ImageLeft
    <3> QED
      BY <3>1, <3>3
  <2> QED
    BY <2>2, <2>3
<1> QED
  BY <1>2, <1>3, <1>4, <1>5, <1>6, <1>7 DEF Handle

\* The handlers have a bound: what a request does is never more than what is
\* left of it, whatever fails and whatever the other threads and gnuplot do.
THEOREM HandlersEnd == ServerSpec => HandlersGetOn
<1> DEFINE Typed == PlaceInv /\ Image!ImageTypeOK /\ \A w \in Worker : StepsLeft(w) \in Nat
           GetsOn == \A w \in Worker : ~ At(w, "idle") =>
                       \/ StepsLeft(w)' \in 0 .. StepsLeft(w) - 1
                       \/ UNCHANGED <<serverPc[w], infoPc[w], imagePc[w], polls[w]>>
<1>1. Typed /\ Typed' /\ [ServerNext]_serverVars => [GetsOn]_serverVars
  <2> SUFFICES ASSUME Typed, Typed', ServerNext, NEW v \in Worker, ~ At(v, "idle")
               PROVE  StepsLeft(v)' \in 0 .. StepsLeft(v) - 1 \/ UNCHANGED Spot(v)
    BY DEF Spot
  <2>1. ASSUME NEW w \in Worker,
               \/ GetInfo(w)
               \/ \E t \in Target : RefuseQuery(w, t)
               \/ \E t \in Target, r \in Routes : GetWithParams(w, r, t)
               \/ Handle(w)
        PROVE  StepsLeft(v)' < StepsLeft(v) \/ UNCHANGED Spot(v)
    <3>1. CASE v # w
      BY <2>1, <3>1, SpotOfOthers
    <3>2. CASE v = w
      <4>1. Handle(v)
        BY <2>1, <3>2 DEF GetInfo, RefuseQuery, GetWithParams, Arrive
      <4> QED
        BY <4>1, HandlerGetsOn
    <3> QED
      BY <3>1, <3>2
  <2>2. CASE GnuplotGoesOn
    BY <2>2 DEF GnuplotGoesOn, Image!Gnuplot, Image!GnuplotOpen,
       Image!GnuplotRejects, Image!GnuplotWrite, Image!GnuplotDone,
       Image!imageLocal, ownVars, infoParts, Spot
  <2>3. StepsLeft(v)' < StepsLeft(v) \/ UNCHANGED Spot(v)
    BY <2>1, <2>2 DEF ServerNext
  <2>4. StepsLeft(v) \in Nat /\ StepsLeft(v)' \in Nat
    OBVIOUS
  <2> QED
    BY <2>3, <2>4
<1>2. PlaceInv /\ Image!ImageInv => Typed
  <2> SUFFICES ASSUME PlaceInv, Image!ImageInv, NEW w \in Worker
               PROVE  StepsLeft(w) \in Nat
    BY DEF Image!ImageInv
  <2>1. CASE At(w, "idle")
    BY <2>1 DEF StepsLeft, At
  <2>2. CASE ~ At(w, "idle")
    BY <2>2, SomeStepsLeft DEF Image!ImageInv
  <2> QED
    BY <2>1, <2>2
<1> HIDE DEF Typed, GetsOn
<1>3. ServerSpec => [][GetsOn]_serverVars
  BY <1>1, <1>2, Place, ServerImageInv, PTL DEF ServerSpec
<1> QED
  BY <1>3 DEF HandlersGetOn, GetsOn

-----------------------------------------------------------------------------
\* What is proved of the cache and of the renderer alone holds while the threads
\* serve all three routes: whichever failures the others leave in responseCode_
\* and in whatever order one thread runs the handlers.
THEOREM PartsKeepTheirPromises ==
  ServerSpec => /\ Info!FirstExtractionWins
                /\ []Info!AnswersHaveMembers
                /\ []Image!OwnImage
                /\ []Image!NoStrayFile
                /\ []Image!NoEmptyImage
<1>1. InfoProofs!InfoSpec => InfoProofs!FirstExtractionWins /\ []InfoProofs!AnswersHaveMembers
  BY PartAssumptions, InfoProofs!CacheFilledOnce, InfoProofs!NoMovedFromAnswer, PTL
<1>2. /\ Info!InfoInit => InfoProofs!InfoInit
      /\ [Info!InfoNext]_(Info!infoVars) => [InfoProofs!InfoNext]_(InfoProofs!infoVars)
  BY SameCache
<1>3. InfoProofs!AnswersHaveMembers => Info!AnswersHaveMembers
  BY DEF InfoProofs!AnswersHaveMembers, Info!AnswersHaveMembers
<1>4. InfoProofs!FirstExtractionWins => Info!FirstExtractionWins
  <2>1. InfoProofs!infoVars = Info!infoVars
    BY DEF Info!infoVars, InfoProofs!infoVars, Info!infoLocal,
     InfoProofs!infoLocal, Info!infoShared, InfoProofs!infoShared
  <2> QED
    BY <2>1, PTL DEF InfoProofs!FirstExtractionWins, Info!FirstExtractionWins,
       InfoProofs!infoVars, Info!infoVars, Info!infoLocal, InfoProofs!infoLocal,
       Info!infoShared, InfoProofs!infoShared
<1>5. Image!ImageInv => Image!OwnImage /\ Image!NoStrayFile /\ Image!NoEmptyImage
  BY DEF Image!ImageInv
<1>6. ServerSpec => InfoProofs!InfoSpec
  BY <1>2, ServerUsesCache, PTL DEF UsesCache, Info!InfoSpec, InfoProofs!InfoSpec
<1> QED
  BY <1>1, <1>3, <1>4, <1>5, <1>6, ServerImageInv, PTL
=============================================================================
