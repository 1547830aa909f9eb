----------------------------- MODULE ImageRender ----------------------------
(***************************************************************************)
(* The rendering half of NetCDFServer::handleGetImage, from the moment the *)
(* slice is extracted, with generateVisual, waitForFile, and the gnuplot   *)
(* process that matplot++ drives through a pipe.                           *)
(*                                                                         *)
(* matplot++ keeps one current figure for the whole process; save() writes *)
(* the commands that draw it to the pipe and returns; gnuplot creates the  *)
(* file and fills it on its own time.  A picture is the slice it shows and *)
(* how much of it was written.                                             *)
(***************************************************************************)
EXTENDS Integers, Sequences

CONSTANTS Worker,       \* the threads that run handlers
          Nobody,       \* not a thread: png_mutex is free
          Slice,        \* the x-y slices that requests ask for
          EmptySlices,  \* those without a row or without a column
          File,         \* the names generateUniqueFileName can give
          NoFile,       \* not a name
          MaxPolls,     \* how often waitForFile looks: 2000 ms / 100 ms
          PipeCap,      \* how many drawings fit into the pipe to gnuplot
          WholeSize     \* the size of a complete picture

ASSUME ImageAssumption ==
  /\ Nobody \notin Worker
  /\ NoFile \notin File
  /\ EmptySlices \subseteq Slice
  /\ MaxPolls \in Nat \ {0}
  /\ PipeCap \in Nat \ {0}
  /\ WholeSize \in Nat \ {0}

VARIABLES imagePc,       \* where each thread is in handleGetImage
          grid,          \* the local `grid` of each thread
          imagePath,     \* the local `uniqueImagePath`, NoFile outside a call
          polls,         \* rounds of the loop of waitForFile
          imageBuffer,   \* what was read of the file: {picture}, or {}
          imageReply,    \* what each thread last returned: {reply}, or {}
          responseCode,  \* thread_local responseCode_
          pngMutex,      \* the thread that holds png_mutex, or Nobody
          figure,        \* matplot++'s current figure: {slice}, {} before it
          pipe,          \* drawings that gnuplot has not started
          drawing,       \* the drawing that gnuplot is at: {drawing}, or {}
          fileSize,      \* the size of each file, Absent if it is not there
          fileSlice,     \* the slices that each file shows
          abandoned      \* HISTORY: names whose request ended in an error

imageLocal == <<imagePc, grid, imagePath, polls, imageBuffer, imageReply>>
gnuplotVars == <<pipe, drawing>>
diskVars == <<fileSize, fileSlice>>
imageVars == <<imageLocal, responseCode, pngMutex, figure, gnuplotVars,
               diskVars, abandoned>>

Absent == -1
Picture == [slice : Slice, size : 0..WholeSize]
ImageAnswer == [code : {200, 500}, image : SUBSET Picture]
Job == [file : File, slice : Slice]
Drawing == [file : File, slice : Slice, written : 0..WholeSize]

ImageSteps == {"idle", "visual", "draw", "save", "wait", "open", "remove"}

ImageInit ==
  /\ imagePc = [w \in Worker |-> "idle"]
  /\ grid \in [Worker -> Slice]
  /\ imagePath = [w \in Worker |-> NoFile]
  /\ polls = [w \in Worker |-> 0]
  /\ imageBuffer = [w \in Worker |-> {}]
  /\ imageReply = [w \in Worker |-> {}]
  /\ responseCode = [w \in Worker |-> 200]
  /\ pngMutex = Nobody
  /\ figure = {}
  /\ pipe = <<>>
  /\ drawing = {}
  /\ fileSize = [f \in File |-> Absent]
  /\ fileSlice = [f \in File |-> {}]
  /\ abandoned = {}

-----------------------------------------------------------------------------
\* MUTANT of Fresh: a name that only has no file, as a counter that restarts or
\* a generator seeded alike would give.
NotOnDisk(f) == fileSize[f] = Absent

\* A name is fresh when no call, no drawing and no file has it: the generated
\* names do not repeat.  A name whose file is gone stands for a new one.
Fresh(f) ==
  /\ \A w \in Worker : imagePath[w] # f
  /\ \A i \in 1..Len(pipe) : pipe[i].file # f
  /\ \A d \in drawing : d.file # f
  /\ fileSize[f] = Absent

\* The grid is built from the extracted slice and the file name generated.
Begin(w, s) ==
  /\ imagePc[w] = "idle"
  /\ \E f \in File :
       /\ Fresh(f)
       /\ imagePath' = [imagePath EXCEPT ![w] = f]
       /\ abandoned' = abandoned \ {f}
  /\ grid' = [grid EXCEPT ![w] = s]
  /\ polls' = [polls EXCEPT ![w] = 0]
  /\ imageBuffer' = [imageBuffer EXCEPT ![w] = {}]
  /\ imagePc' = [imagePc EXCEPT ![w] = "visual"]
  /\ UNCHANGED <<imageReply, responseCode, pngMutex, figure, gnuplotVars, diskVars>>

\* Every return: the reply, and the name is out of scope.
Return(w, reply) ==
  /\ imageReply' = [imageReply EXCEPT ![w] = {reply}]
  /\ imagePath' = [imagePath EXCEPT ![w] = NoFile]
  /\ imagePc' = [imagePc EXCEPT ![w] = "idle"]
  /\ UNCHANGED <<grid, polls, imageBuffer>>

\* The error returns: responseCode_ is 500 from now on, the file is not touched.
ReturnError(w) ==
  /\ responseCode' = [responseCode EXCEPT ![w] = 500]
  /\ Return(w, [code |-> responseCode'[w], image |-> {}])
  /\ abandoned' = abandoned \cup {imagePath[w]}

\* An exception that no handler catches: Crow answers 500 on its own.
Uncaught(w) ==
  /\ Return(w, [code |-> 500, image |-> {}])
  /\ abandoned' = abandoned \cup {imagePath[w]}
  /\ UNCHANGED responseCode

\* generateVisual: there is nothing to draw.
GridEmpty(w) ==
  /\ imagePc[w] = "visual"
  /\ grid[w] \in EmptySlices
  /\ ReturnError(w)
  /\ UNCHANGED <<pngMutex, figure, gnuplotVars, diskVars>>

\* MUTANT of LockPng: no lock is taken.
DrawAtOnce(w) ==
  /\ imagePc[w] = "visual"
  /\ grid[w] \notin EmptySlices
  /\ imagePc' = [imagePc EXCEPT ![w] = "draw"]
  /\ UNCHANGED <<grid, imagePath, polls, imageBuffer, imageReply, responseCode,
                 pngMutex, figure, gnuplotVars, diskVars, abandoned>>

\* generateVisual: std::lock_guard on png_mutex.
LockPng(w) ==
  /\ imagePc[w] = "visual"
  /\ grid[w] \notin EmptySlices
  /\ pngMutex = Nobody
  /\ pngMutex' = w
  /\ imagePc' = [imagePc EXCEPT ![w] = "draw"]
  /\ UNCHANGED <<grid, imagePath, polls, imageBuffer, imageReply, responseCode,
                 figure, gnuplotVars, diskVars, abandoned>>

\* imagesc, colorbar and title replace the current figure.
DrawFigure(w) ==
  /\ imagePc[w] = "draw"
  /\ figure' = {grid[w]}
  /\ imagePc' = [imagePc EXCEPT ![w] = "save"]
  /\ UNCHANGED <<grid, imagePath, polls, imageBuffer, imageReply, responseCode,
                 pngMutex, gnuplotVars, diskVars, abandoned>>

\* imagesc, colorbar or title throws: the call is not inside the try block.
DrawThrows(w) ==
  /\ imagePc[w] = "draw"
  /\ figure' \in {figure, {grid[w]}}
  /\ pngMutex' = Nobody
  /\ Uncaught(w)
  /\ UNCHANGED <<gnuplotVars, diskVars>>

\* save writes to the pipe: it returns only when the pipe takes the drawing.
PipeHasRoom == Len(pipe) < PipeCap

\* save succeeds: the current figure is on its way to gnuplot.
Save(w) ==
  /\ imagePc[w] = "save"
  /\ PipeHasRoom
  /\ \E s \in figure : pipe' = Append(pipe, [file |-> imagePath[w], slice |-> s])
  /\ pngMutex' = Nobody
  /\ imagePc' = [imagePc EXCEPT ![w] = "wait"]
  /\ UNCHANGED <<grid, imagePath, polls, imageBuffer, imageReply, responseCode,
                 figure, drawing, diskVars, abandoned>>

\* save returns false, which generateVisual does not look at.
SaveReturnsFalse(w) ==
  /\ imagePc[w] = "save"
  /\ PipeHasRoom
  /\ pngMutex' = Nobody
  /\ imagePc' = [imagePc EXCEPT ![w] = "wait"]
  /\ UNCHANGED <<grid, imagePath, polls, imageBuffer, imageReply, responseCode,
                 figure, gnuplotVars, diskVars, abandoned>>

\* MUTANT of SaveThrows: lock() and unlock() instead of a guard.
SaveThrowsLocked(w) ==
  /\ imagePc[w] = "save"
  /\ PipeHasRoom
  /\ ReturnError(w)
  /\ UNCHANGED <<pngMutex, figure, gnuplotVars, diskVars>>

\* save throws: generateVisual returns an error and handleGetImage answers it.
SaveThrows(w) ==
  /\ imagePc[w] = "save"
  /\ PipeHasRoom
  /\ pngMutex' = Nobody
  /\ ReturnError(w)
  /\ UNCHANGED <<figure, gnuplotVars, diskVars>>

\* MUTANT of FileReady: the file exists.
FileExists(w) ==
  /\ imagePc[w] = "wait"
  /\ polls[w] < MaxPolls
  /\ fileSize[imagePath[w]] >= 0
  /\ imagePc' = [imagePc EXCEPT ![w] = "open"]
  /\ UNCHANGED <<grid, imagePath, polls, imageBuffer, imageReply, responseCode,
                 pngMutex, figure, gnuplotVars, diskVars, abandoned>>

\* waitForFile: the file exists and is not empty.
FileReady(w) ==
  /\ imagePc[w] = "wait"
  /\ polls[w] < MaxPolls
  /\ fileSize[imagePath[w]] > 0
  /\ imagePc' = [imagePc EXCEPT ![w] = "open"]
  /\ UNCHANGED <<grid, imagePath, polls, imageBuffer, imageReply, responseCode,
                 pngMutex, figure, gnuplotVars, diskVars, abandoned>>

\* waitForFile: not yet, the thread sleeps and looks again.
FileNotReady(w) ==
  /\ imagePc[w] = "wait"
  /\ polls[w] < MaxPolls
  /\ fileSize[imagePath[w]] <= 0
  /\ polls' = [polls EXCEPT ![w] = @ + 1]
  /\ UNCHANGED <<imagePc, grid, imagePath, imageBuffer, imageReply, responseCode,
                 pngMutex, figure, gnuplotVars, diskVars, abandoned>>

\* waitForFile: the time is up, which a late wake-up brings forward.
WaitTimesOut(w) ==
  /\ imagePc[w] = "wait"
  /\ ReturnError(w)
  /\ UNCHANGED <<pngMutex, figure, gnuplotVars, diskVars>>

\* The file is opened and what it holds now is copied into the body.
ReadImage(w) ==
  /\ imagePc[w] = "open"
  /\ imageBuffer' = [imageBuffer EXCEPT ![w] =
       {[slice |-> s, size |-> fileSize[imagePath[w]]] : s \in fileSlice[imagePath[w]]}]
  /\ imagePc' = [imagePc EXCEPT ![w] = "remove"]
  /\ UNCHANGED <<grid, imagePath, polls, imageReply, responseCode,
                 pngMutex, figure, gnuplotVars, diskVars, abandoned>>

\* MUTANT of OpenFails: the file is waited for again.
OpenFailsWaits(w) ==
  /\ imagePc[w] = "open"
  /\ imagePc' = [imagePc EXCEPT ![w] = "wait"]
  /\ polls' = [polls EXCEPT ![w] = 0]
  /\ UNCHANGED <<grid, imagePath, imageBuffer, imageReply, responseCode, pngMutex,
                 figure, gnuplotVars, diskVars, abandoned>>

\* The file cannot be opened.
OpenFails(w) ==
  /\ imagePc[w] = "open"
  /\ ReturnError(w)
  /\ UNCHANGED <<pngMutex, figure, gnuplotVars, diskVars>>

\* MUTANT of RemoveImage: the file is not removed.
KeepImage(w) ==
  /\ imagePc[w] = "remove"
  /\ Return(w, [code |-> 200, image |-> imageBuffer[w]])
  /\ UNCHANGED <<responseCode, pngMutex, figure, gnuplotVars, diskVars, abandoned>>

\* The file is removed and the picture returned, always with status 200.
RemoveImage(w) ==
  /\ imagePc[w] = "remove"
  /\ fileSize' = [fileSize EXCEPT ![imagePath[w]] = Absent]
  /\ fileSlice' = [fileSlice EXCEPT ![imagePath[w]] = {}]
  /\ Return(w, [code |-> 200, image |-> imageBuffer[w]])
  /\ UNCHANGED <<responseCode, pngMutex, figure, gnuplotVars, abandoned>>

\* std::filesystem throws: exists or file_size in waitForFile, or remove.
FilesystemThrows(w) ==
  /\ imagePc[w] \in {"wait", "remove"}
  /\ Uncaught(w)
  /\ UNCHANGED <<pngMutex, figure, gnuplotVars, diskVars>>

\* Another handler fails on this thread while no image is being made.
ImageElsewhereFails(w) ==
  /\ imagePc[w] = "idle"
  /\ responseCode' = [responseCode EXCEPT ![w] = 500]
  /\ UNCHANGED <<imageLocal, pngMutex, figure, gnuplotVars, diskVars, abandoned>>

-----------------------------------------------------------------------------
\* gnuplot starts the next drawing: it creates the file, still empty.
GnuplotOpen ==
  /\ drawing = {}
  /\ pipe # <<>>
  /\ LET job == Head(pipe) IN
       /\ drawing' = {[file |-> job.file, slice |-> job.slice, written |-> 0]}
       /\ fileSize' = [fileSize EXCEPT ![job.file] = 0]
       /\ fileSlice' = [fileSlice EXCEPT ![job.file] = {job.slice}]
  /\ pipe' = Tail(pipe)
  /\ UNCHANGED <<imageLocal, responseCode, pngMutex, figure, abandoned>>

\* gnuplot cannot create the file and goes on with the next drawing.
GnuplotRejects ==
  /\ drawing = {}
  /\ pipe # <<>>
  /\ pipe' = Tail(pipe)
  /\ UNCHANGED <<imageLocal, responseCode, pngMutex, figure, drawing, diskVars,
                 abandoned>>

\* gnuplot writes; once the file was removed this reaches no file any more.
GnuplotWrite ==
  \E d \in drawing :
    /\ d.written < WholeSize
    /\ drawing' = {[d EXCEPT !.written = @ + 1]}
    /\ fileSize' = [fileSize EXCEPT ![d.file] =
                      IF @ = Absent THEN Absent ELSE d.written + 1]
    /\ UNCHANGED <<imageLocal, responseCode, pngMutex, figure, pipe, fileSlice,
                   abandoned>>

\* The drawing is complete.
GnuplotDone ==
  /\ \E d \in drawing : d.written = WholeSize
  /\ drawing' = {}
  /\ UNCHANGED <<imageLocal, responseCode, pngMutex, figure, pipe, diskVars,
                 abandoned>>

Gnuplot == GnuplotOpen \/ GnuplotRejects \/ GnuplotWrite \/ GnuplotDone

-----------------------------------------------------------------------------
\* The steps of a thread between the grid and the reply.
ImageStep(w) ==
  \/ GridEmpty(w) \/ LockPng(w) \/ DrawFigure(w) \/ DrawThrows(w)
  \/ Save(w) \/ SaveReturnsFalse(w) \/ SaveThrows(w)
  \/ FileReady(w) \/ FileNotReady(w) \/ WaitTimesOut(w)
  \/ ReadImage(w) \/ OpenFails(w) \/ RemoveImage(w) \/ FilesystemThrows(w)

ImageNext ==
  \/ \E w \in Worker : \/ \E s \in Slice : Begin(w, s)
                       \/ ImageStep(w)
                       \/ ImageElsewhereFails(w)
  \/ Gnuplot

ImageSpec == ImageInit /\ [][ImageNext]_imageVars

\* The operating system runs every thread that is not blocked.  A thread that
\* waits for png_mutex may be passed by the others.
WorkerFairness == \A w \in Worker : WF_imageVars(ImageStep(w))

\* The system without any help from gnuplot.
WorkerFairSpec == ImageSpec /\ WorkerFairness

\* As WorkerFairSpec, with a mutex that starves nobody.
FairMutexSpec == WorkerFairSpec /\ \A w \in Worker : SF_imageVars(LockPng(w))

-----------------------------------------------------------------------------
ImageTypeOK ==
  /\ imagePc \in [Worker -> ImageSteps]
  /\ grid \in [Worker -> Slice]
  /\ imagePath \in [Worker -> File \cup {NoFile}]
  /\ polls \in [Worker -> 0..MaxPolls]
  /\ imageBuffer \in [Worker -> SUBSET Picture]
  /\ imageReply \in [Worker -> SUBSET ImageAnswer]
  /\ responseCode \in [Worker -> {200, 500}]
  /\ pngMutex \in Worker \cup {Nobody}
  /\ figure \in SUBSET Slice
  /\ pipe \in Seq(Job)
  /\ drawing \in SUBSET Drawing
  /\ fileSize \in [File -> {Absent} \cup 0..WholeSize]
  /\ fileSlice \in [File -> SUBSET Slice]
  /\ abandoned \in SUBSET File

\* png_mutex is held exactly from the lock to the end of generateVisual, and
\* the figure of the thread that is about to save is the one it has drawn.
MutexInv ==
  \A w \in Worker :
    /\ imagePc[w] \in {"draw", "save"} <=> pngMutex = w
    /\ imagePc[w] = "save" => figure = {grid[w]}

\* A thread has a name exactly while it is in the call, and no two the same.
NameInv ==
  /\ \A w \in Worker : imagePath[w] = NoFile <=> imagePc[w] = "idle"
  /\ \A v, w \in Worker :
       v # w /\ imagePath[v] = imagePath[w] => imagePath[w] = NoFile

\* Whatever carries a thread's name carries that thread's slice: drawings in
\* the pipe, the drawing gnuplot is at, the file, and what was read of it.
SliceInv ==
  \A w \in Worker : imagePc[w] # "idle" =>
    /\ \A i \in 1..Len(pipe) : pipe[i].file = imagePath[w] => pipe[i].slice = grid[w]
    /\ fileSlice[imagePath[w]] \subseteq {grid[w]}
    /\ \A picture \in imageBuffer[w] : picture.slice = grid[w]

\* A file shows something exactly while it is there.
DiskInv == \A f \in File : fileSize[f] = Absent <=> fileSlice[f] = {}

\* Each request is answered with the picture of the slice it asked for: no
\* request is given another's picture, however the threads and gnuplot
\* interleave over the one figure, the one pipe and the one directory.
OwnImage ==
  \A w \in Worker : imagePc[w] = "idle" =>
    \A reply \in imageReply[w] : \A picture \in reply.image :
      picture.slice = grid[w]

\* Status 200 comes with a picture of which something was written, and only it
\* comes with a picture: what waitForFile saw of the file still holds when the
\* file is opened and read, which gnuplot and the other calls could undo.
NoEmptyImage ==
  \A w \in Worker : \A reply \in imageReply[w] :
    /\ reply.code = 200 <=> reply.image # {}
    /\ \A picture \in reply.image : picture.size > 0

\* What was read of the file is a picture of which something was written.
BufferInv ==
  \A w \in Worker : imagePc[w] = "remove" =>
    /\ imageBuffer[w] # {}
    /\ \A picture \in imageBuffer[w] : picture.size > 0

\* A drawing that gnuplot has not started has no file yet and is the only one
\* of its name; its request is waiting or was answered with an error.
PipeInv ==
  /\ \A i, j \in 1..Len(pipe) : pipe[i].file = pipe[j].file => i = j
  /\ \A i \in 1..Len(pipe) :
       /\ fileSize[pipe[i].file] = Absent
       /\ \/ pipe[i].file \in abandoned
          \/ \E w \in Worker : imagePc[w] = "wait" /\ imagePath[w] = pipe[i].file

\* A call that is ahead of its file, and a call that has found it; the name of
\* a call is not one that an earlier request left behind.
FileInv ==
  \A w \in Worker :
    /\ imagePath[w] \notin abandoned
    /\ imagePc[w] \in {"visual", "draw", "save"} => fileSize[imagePath[w]] = Absent
    /\ imagePc[w] \in {"open", "remove"} => fileSize[imagePath[w]] > 0

\* A picture file that stays behind is one of a request that was answered with
\* an error; a request that is answered with its picture leaves no file, not
\* even when gnuplot is still writing to it.
NoStrayFile ==
  \A f \in File : fileSize[f] # Absent =>
    f \in abandoned \/ \E w \in Worker : imagePath[w] = f

\* The inductive invariant of rendering.
ImageInv ==
  /\ ImageTypeOK /\ MutexInv /\ NameInv /\ DiskInv /\ SliceInv /\ OwnImage
  /\ PipeInv /\ FileInv /\ NoStrayFile /\ BufferInv /\ NoEmptyImage

\* Once generateVisual has returned, the request is answered, with or without
\* gnuplot: waitForFile gives up.
WaitEnds ==
  \A w \in Worker :
    imagePc[w] \in {"wait", "open", "remove"} ~> imagePc[w] = "idle"

\* If gnuplot keeps running, no thread holds png_mutex for ever: generateVisual
\* lets go of it on every path, and save gets its room in the pipe.
MutexReleased ==
  WF_imageVars(Gnuplot) => \A w \in Worker : pngMutex = w ~> pngMutex # w

\* netcdf_server.cpp:327 "give some time for generateVisual to complete, check
\* every 100 mills, time out after 2 seconds": a request for an image ends.
RequestEnds == \A w \in Worker : imagePc[w] # "idle" ~> imagePc[w] = "idle"

\* netcdf_server.cpp:495 "check existence, AND file size - matplot++ writes the
\* complete file name BEFORE populating the file": what is served is complete.
CompleteImage ==
  \A w \in Worker : \A reply \in imageReply[w] : \A picture \in reply.image :
    picture.size = WholeSize
=============================================================================
