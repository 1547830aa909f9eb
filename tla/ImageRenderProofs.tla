-------------------------- MODULE ImageRenderProofs -------------------------
(***************************************************************************)
(* What ImageRender guarantees for every set of threads, slices and names, *)
(* every size of the pipe and every number of polls.                       *)
(***************************************************************************)
EXTENDS ImageRender, TLAPS

\* The inductive invariant holds in the initial states.
LEMMA ImageInitInv == ImageInit => ImageInv
<1> SUFFICES ASSUME ImageInit
             PROVE  ImageInv
  OBVIOUS
<1> USE ImageAssumption DEF ImageInit
<1>1. ImageTypeOK
  <2>1. <<>> \in Seq(Job)
    OBVIOUS
  <2> QED
    BY <2>1 DEF ImageTypeOK, ImageSteps, Absent
<1>2. MutexInv /\ NameInv /\ DiskInv
  BY DEF MutexInv, NameInv, DiskInv
<1>3. SliceInv /\ OwnImage
  BY DEF SliceInv, OwnImage
<1>4. PipeInv /\ FileInv /\ NoStrayFile
  BY DEF PipeInv, FileInv, NoStrayFile
<1>5. BufferInv /\ NoEmptyImage
  BY DEF BufferInv, NoEmptyImage
<1> QED
  BY <1>1, <1>2, <1>3, <1>4, <1>5 DEF ImageInv

\* A thread inside a call has a name.
LEMMA PathIsFile ==
  ASSUME ImageTypeOK, NameInv, NEW w \in Worker, imagePc[w] # "idle"
  PROVE  imagePath[w] \in File
  BY DEF ImageTypeOK, NameInv

\* A reply that is an answer keeps the locals of every thread in their types.
LEMMA ReturnType ==
  ASSUME ImageTypeOK, NEW w \in Worker, NEW reply, reply \in ImageAnswer,
         Return(w, reply)
  PROVE  /\ imagePc' \in [Worker -> ImageSteps]
         /\ grid' \in [Worker -> Slice]
         /\ imagePath' \in [Worker -> File \cup {NoFile}]
         /\ polls' \in [Worker -> 0..MaxPolls]
         /\ imageBuffer' \in [Worker -> SUBSET Picture]
         /\ imageReply' \in [Worker -> SUBSET ImageAnswer]
<1>1. "idle" \in ImageSteps
  BY DEF ImageSteps
<1>2. {reply} \in SUBSET ImageAnswer
  OBVIOUS
<1> QED
  BY <1>1, <1>2 DEF ImageTypeOK, Return

\* An error return keeps the types.
LEMMA ReturnErrorType ==
  ASSUME ImageTypeOK, NameInv, NEW w \in Worker, imagePc[w] # "idle",
         \/ ReturnError(w)
         \/ Uncaught(w)
  PROVE  /\ imagePc' \in [Worker -> ImageSteps]
         /\ grid' \in [Worker -> Slice]
         /\ imagePath' \in [Worker -> File \cup {NoFile}]
         /\ polls' \in [Worker -> 0..MaxPolls]
         /\ imageBuffer' \in [Worker -> SUBSET Picture]
         /\ imageReply' \in [Worker -> SUBSET ImageAnswer]
         /\ responseCode' \in [Worker -> {200, 500}]
         /\ abandoned' \in SUBSET File
<1>1. responseCode' \in [Worker -> {200, 500}]
  <2>1. CASE ReturnError(w)
    BY <2>1 DEF ReturnError, ImageTypeOK
  <2>2. CASE Uncaught(w)
    BY <2>2 DEF Uncaught, ImageTypeOK
  <2> QED
    BY <2>1, <2>2
<1>2. imagePath[w] \in File
  BY PathIsFile
<1>3. abandoned' \in SUBSET File
  BY <1>2 DEF ReturnError, Uncaught, ImageTypeOK
<1>4. responseCode'[w] \in {200, 500}
  BY <1>1
<1>5. [code |-> responseCode'[w], image |-> {}] \in ImageAnswer
  BY <1>4 DEF ImageAnswer
<1>6. [code |-> 500, image |-> {}] \in ImageAnswer
  BY DEF ImageAnswer
<1>7. CASE ReturnError(w)
  BY <1>1, <1>3, <1>5, <1>7, ReturnType DEF ReturnError
<1>8. CASE Uncaught(w)
  BY <1>1, <1>3, <1>6, <1>8, ReturnType DEF Uncaught
<1> QED
  BY <1>7, <1>8

\* Every step keeps every variable in its type.
LEMMA ImageTypeStep ==
  ASSUME ImageInv, ImageNext
  PROVE  ImageTypeOK'
<1> USE ImageAssumption DEF ImageInv, ImageTypeOK, ImageSteps, imageLocal, gnuplotVars, diskVars
<1>1. ASSUME NEW w \in Worker, NEW s \in Slice, Begin(w, s)
     PROVE  ImageTypeOK'
  BY <1>1 DEF Begin
<1>2. ASSUME NEW w \in Worker, GridEmpty(w)
     PROVE  ImageTypeOK'
  <2>1. imagePc[w] # "idle"
    BY <1>2 DEF GridEmpty
  <2> QED
    BY <1>2, <2>1, ReturnErrorType DEF GridEmpty
<1>3. ASSUME NEW w \in Worker, LockPng(w)
     PROVE  ImageTypeOK'
  BY <1>3 DEF LockPng
<1>4. ASSUME NEW w \in Worker, DrawFigure(w)
     PROVE  ImageTypeOK'
  BY <1>4 DEF DrawFigure
<1>5. ASSUME NEW w \in Worker, DrawThrows(w)
     PROVE  ImageTypeOK'
  <2>1. imagePc[w] # "idle"
    BY <1>5 DEF DrawThrows
  <2>2. figure' \in SUBSET Slice
    BY <1>5 DEF DrawThrows
  <2> QED
    BY <1>5, <2>1, <2>2, ReturnErrorType DEF DrawThrows
<1>6. ASSUME NEW w \in Worker, Save(w)
     PROVE  ImageTypeOK'
  <2>1. imagePath[w] \in File
    BY <1>6, PathIsFile DEF Save
  <2>2. PICK s \in figure : pipe' = Append(pipe, [file |-> imagePath[w], slice |-> s])
    BY <1>6 DEF Save
  <2>3. [file |-> imagePath[w], slice |-> s] \in Job
    BY <2>1 DEF Job
  <2>4. pipe' \in Seq(Job)
    BY <2>2, <2>3
  <2> QED
    BY <1>6, <2>4 DEF Save
<1>7. ASSUME NEW w \in Worker, SaveReturnsFalse(w)
     PROVE  ImageTypeOK'
  BY <1>7 DEF SaveReturnsFalse
<1>8. ASSUME NEW w \in Worker, SaveThrows(w)
     PROVE  ImageTypeOK'
  <2>1. imagePc[w] # "idle"
    BY <1>8 DEF SaveThrows
  <2> QED
    BY <1>8, <2>1, ReturnErrorType DEF SaveThrows
<1>9. ASSUME NEW w \in Worker, FileReady(w)
     PROVE  ImageTypeOK'
  BY <1>9 DEF FileReady
<1>10. ASSUME NEW w \in Worker, FileNotReady(w)
     PROVE  ImageTypeOK'
  BY <1>10 DEF FileNotReady
<1>11. ASSUME NEW w \in Worker, WaitTimesOut(w)
     PROVE  ImageTypeOK'
  <2>1. imagePc[w] # "idle"
    BY <1>11 DEF WaitTimesOut
  <2> QED
    BY <1>11, <2>1, ReturnErrorType DEF WaitTimesOut
<1>12. ASSUME NEW w \in Worker, ReadImage(w)
     PROVE  ImageTypeOK'
  <2>1. imagePath[w] \in File
    BY <1>12, PathIsFile DEF ReadImage
  <2>2. fileSize[imagePath[w]] > 0
    BY <1>12 DEF ReadImage, FileInv
  <2>3. fileSize[imagePath[w]] \in 0..WholeSize
    BY <2>1, <2>2 DEF Absent
  <2> DEFINE content ==
        {[slice |-> s, size |-> fileSize[imagePath[w]]] : s \in fileSlice[imagePath[w]]}
  <2>4. content \in SUBSET Picture
    BY <2>1, <2>3 DEF Picture
  <2>5. imageBuffer' = [imageBuffer EXCEPT ![w] = content]
    BY <1>12 DEF ReadImage
  <2>6. imageBuffer' \in [Worker -> SUBSET Picture]
    BY <2>4, <2>5
  <2> HIDE DEF content
  <2> QED
    BY <1>12, <2>6 DEF ReadImage
<1>13. ASSUME NEW w \in Worker, OpenFails(w)
     PROVE  ImageTypeOK'
  <2>1. imagePc[w] # "idle"
    BY <1>13 DEF OpenFails
  <2> QED
    BY <1>13, <2>1, ReturnErrorType DEF OpenFails
<1>14. ASSUME NEW w \in Worker, RemoveImage(w)
     PROVE  ImageTypeOK'
  <2>1. [code |-> 200, image |-> imageBuffer[w]] \in ImageAnswer
    BY DEF ImageAnswer
  <2>2. Return(w, [code |-> 200, image |-> imageBuffer[w]])
    BY <1>14 DEF RemoveImage
  <2>3. fileSize' \in [File -> {Absent} \cup 0..WholeSize]
    BY <1>14 DEF RemoveImage
  <2>4. fileSlice' \in [File -> SUBSET Slice]
    BY <1>14 DEF RemoveImage
  <2> QED
    BY <1>14, <2>1, <2>2, <2>3, <2>4, ReturnType DEF RemoveImage
<1>15. ASSUME NEW w \in Worker, FilesystemThrows(w)
     PROVE  ImageTypeOK'
  <2>1. imagePc[w] # "idle"
    BY <1>15 DEF FilesystemThrows
  <2> QED
    BY <1>15, <2>1, ReturnErrorType DEF FilesystemThrows
<1>16. ASSUME NEW w \in Worker, ImageElsewhereFails(w)
     PROVE  ImageTypeOK'
  BY <1>16 DEF ImageElsewhereFails
<1>17. CASE GnuplotOpen
  <2> DEFINE job == Head(pipe)
  <2>1. job \in Job /\ Tail(pipe) \in Seq(Job)
    BY <1>17 DEF GnuplotOpen
  <2>2. job.file \in File /\ job.slice \in Slice
    BY <2>1 DEF Job
  <2>3. [file |-> job.file, slice |-> job.slice, written |-> 0] \in Drawing
    BY <2>2 DEF Drawing
  <2>4. fileSize' \in [File -> {Absent} \cup 0..WholeSize]
    BY <1>17, <2>2 DEF GnuplotOpen
  <2>5. fileSlice' \in [File -> SUBSET Slice]
    BY <1>17, <2>2 DEF GnuplotOpen
  <2>6. drawing' \in SUBSET Drawing
    BY <1>17, <2>3 DEF GnuplotOpen
  <2>7. pipe' \in Seq(Job)
    BY <1>17, <2>1 DEF GnuplotOpen
  <2> QED
    BY <1>17, <2>4, <2>5, <2>6, <2>7 DEF GnuplotOpen
<1>18. CASE GnuplotRejects
  BY <1>18 DEF GnuplotRejects
<1>19. CASE GnuplotWrite
  <2>1. PICK d \in drawing :
          /\ d.written < WholeSize
          /\ drawing' = {[d EXCEPT !.written = @ + 1]}
          /\ fileSize' = [fileSize EXCEPT ![d.file] =
                            IF @ = Absent THEN Absent ELSE d.written + 1]
    BY <1>19 DEF GnuplotWrite
  <2>2. d.written + 1 \in 0..WholeSize
    BY <2>1 DEF Drawing
  <2>3. [d EXCEPT !.written = @ + 1] \in Drawing
    <3>1. d \in [file : File, slice : Slice, written : 0..WholeSize]
      BY DEF Drawing
    <3> QED
      BY <2>2, <3>1 DEF Drawing
  <2>4. drawing' \in SUBSET Drawing
    BY <2>1, <2>3
  <2>5. fileSize' \in [File -> {Absent} \cup 0..WholeSize]
    BY <2>1, <2>2
  <2> QED
    BY <1>19, <2>4, <2>5 DEF GnuplotWrite
<1>20. CASE GnuplotDone
  BY <1>20 DEF GnuplotDone
<1> QED
  BY <1>1, <1>2, <1>3, <1>4, <1>5, <1>6, <1>7, <1>8, <1>9, <1>10, <1>11,
     <1>12, <1>13, <1>14, <1>15, <1>16, <1>17, <1>18, <1>19, <1>20
  DEF ImageNext, ImageStep, Gnuplot

\* png_mutex and the figure after every step.
LEMMA MutexStep ==
  ASSUME ImageInv, ImageNext
  PROVE  MutexInv'
<1> USE ImageAssumption DEF ImageInv, ImageTypeOK, MutexInv, imageLocal, gnuplotVars, diskVars
<1>1. ASSUME NEW w \in Worker, NEW s \in Slice, Begin(w, s)
     PROVE  MutexInv'
  BY <1>1 DEF Begin
<1>2. ASSUME NEW w \in Worker, GridEmpty(w)
     PROVE  MutexInv'
  BY <1>2 DEF GridEmpty, ReturnError, Return
<1>3. ASSUME NEW w \in Worker, LockPng(w)
     PROVE  MutexInv'
  BY <1>3 DEF LockPng
<1>4. ASSUME NEW w \in Worker, DrawFigure(w)
     PROVE  MutexInv'
  BY <1>4 DEF DrawFigure
<1>5. ASSUME NEW w \in Worker, DrawThrows(w)
     PROVE  MutexInv'
  BY <1>5 DEF DrawThrows, Uncaught, Return
<1>6. ASSUME NEW w \in Worker, Save(w)
     PROVE  MutexInv'
  BY <1>6 DEF Save
<1>7. ASSUME NEW w \in Worker, SaveReturnsFalse(w)
     PROVE  MutexInv'
  BY <1>7 DEF SaveReturnsFalse
<1>8. ASSUME NEW w \in Worker, SaveThrows(w)
     PROVE  MutexInv'
  BY <1>8 DEF SaveThrows, ReturnError, Return
<1>9. ASSUME NEW w \in Worker, FileReady(w)
     PROVE  MutexInv'
  BY <1>9 DEF FileReady
<1>10. ASSUME NEW w \in Worker, FileNotReady(w)
     PROVE  MutexInv'
  BY <1>10 DEF FileNotReady
<1>11. ASSUME NEW w \in Worker, WaitTimesOut(w)
     PROVE  MutexInv'
  BY <1>11 DEF WaitTimesOut, ReturnError, Return
<1>12. ASSUME NEW w \in Worker, ReadImage(w)
     PROVE  MutexInv'
  BY <1>12 DEF ReadImage
<1>13. ASSUME NEW w \in Worker, OpenFails(w)
     PROVE  MutexInv'
  BY <1>13 DEF OpenFails, ReturnError, Return
<1>14. ASSUME NEW w \in Worker, RemoveImage(w)
     PROVE  MutexInv'
  BY <1>14 DEF RemoveImage, Return
<1>15. ASSUME NEW w \in Worker, FilesystemThrows(w)
     PROVE  MutexInv'
  BY <1>15 DEF FilesystemThrows, Uncaught, Return
<1>16. ASSUME NEW w \in Worker, ImageElsewhereFails(w)
     PROVE  MutexInv'
  BY <1>16 DEF ImageElsewhereFails
<1>17. CASE GnuplotOpen
  BY <1>17 DEF GnuplotOpen
<1>18. CASE GnuplotRejects
  BY <1>18 DEF GnuplotRejects
<1>19. CASE GnuplotWrite
  BY <1>19 DEF GnuplotWrite
<1>20. CASE GnuplotDone
  BY <1>20 DEF GnuplotDone
<1> QED
  BY <1>1, <1>2, <1>3, <1>4, <1>5, <1>6, <1>7, <1>8, <1>9, <1>10, <1>11,
     <1>12, <1>13, <1>14, <1>15, <1>16, <1>17, <1>18, <1>19, <1>20
  DEF ImageNext, ImageStep, Gnuplot

\* The names after every step.
LEMMA NameStep ==
  ASSUME ImageInv, ImageNext
  PROVE  NameInv'
<1> USE ImageAssumption DEF ImageInv, ImageTypeOK, ImageSteps, NameInv, imageLocal, gnuplotVars, diskVars
<1>1. ASSUME NEW w \in Worker, NEW s \in Slice, Begin(w, s)
     PROVE  NameInv'
  BY <1>1 DEF Begin, Fresh
<1>2. ASSUME NEW w \in Worker, GridEmpty(w)
     PROVE  NameInv'
  BY <1>2 DEF GridEmpty, ReturnError, Return
<1>3. ASSUME NEW w \in Worker, LockPng(w)
     PROVE  NameInv'
  BY <1>3 DEF LockPng
<1>4. ASSUME NEW w \in Worker, DrawFigure(w)
     PROVE  NameInv'
  BY <1>4 DEF DrawFigure
<1>5. ASSUME NEW w \in Worker, DrawThrows(w)
     PROVE  NameInv'
  BY <1>5 DEF DrawThrows, Uncaught, Return
<1>6. ASSUME NEW w \in Worker, Save(w)
     PROVE  NameInv'
  BY <1>6 DEF Save
<1>7. ASSUME NEW w \in Worker, SaveReturnsFalse(w)
     PROVE  NameInv'
  BY <1>7 DEF SaveReturnsFalse
<1>8. ASSUME NEW w \in Worker, SaveThrows(w)
     PROVE  NameInv'
  BY <1>8 DEF SaveThrows, ReturnError, Return
<1>9. ASSUME NEW w \in Worker, FileReady(w)
     PROVE  NameInv'
  BY <1>9 DEF FileReady
<1>10. ASSUME NEW w \in Worker, FileNotReady(w)
     PROVE  NameInv'
  BY <1>10 DEF FileNotReady
<1>11. ASSUME NEW w \in Worker, WaitTimesOut(w)
     PROVE  NameInv'
  BY <1>11 DEF WaitTimesOut, ReturnError, Return
<1>12. ASSUME NEW w \in Worker, ReadImage(w)
     PROVE  NameInv'
  BY <1>12 DEF ReadImage
<1>13. ASSUME NEW w \in Worker, OpenFails(w)
     PROVE  NameInv'
  BY <1>13 DEF OpenFails, ReturnError, Return
<1>14. ASSUME NEW w \in Worker, RemoveImage(w)
     PROVE  NameInv'
  BY <1>14 DEF RemoveImage, Return
<1>15. ASSUME NEW w \in Worker, FilesystemThrows(w)
     PROVE  NameInv'
  BY <1>15 DEF FilesystemThrows, Uncaught, Return
<1>16. ASSUME NEW w \in Worker, ImageElsewhereFails(w)
     PROVE  NameInv'
  BY <1>16 DEF ImageElsewhereFails
<1>17. CASE GnuplotOpen
  BY <1>17 DEF GnuplotOpen
<1>18. CASE GnuplotRejects
  BY <1>18 DEF GnuplotRejects
<1>19. CASE GnuplotWrite
  BY <1>19 DEF GnuplotWrite
<1>20. CASE GnuplotDone
  BY <1>20 DEF GnuplotDone
<1> QED
  BY <1>1, <1>2, <1>3, <1>4, <1>5, <1>6, <1>7, <1>8, <1>9, <1>10, <1>11,
     <1>12, <1>13, <1>14, <1>15, <1>16, <1>17, <1>18, <1>19, <1>20
  DEF ImageNext, ImageStep, Gnuplot

\* Files and what they show after every step.
LEMMA DiskStep ==
  ASSUME ImageInv, ImageNext
  PROVE  DiskInv'
<1> USE ImageAssumption DEF ImageInv, ImageTypeOK, DiskInv, NameInv, Absent, imageLocal, gnuplotVars, diskVars
<1>1. ASSUME NEW w \in Worker, NEW s \in Slice, Begin(w, s)
     PROVE  DiskInv'
  BY <1>1 DEF Begin
<1>2. ASSUME NEW w \in Worker, GridEmpty(w)
     PROVE  DiskInv'
  BY <1>2 DEF GridEmpty, ReturnError, Return
<1>3. ASSUME NEW w \in Worker, LockPng(w)
     PROVE  DiskInv'
  BY <1>3 DEF LockPng
<1>4. ASSUME NEW w \in Worker, DrawFigure(w)
     PROVE  DiskInv'
  BY <1>4 DEF DrawFigure
<1>5. ASSUME NEW w \in Worker, DrawThrows(w)
     PROVE  DiskInv'
  BY <1>5 DEF DrawThrows, Uncaught, Return
<1>6. ASSUME NEW w \in Worker, Save(w)
     PROVE  DiskInv'
  BY <1>6 DEF Save
<1>7. ASSUME NEW w \in Worker, SaveReturnsFalse(w)
     PROVE  DiskInv'
  BY <1>7 DEF SaveReturnsFalse
<1>8. ASSUME NEW w \in Worker, SaveThrows(w)
     PROVE  DiskInv'
  BY <1>8 DEF SaveThrows, ReturnError, Return
<1>9. ASSUME NEW w \in Worker, FileReady(w)
     PROVE  DiskInv'
  BY <1>9 DEF FileReady
<1>10. ASSUME NEW w \in Worker, FileNotReady(w)
     PROVE  DiskInv'
  BY <1>10 DEF FileNotReady
<1>11. ASSUME NEW w \in Worker, WaitTimesOut(w)
     PROVE  DiskInv'
  BY <1>11 DEF WaitTimesOut, ReturnError, Return
<1>12. ASSUME NEW w \in Worker, ReadImage(w)
     PROVE  DiskInv'
  BY <1>12 DEF ReadImage
<1>13. ASSUME NEW w \in Worker, OpenFails(w)
     PROVE  DiskInv'
  BY <1>13 DEF OpenFails, ReturnError, Return
<1>14. ASSUME NEW w \in Worker, RemoveImage(w)
     PROVE  DiskInv'
  BY <1>14 DEF RemoveImage, Return
<1>15. ASSUME NEW w \in Worker, FilesystemThrows(w)
     PROVE  DiskInv'
  BY <1>15 DEF FilesystemThrows, Uncaught, Return
<1>16. ASSUME NEW w \in Worker, ImageElsewhereFails(w)
     PROVE  DiskInv'
  BY <1>16 DEF ImageElsewhereFails
<1>17. CASE GnuplotOpen
  <2>1. Head(pipe) \in Job
    BY <1>17 DEF GnuplotOpen
  <2>2. Head(pipe).file \in File
    BY <2>1 DEF Job
  <2> QED
    <3>1. fileSize' = [fileSize EXCEPT ![Head(pipe).file] = 0]
      BY <1>17 DEF GnuplotOpen
    <3>2. fileSlice' = [fileSlice EXCEPT ![Head(pipe).file] = {Head(pipe).slice}]
      BY <1>17 DEF GnuplotOpen
    <3>3. ASSUME NEW f \in File
          PROVE  fileSize'[f] = Absent <=> fileSlice'[f] = {}
      <4>1. CASE f = Head(pipe).file
        <5>1. fileSize'[f] = 0
          BY <3>1, <4>1
        <5>2. fileSlice'[f] = {Head(pipe).slice}
          BY <3>2, <4>1
        <5>3. fileSlice'[f] # {}
          BY ONLY <5>2
        <5>4. fileSize'[f] # Absent
          BY <5>1
        <5> QED
          BY ONLY <5>3, <5>4
      <4>2. CASE f # Head(pipe).file
        <5>1. fileSize'[f] = fileSize[f] /\ fileSlice'[f] = fileSlice[f]
          BY <3>1, <3>2, <4>2
        <5> QED
          BY <5>1
      <4> QED
        BY <4>1, <4>2
    <3> QED
      BY <3>3
<1>18. CASE GnuplotRejects
  BY <1>18 DEF GnuplotRejects
<1>19. CASE GnuplotWrite
  <2>1. PICK d \in drawing :
          fileSize' = [fileSize EXCEPT ![d.file] =
                         IF @ = Absent THEN Absent ELSE d.written + 1]
    BY <1>19 DEF GnuplotWrite
  <2>2. d.written \in Nat
    BY DEF Drawing
  <2>3. \A f \in File : fileSize'[f] = Absent <=> fileSize[f] = Absent
    BY <2>1, <2>2
  <2> QED
    BY <1>19, <2>3 DEF GnuplotWrite
<1>20. CASE GnuplotDone
  BY <1>20 DEF GnuplotDone
<1> QED
  BY <1>1, <1>2, <1>3, <1>4, <1>5, <1>6, <1>7, <1>8, <1>9, <1>10, <1>11,
     <1>12, <1>13, <1>14, <1>15, <1>16, <1>17, <1>18, <1>19, <1>20
  DEF ImageNext, ImageStep, Gnuplot

\* Whatever carries a thread's name carries its slice, after every step.
LEMMA SliceStep ==
  ASSUME ImageInv, ImageNext
  PROVE  SliceInv'
<1> USE ImageAssumption DEF ImageInv, ImageTypeOK, NameInv, DiskInv, SliceInv, imageLocal, gnuplotVars, diskVars
<1>1. ASSUME NEW w \in Worker, NEW s \in Slice, Begin(w, s)
     PROVE  SliceInv'
  BY <1>1 DEF Begin, Fresh
<1>2. ASSUME NEW w \in Worker, GridEmpty(w)
     PROVE  SliceInv'
  BY <1>2 DEF GridEmpty, ReturnError, Return
<1>3. ASSUME NEW w \in Worker, LockPng(w)
     PROVE  SliceInv'
  BY <1>3 DEF LockPng
<1>4. ASSUME NEW w \in Worker, DrawFigure(w)
     PROVE  SliceInv'
  BY <1>4 DEF DrawFigure
<1>5. ASSUME NEW w \in Worker, DrawThrows(w)
     PROVE  SliceInv'
  BY <1>5 DEF DrawThrows, Uncaught, Return
<1>6. ASSUME NEW w \in Worker, Save(w)
     PROVE  SliceInv'
  BY <1>6 DEF Save, MutexInv
<1>7. ASSUME NEW w \in Worker, SaveReturnsFalse(w)
     PROVE  SliceInv'
  BY <1>7 DEF SaveReturnsFalse
<1>8. ASSUME NEW w \in Worker, SaveThrows(w)
     PROVE  SliceInv'
  BY <1>8 DEF SaveThrows, ReturnError, Return
<1>9. ASSUME NEW w \in Worker, FileReady(w)
     PROVE  SliceInv'
  BY <1>9 DEF FileReady
<1>10. ASSUME NEW w \in Worker, FileNotReady(w)
     PROVE  SliceInv'
  BY <1>10 DEF FileNotReady
<1>11. ASSUME NEW w \in Worker, WaitTimesOut(w)
     PROVE  SliceInv'
  BY <1>11 DEF WaitTimesOut, ReturnError, Return
<1>12. ASSUME NEW w \in Worker, ReadImage(w)
     PROVE  SliceInv'
  BY <1>12 DEF ReadImage
<1>13. ASSUME NEW w \in Worker, OpenFails(w)
     PROVE  SliceInv'
  BY <1>13 DEF OpenFails, ReturnError, Return
<1>14. ASSUME NEW w \in Worker, RemoveImage(w)
     PROVE  SliceInv'
  BY <1>14 DEF RemoveImage, Return
<1>15. ASSUME NEW w \in Worker, FilesystemThrows(w)
     PROVE  SliceInv'
  BY <1>15 DEF FilesystemThrows, Uncaught, Return
<1>16. ASSUME NEW w \in Worker, ImageElsewhereFails(w)
     PROVE  SliceInv'
  BY <1>16 DEF ImageElsewhereFails
<1>17. CASE GnuplotOpen
  BY <1>17 DEF GnuplotOpen
<1>18. CASE GnuplotRejects
  BY <1>18 DEF GnuplotRejects
<1>19. CASE GnuplotWrite
  BY <1>19 DEF GnuplotWrite
<1>20. CASE GnuplotDone
  BY <1>20 DEF GnuplotDone
<1> QED
  BY <1>1, <1>2, <1>3, <1>4, <1>5, <1>6, <1>7, <1>8, <1>9, <1>10, <1>11,
     <1>12, <1>13, <1>14, <1>15, <1>16, <1>17, <1>18, <1>19, <1>20
  DEF ImageNext, ImageStep, Gnuplot

\* Replies show the slice that was asked for, after every step.
LEMMA OwnStep ==
  ASSUME ImageInv, ImageNext
  PROVE  OwnImage'
<1> USE ImageAssumption DEF ImageInv, ImageTypeOK, OwnImage, imageLocal, gnuplotVars, diskVars
<1>1. ASSUME NEW w \in Worker, NEW s \in Slice, Begin(w, s)
     PROVE  OwnImage'
  BY <1>1 DEF Begin
<1>2. ASSUME NEW w \in Worker, GridEmpty(w)
     PROVE  OwnImage'
  BY <1>2 DEF GridEmpty, ReturnError, Return
<1>3. ASSUME NEW w \in Worker, LockPng(w)
     PROVE  OwnImage'
  BY <1>3 DEF LockPng
<1>4. ASSUME NEW w \in Worker, DrawFigure(w)
     PROVE  OwnImage'
  BY <1>4 DEF DrawFigure
<1>5. ASSUME NEW w \in Worker, DrawThrows(w)
     PROVE  OwnImage'
  BY <1>5 DEF DrawThrows, Uncaught, Return
<1>6. ASSUME NEW w \in Worker, Save(w)
     PROVE  OwnImage'
  BY <1>6 DEF Save
<1>7. ASSUME NEW w \in Worker, SaveReturnsFalse(w)
     PROVE  OwnImage'
  BY <1>7 DEF SaveReturnsFalse
<1>8. ASSUME NEW w \in Worker, SaveThrows(w)
     PROVE  OwnImage'
  BY <1>8 DEF SaveThrows, ReturnError, Return
<1>9. ASSUME NEW w \in Worker, FileReady(w)
     PROVE  OwnImage'
  BY <1>9 DEF FileReady
<1>10. ASSUME NEW w \in Worker, FileNotReady(w)
     PROVE  OwnImage'
  BY <1>10 DEF FileNotReady
<1>11. ASSUME NEW w \in Worker, WaitTimesOut(w)
     PROVE  OwnImage'
  BY <1>11 DEF WaitTimesOut, ReturnError, Return
<1>12. ASSUME NEW w \in Worker, ReadImage(w)
     PROVE  OwnImage'
  BY <1>12 DEF ReadImage
<1>13. ASSUME NEW w \in Worker, OpenFails(w)
     PROVE  OwnImage'
  BY <1>13 DEF OpenFails, ReturnError, Return
<1>14. ASSUME NEW w \in Worker, RemoveImage(w)
     PROVE  OwnImage'
  BY <1>14 DEF RemoveImage, Return, SliceInv
<1>15. ASSUME NEW w \in Worker, FilesystemThrows(w)
     PROVE  OwnImage'
  BY <1>15 DEF FilesystemThrows, Uncaught, Return
<1>16. ASSUME NEW w \in Worker, ImageElsewhereFails(w)
     PROVE  OwnImage'
  BY <1>16 DEF ImageElsewhereFails
<1>17. CASE GnuplotOpen
  BY <1>17 DEF GnuplotOpen
<1>18. CASE GnuplotRejects
  BY <1>18 DEF GnuplotRejects
<1>19. CASE GnuplotWrite
  BY <1>19 DEF GnuplotWrite
<1>20. CASE GnuplotDone
  BY <1>20 DEF GnuplotDone
<1> QED
  BY <1>1, <1>2, <1>3, <1>4, <1>5, <1>6, <1>7, <1>8, <1>9, <1>10, <1>11,
     <1>12, <1>13, <1>14, <1>15, <1>16, <1>17, <1>18, <1>19, <1>20
  DEF ImageNext, ImageStep, Gnuplot

\* A call that has not saved yet has no drawing in the pipe.
LEMMA NotSavedYet ==
  ASSUME ImageInv, NEW w \in Worker, imagePc[w] \in {"visual", "draw", "save"}
  PROVE  \A i \in 1..Len(pipe) : pipe[i].file # imagePath[w]
<1>1. imagePath[w] \in File
  BY PathIsFile DEF ImageInv
<1>2. imagePath[w] \notin abandoned
  BY DEF ImageInv, FileInv
<1>3. \A v \in Worker : imagePc[v] = "wait" => imagePath[v] # imagePath[w]
  BY <1>1, ImageAssumption DEF ImageInv, NameInv
<1> QED
  BY <1>2, <1>3 DEF ImageInv, PipeInv

\* A call that has found its file has no drawing in the pipe.
LEMMA NotInPipe ==
  ASSUME ImageInv, NEW f, fileSize[f] > 0
  PROVE  \A i \in 1..Len(pipe) : pipe[i].file # f
  BY DEF ImageInv, PipeInv, Absent

\* What gnuplot takes from the pipe is a drawing, and the rest keeps its order.
LEMMA PipeHead ==
  ASSUME ImageTypeOK, pipe # <<>>
  PROVE  /\ Len(pipe) \in Nat \ {0}
         /\ Head(pipe) = pipe[1]
         /\ pipe[1] \in Job
         /\ pipe[1].file \in File
         /\ Tail(pipe) \in Seq(Job)
         /\ Len(Tail(pipe)) = Len(pipe) - 1
         /\ \A i \in 1..(Len(pipe) - 1) : Tail(pipe)[i] = pipe[i + 1]
<1>1. pipe \in Seq(Job)
  BY DEF ImageTypeOK
<1>2. Len(pipe) \in Nat \ {0} /\ Head(pipe) = pipe[1] /\ pipe[1] \in Job
  BY <1>1
<1>3. pipe[1].file \in File
  BY <1>2 DEF Job
<1>4. /\ Tail(pipe) \in Seq(Job)
      /\ Len(Tail(pipe)) = Len(pipe) - 1
      /\ \A i \in 1..(Len(pipe) - 1) : Tail(pipe)[i] = pipe[i + 1]
  BY <1>1
<1> QED
  BY <1>2, <1>3, <1>4

\* Without its head the pipe still has each drawing once, and none of the
\* head's name.
LEMMA PipeTail ==
  ASSUME ImageTypeOK, PipeInv, pipe # <<>>, pipe' = Tail(pipe)
  PROVE  /\ \A i \in 1..Len(pipe') : i + 1 \in 1..Len(pipe) /\ pipe'[i] = pipe[i + 1]
         /\ \A i \in 1..Len(pipe') : pipe'[i].file # pipe[1].file
         /\ \A i, j \in 1..Len(pipe') : pipe'[i].file = pipe'[j].file => i = j
<1>1. \A i \in 1..Len(pipe') : i + 1 \in 1..Len(pipe) /\ pipe'[i] = pipe[i + 1]
  BY PipeHead
<1>2. \A i, j \in 1..Len(pipe) : pipe[i].file = pipe[j].file => i = j
  BY DEF PipeInv
<1>3. Len(pipe) \in Nat \ {0} /\ Len(pipe') \in Nat
  BY PipeHead
<1>4. ASSUME NEW i \in 1..Len(pipe')
      PROVE  pipe'[i].file # pipe[1].file
  <2>1. i + 1 \in 1..Len(pipe) /\ pipe'[i] = pipe[i + 1]
    BY <1>1
  <2>2. 1 \in 1..Len(pipe) /\ i + 1 # 1
    BY <1>3
  <2> QED
    BY <1>2, <2>1, <2>2
<1>5. ASSUME NEW i \in 1..Len(pipe'), NEW j \in 1..Len(pipe'),
             pipe'[i].file = pipe'[j].file
      PROVE  i = j
  <2>1. /\ i + 1 \in 1..Len(pipe) /\ pipe'[i] = pipe[i + 1]
        /\ j + 1 \in 1..Len(pipe) /\ pipe'[j] = pipe[j + 1]
    BY <1>1
  <2>2. i + 1 = j + 1
    BY <1>2, <1>5, <2>1
  <2> QED
    BY <1>3, <2>2
<1> QED
  BY <1>1, <1>4, <1>5

\* The drawings in the pipe after every step.
LEMMA PipeStep ==
  ASSUME ImageInv, ImageNext
  PROVE  PipeInv'
<1> USE ImageAssumption DEF ImageInv, ImageTypeOK, NameInv, PipeInv, imageLocal, gnuplotVars, diskVars
<1>1. ASSUME NEW w \in Worker, NEW s \in Slice, Begin(w, s)
     PROVE  PipeInv'
  <2>1. PICK f \in File :
          Fresh(f) /\ imagePath' = [imagePath EXCEPT ![w] = f] /\ abandoned' = abandoned \ {f}
    BY <1>1 DEF Begin
  <2>2. \A i \in 1..Len(pipe) : pipe[i].file # f
    BY <2>1 DEF Fresh
  <2>3. \A v \in Worker : imagePc[v] = "wait" =>
          imagePc'[v] = "wait" /\ imagePath'[v] = imagePath[v]
    BY <1>1, <2>1 DEF Begin
  <2> QED
    BY <1>1, <2>1, <2>2, <2>3 DEF Begin
<1>2. ASSUME NEW w \in Worker, GridEmpty(w)
     PROVE  PipeInv'
  BY <1>2 DEF GridEmpty, ReturnError, Return
<1>3. ASSUME NEW w \in Worker, LockPng(w)
     PROVE  PipeInv'
  BY <1>3 DEF LockPng
<1>4. ASSUME NEW w \in Worker, DrawFigure(w)
     PROVE  PipeInv'
  BY <1>4 DEF DrawFigure
<1>5. ASSUME NEW w \in Worker, DrawThrows(w)
     PROVE  PipeInv'
  BY <1>5 DEF DrawThrows, Uncaught, Return
<1>6. ASSUME NEW w \in Worker, Save(w)
     PROVE  PipeInv'
  <2>1. PICK s \in figure : pipe' = Append(pipe, [file |-> imagePath[w], slice |-> s])
    BY <1>6 DEF Save
  <2>2. /\ Len(pipe') = Len(pipe) + 1
        /\ \A i \in 1..Len(pipe) : pipe'[i] = pipe[i]
        /\ pipe'[Len(pipe) + 1].file = imagePath[w]
    BY <2>1
  <2>3. \A i \in 1..Len(pipe) : pipe[i].file # imagePath[w]
    BY <1>6, NotSavedYet DEF Save
  <2>4. fileSize[imagePath[w]] = Absent
    BY <1>6 DEF Save, FileInv
  <2>5. imagePc'[w] = "wait" /\ imagePath' = imagePath
    BY <1>6 DEF Save
  <2>6. \A v \in Worker : imagePc[v] = "wait" => imagePc'[v] = "wait"
    BY <1>6 DEF Save
  <2>7. Len(pipe) \in Nat
    OBVIOUS
  <2>8. \A i \in 1..Len(pipe') : i \in 1..Len(pipe) \/ i = Len(pipe) + 1
    BY <2>2, <2>7
  <2>9. \A i, j \in 1..Len(pipe') : pipe'[i].file = pipe'[j].file => i = j
    <3>1. \A i, j \in 1..Len(pipe) : pipe'[i].file = pipe'[j].file => i = j
      BY <2>2
    <3>2. \A i \in 1..Len(pipe) : pipe'[i].file # pipe'[Len(pipe) + 1].file
      BY <2>2, <2>3
    <3> QED
      BY <2>8, <3>1, <3>2
  <2>10. ASSUME NEW i \in 1..Len(pipe')
         PROVE  /\ fileSize'[pipe'[i].file] = Absent
                /\ \/ pipe'[i].file \in abandoned'
                   \/ \E v \in Worker : imagePc'[v] = "wait" /\ imagePath'[v] = pipe'[i].file
    BY <1>6, <2>2, <2>4, <2>5, <2>6, <2>8 DEF Save
  <2> QED
    BY <2>9, <2>10
<1>7. ASSUME NEW w \in Worker, SaveReturnsFalse(w)
     PROVE  PipeInv'
  BY <1>7 DEF SaveReturnsFalse
<1>8. ASSUME NEW w \in Worker, SaveThrows(w)
     PROVE  PipeInv'
  BY <1>8 DEF SaveThrows, ReturnError, Return
<1>9. ASSUME NEW w \in Worker, FileReady(w)
     PROVE  PipeInv'
  <2>1. \A i \in 1..Len(pipe) : pipe[i].file # imagePath[w]
    BY <1>9, NotInPipe DEF FileReady
  <2>2. \A v \in Worker : v # w /\ imagePc[v] = "wait" =>
          imagePc'[v] = "wait" /\ imagePath'[v] = imagePath[v]
    BY <1>9 DEF FileReady
  <2>3. ASSUME NEW i \in 1..Len(pipe), pipe[i].file \notin abandoned
        PROVE  \E v \in Worker : imagePc'[v] = "wait" /\ imagePath'[v] = pipe[i].file
    <3>1. PICK v \in Worker : imagePc[v] = "wait" /\ imagePath[v] = pipe[i].file
      BY <2>3
    <3>2. v # w
      BY <2>1, <3>1
    <3> QED
      BY <2>2, <3>1, <3>2
  <2> QED
    BY <1>9, <2>3 DEF FileReady
<1>10. ASSUME NEW w \in Worker, FileNotReady(w)
     PROVE  PipeInv'
  BY <1>10 DEF FileNotReady
<1>11. ASSUME NEW w \in Worker, WaitTimesOut(w)
     PROVE  PipeInv'
  BY <1>11 DEF WaitTimesOut, ReturnError, Return
<1>12. ASSUME NEW w \in Worker, ReadImage(w)
     PROVE  PipeInv'
  BY <1>12 DEF ReadImage
<1>13. ASSUME NEW w \in Worker, OpenFails(w)
     PROVE  PipeInv'
  BY <1>13 DEF OpenFails, ReturnError, Return
<1>14. ASSUME NEW w \in Worker, RemoveImage(w)
     PROVE  PipeInv'
  <2>1. imagePath[w] \in File
    BY <1>14, PathIsFile DEF RemoveImage
  <2>2. \A i \in 1..Len(pipe) : pipe[i].file # imagePath[w]
    BY <1>14, NotInPipe DEF RemoveImage, FileInv
  <2>3. \A f : f # imagePath[w] /\ fileSize[f] = Absent => fileSize'[f] = Absent
    BY <1>14, <2>1 DEF RemoveImage
  <2>4. \A v \in Worker : imagePc[v] = "wait" =>
          imagePc'[v] = "wait" /\ imagePath'[v] = imagePath[v]
    BY <1>14 DEF RemoveImage, Return
  <2> QED
    BY <1>14, <2>2, <2>3, <2>4 DEF RemoveImage, Return
<1>15. ASSUME NEW w \in Worker, FilesystemThrows(w)
     PROVE  PipeInv'
  BY <1>15 DEF FilesystemThrows, Uncaught, Return
<1>16. ASSUME NEW w \in Worker, ImageElsewhereFails(w)
     PROVE  PipeInv'
  BY <1>16 DEF ImageElsewhereFails
<1>17. CASE GnuplotOpen
  <2>1. pipe # <<>> /\ pipe' = Tail(pipe)
    BY <1>17 DEF GnuplotOpen
  <2>2. fileSize' = [fileSize EXCEPT ![pipe[1].file] = 0]
    BY <1>17, <2>1, PipeHead DEF GnuplotOpen
  <2>3. /\ \A i \in 1..Len(pipe') : i + 1 \in 1..Len(pipe) /\ pipe'[i] = pipe[i + 1]
        /\ \A i \in 1..Len(pipe') : pipe'[i].file # pipe[1].file
    BY <2>1, PipeTail
  <2>5. \A i \in 1..Len(pipe') : fileSize'[pipe'[i].file] = fileSize[pipe[i + 1].file]
    BY <2>2, <2>3
  <2>6. \A i, j \in 1..Len(pipe') : pipe'[i].file = pipe'[j].file => i = j
    BY <2>1, PipeTail
  <2> QED
    BY <1>17, <2>3, <2>5, <2>6 DEF GnuplotOpen
<1>18. CASE GnuplotRejects
  <2>1. pipe # <<>> /\ pipe' = Tail(pipe)
    BY <1>18 DEF GnuplotRejects
  <2>2. \A i \in 1..Len(pipe') : i + 1 \in 1..Len(pipe) /\ pipe'[i] = pipe[i + 1]
    BY <2>1, PipeTail
  <2>3. \A i, j \in 1..Len(pipe') : pipe'[i].file = pipe'[j].file => i = j
    BY <2>1, PipeTail
  <2> QED
    BY <1>18, <2>2, <2>3 DEF GnuplotRejects
<1>19. CASE GnuplotWrite
  BY <1>19 DEF GnuplotWrite
<1>20. CASE GnuplotDone
  BY <1>20 DEF GnuplotDone
<1> QED
  BY <1>1, <1>2, <1>3, <1>4, <1>5, <1>6, <1>7, <1>8, <1>9, <1>10, <1>11,
     <1>12, <1>13, <1>14, <1>15, <1>16, <1>17, <1>18, <1>19, <1>20
  DEF ImageNext, ImageStep, Gnuplot

\* Calls before and after their file, after every step.
LEMMA FileStep ==
  ASSUME ImageInv, ImageNext
  PROVE  FileInv'
<1> USE ImageAssumption DEF ImageInv, ImageTypeOK, NameInv, FileInv, Absent, imageLocal, gnuplotVars, diskVars
<1>1. ASSUME NEW w \in Worker, NEW s \in Slice, Begin(w, s)
     PROVE  FileInv'
  BY <1>1 DEF Begin, Fresh
<1>2. ASSUME NEW w \in Worker, GridEmpty(w)
     PROVE  FileInv'
  BY <1>2 DEF GridEmpty, ReturnError, Return
<1>3. ASSUME NEW w \in Worker, LockPng(w)
     PROVE  FileInv'
  BY <1>3 DEF LockPng
<1>4. ASSUME NEW w \in Worker, DrawFigure(w)
     PROVE  FileInv'
  BY <1>4 DEF DrawFigure
<1>5. ASSUME NEW w \in Worker, DrawThrows(w)
     PROVE  FileInv'
  BY <1>5 DEF DrawThrows, Uncaught, Return
<1>6. ASSUME NEW w \in Worker, Save(w)
     PROVE  FileInv'
  BY <1>6 DEF Save
<1>7. ASSUME NEW w \in Worker, SaveReturnsFalse(w)
     PROVE  FileInv'
  BY <1>7 DEF SaveReturnsFalse
<1>8. ASSUME NEW w \in Worker, SaveThrows(w)
     PROVE  FileInv'
  BY <1>8 DEF SaveThrows, ReturnError, Return
<1>9. ASSUME NEW w \in Worker, FileReady(w)
     PROVE  FileInv'
  BY <1>9 DEF FileReady
<1>10. ASSUME NEW w \in Worker, FileNotReady(w)
     PROVE  FileInv'
  BY <1>10 DEF FileNotReady
<1>11. ASSUME NEW w \in Worker, WaitTimesOut(w)
     PROVE  FileInv'
  BY <1>11 DEF WaitTimesOut, ReturnError, Return
<1>12. ASSUME NEW w \in Worker, ReadImage(w)
     PROVE  FileInv'
  BY <1>12 DEF ReadImage
<1>13. ASSUME NEW w \in Worker, OpenFails(w)
     PROVE  FileInv'
  BY <1>13 DEF OpenFails, ReturnError, Return
<1>14. ASSUME NEW w \in Worker, RemoveImage(w)
     PROVE  FileInv'
  BY <1>14 DEF RemoveImage, Return
<1>15. ASSUME NEW w \in Worker, FilesystemThrows(w)
     PROVE  FileInv'
  BY <1>15 DEF FilesystemThrows, Uncaught, Return
<1>16. ASSUME NEW w \in Worker, ImageElsewhereFails(w)
     PROVE  FileInv'
  BY <1>16 DEF ImageElsewhereFails
<1>17. CASE GnuplotOpen
  <2>1. pipe # <<>> /\ fileSize' = [fileSize EXCEPT ![pipe[1].file] = 0]
    BY <1>17, PipeHead DEF GnuplotOpen
  <2>2. 1 \in 1..Len(pipe)
    BY <2>1, PipeHead
  <2>3. \A w \in Worker : imagePc[w] \in {"visual", "draw", "save"} =>
          imagePath[w] # pipe[1].file
    BY <2>2, NotSavedYet
  <2>4. \A w \in Worker : imagePc[w] \in {"open", "remove"} =>
          imagePath[w] # pipe[1].file
    BY <2>2, NotInPipe
  <2>5. \A f : f # pipe[1].file => fileSize'[f] = fileSize[f]
    BY <2>1
  <2> QED
    BY <1>17, <2>3, <2>4, <2>5 DEF GnuplotOpen
<1>18. CASE GnuplotRejects
  BY <1>18 DEF GnuplotRejects
<1>19. CASE GnuplotWrite
  <2>1. PICK d \in drawing :
          fileSize' = [fileSize EXCEPT ![d.file] =
                         IF @ = Absent THEN Absent ELSE d.written + 1]
    BY <1>19 DEF GnuplotWrite
  <2>2. d.written \in Nat
    BY DEF Drawing
  <2>3. \A f \in File : /\ fileSize[f] = Absent => fileSize'[f] = Absent
                        /\ fileSize[f] > 0 => fileSize'[f] > 0
    BY <2>1, <2>2
  <2>4. \A w \in Worker : imagePc[w] # "idle" => imagePath[w] \in File
    BY PathIsFile
  <2> QED
    BY <1>19, <2>3, <2>4 DEF GnuplotWrite
<1>20. CASE GnuplotDone
  BY <1>20 DEF GnuplotDone
<1> QED
  BY <1>1, <1>2, <1>3, <1>4, <1>5, <1>6, <1>7, <1>8, <1>9, <1>10, <1>11,
     <1>12, <1>13, <1>14, <1>15, <1>16, <1>17, <1>18, <1>19, <1>20
  DEF ImageNext, ImageStep, Gnuplot

\* No file stays behind after every step.
LEMMA StrayStep ==
  ASSUME ImageInv, ImageNext
  PROVE  NoStrayFile'
<1> USE ImageAssumption DEF ImageInv, ImageTypeOK, NameInv, NoStrayFile, imageLocal, gnuplotVars, diskVars
<1>1. ASSUME NEW w \in Worker, NEW s \in Slice, Begin(w, s)
     PROVE  NoStrayFile'
  BY <1>1 DEF Begin, Fresh
<1>2. ASSUME NEW w \in Worker, GridEmpty(w)
     PROVE  NoStrayFile'
  BY <1>2 DEF GridEmpty, ReturnError, Return
<1>3. ASSUME NEW w \in Worker, LockPng(w)
     PROVE  NoStrayFile'
  BY <1>3 DEF LockPng
<1>4. ASSUME NEW w \in Worker, DrawFigure(w)
     PROVE  NoStrayFile'
  BY <1>4 DEF DrawFigure
<1>5. ASSUME NEW w \in Worker, DrawThrows(w)
     PROVE  NoStrayFile'
  BY <1>5 DEF DrawThrows, Uncaught, Return
<1>6. ASSUME NEW w \in Worker, Save(w)
     PROVE  NoStrayFile'
  BY <1>6 DEF Save
<1>7. ASSUME NEW w \in Worker, SaveReturnsFalse(w)
     PROVE  NoStrayFile'
  BY <1>7 DEF SaveReturnsFalse
<1>8. ASSUME NEW w \in Worker, SaveThrows(w)
     PROVE  NoStrayFile'
  BY <1>8 DEF SaveThrows, ReturnError, Return
<1>9. ASSUME NEW w \in Worker, FileReady(w)
     PROVE  NoStrayFile'
  BY <1>9 DEF FileReady
<1>10. ASSUME NEW w \in Worker, FileNotReady(w)
     PROVE  NoStrayFile'
  BY <1>10 DEF FileNotReady
<1>11. ASSUME NEW w \in Worker, WaitTimesOut(w)
     PROVE  NoStrayFile'
  BY <1>11 DEF WaitTimesOut, ReturnError, Return
<1>12. ASSUME NEW w \in Worker, ReadImage(w)
     PROVE  NoStrayFile'
  BY <1>12 DEF ReadImage
<1>13. ASSUME NEW w \in Worker, OpenFails(w)
     PROVE  NoStrayFile'
  BY <1>13 DEF OpenFails, ReturnError, Return
<1>14. ASSUME NEW w \in Worker, RemoveImage(w)
     PROVE  NoStrayFile'
  BY <1>14 DEF RemoveImage, Return
<1>15. ASSUME NEW w \in Worker, FilesystemThrows(w)
     PROVE  NoStrayFile'
  BY <1>15 DEF FilesystemThrows, Uncaught, Return
<1>16. ASSUME NEW w \in Worker, ImageElsewhereFails(w)
     PROVE  NoStrayFile'
  BY <1>16 DEF ImageElsewhereFails
<1>17. CASE GnuplotOpen
  <2>1. pipe # <<>> /\ fileSize' = [fileSize EXCEPT ![pipe[1].file] = 0]
    BY <1>17, PipeHead DEF GnuplotOpen
  <2>2. pipe[1].file \in abandoned \/ \E w \in Worker : imagePath[w] = pipe[1].file
    BY <2>1, PipeHead DEF PipeInv
  <2>3. \A f : f # pipe[1].file => fileSize'[f] = fileSize[f]
    BY <2>1
  <2> QED
    BY <1>17, <2>2, <2>3 DEF GnuplotOpen
<1>18. CASE GnuplotRejects
  BY <1>18 DEF GnuplotRejects
<1>19. CASE GnuplotWrite
  <2>1. PICK d \in drawing :
          fileSize' = [fileSize EXCEPT ![d.file] =
                         IF @ = Absent THEN Absent ELSE d.written + 1]
    BY <1>19 DEF GnuplotWrite
  <2>2. \A f \in File : fileSize[f] = Absent => fileSize'[f] = Absent
    BY <2>1
  <2> QED
    BY <1>19, <2>2 DEF GnuplotWrite
<1>20. CASE GnuplotDone
  BY <1>20 DEF GnuplotDone
<1> QED
  BY <1>1, <1>2, <1>3, <1>4, <1>5, <1>6, <1>7, <1>8, <1>9, <1>10, <1>11,
     <1>12, <1>13, <1>14, <1>15, <1>16, <1>17, <1>18, <1>19, <1>20
  DEF ImageNext, ImageStep, Gnuplot

\* A step that neither reads a file nor answers.
LEMMA NothingRead ==
  ASSUME BufferInv, NoEmptyImage, UNCHANGED <<imageBuffer, imageReply>>,
         \A w \in Worker : imagePc'[w] = "remove" => imagePc[w] = "remove"
  PROVE  (BufferInv /\ NoEmptyImage)'
  BY DEF BufferInv, NoEmptyImage

\* A return whose status says whether there is a picture.
LEMMA ReturnKeepsImages ==
  ASSUME ImageInv, NEW w \in Worker, NEW reply, Return(w, reply),
         reply.code = 200 <=> reply.image # {},
         \A picture \in reply.image : picture.size > 0
  PROVE  (BufferInv /\ NoEmptyImage)'
<1> USE DEF ImageInv, ImageTypeOK, Return
<1>1. /\ imageBuffer' = imageBuffer
      /\ \A v \in Worker : imagePc'[v] = "remove" => imagePc[v] = "remove"
  OBVIOUS
<1>2. BufferInv'
  BY <1>1 DEF BufferInv
<1>3. \A v \in Worker : imageReply'[v] = IF v = w THEN {reply} ELSE imageReply[v]
  OBVIOUS
<1>4. NoEmptyImage'
  BY <1>3 DEF NoEmptyImage
<1> QED
  BY <1>2, <1>4

\* An error return has neither.
LEMMA ErrorKeepsImages ==
  ASSUME ImageInv, NEW w \in Worker,
         \/ ReturnError(w)
         \/ Uncaught(w)
  PROVE  (BufferInv /\ NoEmptyImage)'
<1> DEFINE empty(c) == [code |-> c, image |-> {}]
<1>1. \A c : empty(c).code = c /\ empty(c).image = {}
  OBVIOUS
<1>2. CASE ReturnError(w)
  <2>1. responseCode'[w] = 500
    BY <1>2 DEF ReturnError, ImageInv, ImageTypeOK
  <2>2. Return(w, empty(500))
    BY <1>2, <2>1 DEF ReturnError
  <2> HIDE DEF empty
  <2> QED
    BY <1>1, <2>2, ReturnKeepsImages
<1>3. CASE Uncaught(w)
  <2>1. Return(w, empty(500))
    BY <1>3 DEF Uncaught
  <2> HIDE DEF empty
  <2> QED
    BY <1>1, <2>1, ReturnKeepsImages
<1> QED
  BY <1>2, <1>3

\* Pictures read and returned after every step.
LEMMA BufferStep ==
  ASSUME ImageInv, ImageNext
  PROVE  (BufferInv /\ NoEmptyImage)'
<1> USE DEF imageLocal, gnuplotVars, diskVars
<1>0. imagePc \in [Worker -> ImageSteps] /\ BufferInv /\ NoEmptyImage
  BY DEF ImageInv, ImageTypeOK
<1>1. ASSUME NEW w \in Worker, NEW s \in Slice, Begin(w, s)
     PROVE  (BufferInv /\ NoEmptyImage)'
  <2>1. imageReply' = imageReply
    BY <1>1 DEF Begin
  <2>2. \A v \in Worker : imagePc'[v] = "remove" =>
          imagePc[v] = "remove" /\ imageBuffer'[v] = imageBuffer[v]
    BY <1>0, <1>1 DEF Begin
  <2> QED
    BY <1>0, <2>1, <2>2 DEF BufferInv, NoEmptyImage
<1>2. ASSUME NEW w \in Worker, GridEmpty(w)
     PROVE  (BufferInv /\ NoEmptyImage)'
  BY <1>2, ErrorKeepsImages DEF GridEmpty
<1>3. ASSUME NEW w \in Worker, LockPng(w)
     PROVE  (BufferInv /\ NoEmptyImage)'
  BY <1>0, <1>3, NothingRead DEF LockPng
<1>4. ASSUME NEW w \in Worker, DrawFigure(w)
     PROVE  (BufferInv /\ NoEmptyImage)'
  BY <1>0, <1>4, NothingRead DEF DrawFigure
<1>5. ASSUME NEW w \in Worker, DrawThrows(w)
     PROVE  (BufferInv /\ NoEmptyImage)'
  BY <1>5, ErrorKeepsImages DEF DrawThrows
<1>6. ASSUME NEW w \in Worker, Save(w)
     PROVE  (BufferInv /\ NoEmptyImage)'
  BY <1>0, <1>6, NothingRead DEF Save
<1>7. ASSUME NEW w \in Worker, SaveReturnsFalse(w)
     PROVE  (BufferInv /\ NoEmptyImage)'
  BY <1>0, <1>7, NothingRead DEF SaveReturnsFalse
<1>8. ASSUME NEW w \in Worker, SaveThrows(w)
     PROVE  (BufferInv /\ NoEmptyImage)'
  BY <1>8, ErrorKeepsImages DEF SaveThrows
<1>9. ASSUME NEW w \in Worker, FileReady(w)
     PROVE  (BufferInv /\ NoEmptyImage)'
  BY <1>0, <1>9, NothingRead DEF FileReady
<1>10. ASSUME NEW w \in Worker, FileNotReady(w)
     PROVE  (BufferInv /\ NoEmptyImage)'
  BY <1>0, <1>10, NothingRead DEF FileNotReady
<1>11. ASSUME NEW w \in Worker, WaitTimesOut(w)
     PROVE  (BufferInv /\ NoEmptyImage)'
  BY <1>11, ErrorKeepsImages DEF WaitTimesOut
<1>12. ASSUME NEW w \in Worker, ReadImage(w)
     PROVE  (BufferInv /\ NoEmptyImage)'
  <2>1. imagePath[w] \in File
    BY <1>12, PathIsFile DEF ReadImage, ImageInv
  <2>2. fileSize[imagePath[w]] > 0
    BY <1>12 DEF ReadImage, ImageInv, FileInv
  <2>3. fileSlice[imagePath[w]] # {}
    BY <2>1, <2>2 DEF ImageInv, DiskInv, Absent
  <2>4. imageReply' = imageReply
    BY <1>12 DEF ReadImage
  <2>5. \A v \in Worker : v # w /\ imagePc'[v] = "remove" =>
          imagePc[v] = "remove" /\ imageBuffer'[v] = imageBuffer[v]
    BY <1>0, <1>12 DEF ReadImage
  <2>6. imageBuffer'[w] = {[slice |-> s, size |-> fileSize[imagePath[w]]] :
                             s \in fileSlice[imagePath[w]]}
    BY <1>12 DEF ReadImage, ImageInv, ImageTypeOK
  <2>7. imageBuffer'[w] # {}
    <3>1. PICK s \in fileSlice[imagePath[w]] : TRUE
      BY <2>3
    <3>2. [slice |-> s, size |-> fileSize[imagePath[w]]] \in imageBuffer'[w]
      BY <2>6, <3>1
    <3> QED
      BY <3>2
  <2>8. \A picture \in imageBuffer'[w] : picture.size > 0
    BY <2>2, <2>6
  <2> QED
    BY <1>0, <2>4, <2>5, <2>7, <2>8 DEF BufferInv, NoEmptyImage
<1>13. ASSUME NEW w \in Worker, OpenFails(w)
     PROVE  (BufferInv /\ NoEmptyImage)'
  BY <1>13, ErrorKeepsImages DEF OpenFails
<1>14. ASSUME NEW w \in Worker, RemoveImage(w)
     PROVE  (BufferInv /\ NoEmptyImage)'
  <2>1. /\ imageBuffer[w] # {}
        /\ \A picture \in imageBuffer[w] : picture.size > 0
    BY <1>0, <1>14 DEF RemoveImage, BufferInv
  <2>2. PICK reply : reply = [code |-> 200, image |-> imageBuffer[w]]
    OBVIOUS
  <2>3. reply.code = 200 /\ reply.image = imageBuffer[w]
    BY <2>2
  <2>4. Return(w, reply)
    BY <1>14, <2>2 DEF RemoveImage
  <2> QED
    BY <2>1, <2>3, <2>4, ReturnKeepsImages
<1>15. ASSUME NEW w \in Worker, FilesystemThrows(w)
     PROVE  (BufferInv /\ NoEmptyImage)'
  BY <1>15, ErrorKeepsImages DEF FilesystemThrows
<1>16. ASSUME NEW w \in Worker, ImageElsewhereFails(w)
     PROVE  (BufferInv /\ NoEmptyImage)'
  BY <1>0, <1>16, NothingRead DEF ImageElsewhereFails
<1>17. CASE GnuplotOpen
  BY <1>0, <1>17, NothingRead DEF GnuplotOpen
<1>18. CASE GnuplotRejects
  BY <1>0, <1>18, NothingRead DEF GnuplotRejects
<1>19. CASE GnuplotWrite
  BY <1>0, <1>19, NothingRead DEF GnuplotWrite
<1>20. CASE GnuplotDone
  BY <1>0, <1>20, NothingRead DEF GnuplotDone
<1> QED
  BY <1>1, <1>2, <1>3, <1>4, <1>5, <1>6, <1>7, <1>8, <1>9, <1>10, <1>11,
     <1>12, <1>13, <1>14, <1>15, <1>16, <1>17, <1>18, <1>19, <1>20
  DEF ImageNext, ImageStep, Gnuplot

\* The inductive invariant is kept by every step and by stuttering.
LEMMA ImageInvStep ==
  ASSUME ImageInv, [ImageNext]_imageVars
  PROVE  ImageInv'
<1>1. CASE ImageNext
  <2>1. (ImageTypeOK /\ MutexInv /\ NameInv)'
    BY <1>1, ImageTypeStep, MutexStep, NameStep
  <2>2. (DiskInv /\ SliceInv /\ OwnImage)'
    BY <1>1, DiskStep, SliceStep, OwnStep
  <2>3. (PipeInv /\ FileInv /\ NoStrayFile)'
    BY <1>1, PipeStep, FileStep, StrayStep
  <2>4. (BufferInv /\ NoEmptyImage)'
    BY <1>1, BufferStep
  <2> QED
    BY <2>1, <2>2, <2>3, <2>4 DEF ImageInv
<1>2. CASE UNCHANGED imageVars
  <2> USE <1>2 DEF imageVars, imageLocal, gnuplotVars, diskVars, ImageInv
  <2>1. (ImageTypeOK /\ MutexInv /\ NameInv)'
    BY DEF ImageTypeOK, MutexInv, NameInv
  <2>2. (DiskInv /\ SliceInv /\ OwnImage)'
    BY DEF DiskInv, SliceInv, OwnImage
  <2>3. (PipeInv /\ FileInv /\ NoStrayFile)'
    BY DEF PipeInv, FileInv, NoStrayFile
  <2>4. (BufferInv /\ NoEmptyImage)'
    BY DEF BufferInv, NoEmptyImage
  <2> QED
    BY <2>1, <2>2, <2>3, <2>4
<1> QED
  BY <1>1, <1>2

\* Type correctness and the invariants of the mutex, the names, the pipe and
\* the files, for any number of threads and any size of the pipe.
THEOREM ImageInvariant == ImageSpec => []ImageInv
<1>1. ImageInit => ImageInv
  BY ImageInitInv
<1>2. ImageInv /\ [ImageNext]_imageVars => ImageInv'
  BY ImageInvStep
<1> QED
  BY <1>1, <1>2, PTL DEF ImageSpec

\* Every request that is answered with a picture is answered with the picture
\* of the slice it asked for.
THEOREM EveryoneTheirOwnImage == ImageSpec => []OwnImage
<1>1. ImageInv => OwnImage
  BY DEF ImageInv
<1> QED
  BY <1>1, ImageInvariant, PTL

\* Only requests that were answered with an error leave a file behind.
THEOREM OnlyErrorsLeaveFiles == ImageSpec => []NoStrayFile
<1>1. ImageInv => NoStrayFile
  BY DEF ImageInv
<1> QED
  BY <1>1, ImageInvariant, PTL

\* Status 200 comes with a picture that is not empty, and no error comes with
\* one.
THEOREM NothingEmptyServed == ImageSpec => []NoEmptyImage
<1>1. ImageInv => NoEmptyImage
  BY DEF ImageInv
<1> QED
  BY <1>1, ImageInvariant, PTL
=============================================================================
