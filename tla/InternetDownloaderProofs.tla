----------------------- MODULE InternetDownloaderProofs -----------------------
(***************************************************************************)
(* Theorems about the segmented downloader, for every file size, number of *)
(* sections, cache, roll back, split limit and number of failures.         *)
(*                                                                         *)
(* Every property follows from the inductive invariant IndInv of module    *)
(* InternetDownloader.  Its preservation is proved in three layers:        *)
(*   1. frame lemmas, one case per action, say what each group of actions  *)
(*      leaves alone: ThreadStep, AddStep, OwnerStep, LaunchStep;          *)
(*   2. each conjunct of IndInv is shown preserved from the frames, with   *)
(*      the few actions that disturb it taken one by one;                  *)
(*   3. Invariance puts them together.                                     *)
(* Steps are taken in states that are not Ended, as Next takes them.       *)
(***************************************************************************)
EXTENDS InternetDownloader, FiniteSetTheorems, TLAPS

USE DEF fields, listV, addV, flags, runV, counts, startV, threadV, Goto, Quit,
        Fault, NeedStop
-----------------------------------------------------------------------------
(* The frames.                                                             *)

\* What a step of section s's thread leaves alone.
ThreadStep(s) ==
  /\ UNCHANGED <<n, uStart, uEnd, add, csAdd, bAdding, bNoNew, bNeedStop,
                 cCreating, iStart, bOneStarted, refused, starts>>
  /\ \A t \in SectId \ {s} :
       /\ uCurrent'[t] = uCurrent[t] /\ dwCacheLen'[t] = dwCacheLen[t]
       /\ buf'[t] = buf[t] /\ state'[t] = state[t]
  /\ written \subseteq written'
  /\ pc[s] \in SectPC \ {"none"}
  /\ \/ /\ pc[s] # "count_out" /\ UNCHANGED runV
        /\ \E l \in SectPC \ {"none", "begin", "begin_nofile", "count_out"} :
             pc' = [pc EXCEPT ![s] = l]
     \/ /\ pc[s] = "leave" /\ pc[Tail] = "none"
        /\ \A t \in SectId : pc[t] # "count_out"
        /\ pc' = [pc EXCEPT ![s] = "count_out"]
        /\ UNCHANGED <<cRunning, odd, state>>
     \/ /\ pc[s] = "count_out" /\ StoreRunning(s, -1) /\ state' = state
        /\ pc' = [pc EXCEPT ![s] = "none", ![Tail] = "tail_event"]

\* The steps of CreateAdditionalSection that do not touch the list, and what
\* they leave alone.
AddQuiet(a) ==
  \/ AddSection(a) \/ AddLock(a) \/ AddRefused(a) \/ AddChoose(a)
  \/ AddNoCandidate(a) \/ AddPoint(a) \/ AddTooSmall(a) \/ AddOpen(a)
  \/ AddOpenFails(a) \/ AddOpenNoRanges(a) \/ AddRecheck(a) \/ AddTooLate(a)
  \/ AddStart(a)

AddStep(a) ==
  /\ UNCHANGED <<fields, state, n, threadV, tail, bNoNew, bNeedStop, bErr,
                 cRunning, odd, startV, written, faults>>
  /\ \/ /\ pc[a] \in {"downloading", "idle", "tail_event"}
        /\ UNCHANGED addV /\ pc' = [pc EXCEPT ![a] = "add_lock"]
        /\ MayCallAddSection(a) /\ n > 0 /\ ~bNoNew
     \/ /\ pc[a] = "add_lock" /\ csAdd = None /\ csAdd' = a /\ UNCHANGED add
        /\ pc' = [pc EXCEPT ![a] = "add_choose"]
     \/ /\ pc[a] \in AddPC \ {"add_lock", "add_insert", "add_start", "add_launch"}
        /\ csAdd' = csAdd
        /\ \E l \in {"add_point", "add_open", "add_recheck", "add_shrink"} :
             pc' = [pc EXCEPT ![a] = l]
     \/ /\ pc[a] \in AddPC \ {"add_lock", "add_insert", "add_start", "add_launch"}
        /\ csAdd' = None /\ pc' = [pc EXCEPT ![a] = After(a)]
     \/ /\ pc[a] = "add_start" /\ UNCHANGED addV
        /\ pc' = [pc EXCEPT ![a] = "add_launch"]

\* The owner's steps that leave the list and the threads alone.
OwnerQuiet ==
  \/ MainBegin \/ MainRefused \/ MainFails \/ MainNotInitialized
  \/ StopDownloading \/ StartBegin \/ StartSkip \/ StartSection \/ StartOpened
  \/ StartNoFile \/ StartOpenFails \/ StartNoRanges \/ StartEnd
  \/ MainStart \/ StartLaunch \/ LaunchOneMoreSection

\* The owner's calls.
OwnerCalls ==
  \/ MainBegin \/ StartBegin \/ LaunchOneMoreSection \/ StopDownloading
  \/ OwnerSteps

\* The owner inside CreateMainSection.
MainPC == {"main_open", "main_start", "main_launch"}

OwnerStep ==
  /\ UNCHANGED <<fields, state, n, threadV, tail, add, bAdding, cRunning, written>>
  /\ odd \subseteq odd' /\ ("lost" \in odd' => "lost" \in odd)
  /\ \/ csAdd' = csAdd /\ pc' = pc
     \/ /\ csAdd' = csAdd /\ pc[Owner] \in OwnerPC \ MainPC
        /\ \E l \in OwnerPC \ MainPC : pc' = [pc EXCEPT ![Owner] = l]
     \/ /\ csAdd = None /\ csAdd' = Owner /\ n = 0 /\ pc[Owner] \in {"idle", "main"}
        /\ pc' = [pc EXCEPT ![Owner] = "main_open"]
     \/ /\ pc[Owner] \in {"main_open", "main_start"} /\ csAdd' = None
        /\ pc' = [pc EXCEPT ![Owner] = "idle"]
     \/ /\ pc[Owner] = "main_start" /\ csAdd' = csAdd
        /\ pc' = [pc EXCEPT ![Owner] = "main_launch"]

\* The steps in which actor a gives section t a thread, at b, and goes to l.
LaunchStep(a, t, b, l) ==
  /\ a \in Actor /\ t \in SectId /\ t <= n /\ a # t /\ pc[t] = "none"
  /\ UNCHANGED <<fields, n, threadV, tail, add, bAdding, bNoNew, bNeedStop,
                 bErr, bOneStarted, written>>
  /\ b \in Launched /\ StoreRunning(a, 1)
  /\ pc' = [pc EXCEPT ![t] = b, ![a] = l]
  /\ \/ /\ pc[a] = "add_launch" /\ l = "add_fixup"
        /\ t = n /\ csAdd' = csAdd /\ state' = state /\ iStart' = iStart
     \/ /\ a = Owner /\ pc[a] = "main_launch" /\ l = "idle"
        /\ t = n /\ csAdd' = None /\ state' = state /\ iStart' = iStart
     \/ /\ a = Owner /\ pc[a] = "start_count" /\ l = "start_loop"
        /\ t = iStart /\ iStart' = iStart + 1 /\ csAdd' = csAdd
        /\ state' = [state EXCEPT ![t] = "DOWNLOADING"]
     \/ /\ a = Owner /\ pc[a] = "one_launch" /\ l = "idle"
        /\ t = iStart /\ iStart' = iStart /\ csAdd' = csAdd
        /\ state' = state /\ state[t] = "STOPPED"
        /\ \A c \in Actor : pc[c] \in {"add_start", "add_launch"} => t # n

\* A section thread leaves the list, the adder and the other threads alone.
LEMMA ThreadFrame == ASSUME FieldsOK, ControlOK, PlacesInv, NEW s \in SectId,
  SectionThread(s) PROVE ThreadStep(s)
<1>1. CASE ThreadBegin(s) BY <1>1, ActorsAssumption DEF ThreadBegin,
     ThreadStep, FieldsOK, ControlOK, SectPC, Actor
<1>2. CASE SectDownloadingReturn(s) BY <1>2, ActorsAssumption DEF
     SectDownloadingReturn, ThreadStep, FieldsOK, ControlOK, SectPC, Actor
<1>3. CASE StopInLoop(s) BY <1>3, ActorsAssumption DEF StopInLoop, ThreadStep,
     FieldsOK, ControlOK, SectPC, Actor
<1>4. CASE Read(s) BY <1>4, ActorsAssumption DEF Read, Lesser, ThreadStep,
     FieldsOK, ControlOK, SectPC, Actor
<1>5. CASE ReadError(s) BY <1>5, ActorsAssumption DEF ReadError, Lesser,
     ThreadStep, FieldsOK, ControlOK, SectPC, Actor
<1>6. CASE ReadStalled(s) BY <1>6, ActorsAssumption DEF ReadStalled,
     ThreadStep, FieldsOK, ControlOK, SectPC, Actor
<1>7. CASE AwaitOtherError(s) BY <1>7, ActorsAssumption DEF AwaitOtherError,
     ThreadStep, FieldsOK, ControlOK, SectPC, Actor
<1>8. CASE SetError(s) BY <1>8, ActorsAssumption DEF SetError, ThreadStep,
     FieldsOK, ControlOK, SectPC, Actor
<1>9. CASE ReopenGiveUp(s) BY <1>9, ActorsAssumption DEF ReopenGiveUp,
     ThreadStep, FieldsOK, ControlOK, SectPC, Actor
<1>10. CASE ReopenFails(s) BY <1>10, ActorsAssumption DEF ReopenFails,
     ThreadStep, FieldsOK, ControlOK, SectPC, Actor
<1>11. CASE ReopenNoRanges(s) BY <1>11, ActorsAssumption DEF ReopenNoRanges,
     ThreadStep, FieldsOK, ControlOK, SectPC, Actor
<1>12. CASE Reopened(s) BY <1>12, ActorsAssumption DEF Reopened, ThreadStep,
     FieldsOK, ControlOK, SectPC, Actor
<1>13. CASE FlushToCache(s) BY <1>13, ActorsAssumption DEF FlushToCache,
     Lesser, ThreadStep, FieldsOK, ControlOK, SectPC, Actor
<1>14. CASE FlushToDisk(s) BY <1>14, ActorsAssumption DEF FlushToDisk,
     WriteOut, ThreadStep, FieldsOK, ControlOK, SectPC, Actor
<1>15. CASE Advance(s) BY <1>15, ActorsAssumption DEF Advance, ThreadStep,
     FieldsOK, ControlOK, SectPC, Actor
<1>16. CASE LoopEnds(s) BY <1>16, ActorsAssumption DEF LoopEnds, WriteOut,
     ThreadStep, FieldsOK, ControlOK, SectPC, Actor
<1>17. CASE WriteError(s) BY <1>17, ActorsAssumption DEF WriteError,
     ThreadStep, FieldsOK, ControlOK, SectPC, Actor
<1>18. CASE Finish(s) BY <1>18, ActorsAssumption DEF Finish, ThreadStep,
     FieldsOK, ControlOK, SectPC, Actor
<1>19. CASE ExitFlush(s) BY <1>19, ActorsAssumption DEF ExitFlush, WriteOut,
     ThreadStep, FieldsOK, ControlOK, SectPC, Actor
<1>20. CASE Leave(s) BY <1>20, ActorsAssumption DEF Leave, ThreadStep,
     FieldsOK, ControlOK, SectPC, Actor
<1>21. CASE ThreadBeginNoFile(s) BY <1>21, ActorsAssumption DEF
     ThreadBeginNoFile, ThreadStep, FieldsOK, ControlOK, SectPC, Actor
<1>22. CASE NoFileError(s) BY <1>22, ActorsAssumption DEF NoFileError,
     ThreadStep, FieldsOK, ControlOK, SectPC, Actor
<1>23. CASE CountOut(s) BY <1>23, ActorsAssumption DEF CountOut, ThreadStep,
     FieldsOK, ControlOK, SectPC, Actor
<1> QED BY <1>1, <1>2, <1>3, <1>4, <1>5, <1>6, <1>7, <1>8, <1>9, <1>10, <1>11,
     <1>12, <1>13, <1>14, <1>15, <1>16, <1>17, <1>18, <1>19, <1>20, <1>21,
     <1>22, <1>23 DEF SectionThread

\* Up to the cut CreateAdditionalSection changes its locals and locks only.
LEMMA AddFrame == ASSUME ControlOK, PlacesInv, NEW a \in Actor, AddQuiet(a)
  PROVE AddStep(a)
<1>1. CASE AddSection(a) BY <1>1, ActorsAssumption DEF AddSection,
     MayCallAddSection, AddStep, AddPC, Actor, ControlOK
<1>2. CASE AddLock(a) BY <1>2, ActorsAssumption DEF AddLock, AddStep, AddPC,
     Actor, ControlOK, MayCallAddSection
<1>3. CASE AddRefused(a) BY <1>3, ActorsAssumption DEF AddRefused, AddReturn,
     AddStep, AddPC, Actor, ControlOK, MayCallAddSection
<1>4. CASE AddChoose(a) BY <1>4, ActorsAssumption DEF AddChoose, AddStep,
     AddPC, Actor, ControlOK, MayCallAddSection
<1>5. CASE AddNoCandidate(a) BY <1>5, ActorsAssumption DEF AddNoCandidate,
     AddReturn, AddStep, AddPC, Actor, ControlOK, MayCallAddSection
<1>6. CASE AddPoint(a) BY <1>6, ActorsAssumption DEF AddPoint, SplitPoint,
     AddStep, AddPC, Actor, ControlOK, MayCallAddSection
<1>7. CASE AddTooSmall(a) BY <1>7, ActorsAssumption DEF AddTooSmall, AddAbort,
     AddReturn, AddStep, AddPC, Actor, ControlOK, MayCallAddSection
<1>8. CASE AddOpen(a) BY <1>8, ActorsAssumption DEF AddOpen, AddStep, AddPC,
     Actor, ControlOK, MayCallAddSection
<1>9. CASE AddOpenFails(a) BY <1>9, ActorsAssumption DEF AddOpenFails,
     AddAbort, AddReturn, AddStep, AddPC, Actor, ControlOK, MayCallAddSection
<1>10. CASE AddOpenNoRanges(a) BY <1>10, ActorsAssumption DEF AddOpenNoRanges,
     AddReturn, AddStep, AddPC, Actor, ControlOK, MayCallAddSection
<1>11. CASE AddRecheck(a) BY <1>11, ActorsAssumption DEF AddRecheck, AddStep,
     AddPC, Actor, ControlOK, MayCallAddSection
<1>12. CASE AddTooLate(a) BY <1>12, ActorsAssumption DEF AddTooLate, AddAbort,
     AddReturn, AddStep, AddPC, Actor, ControlOK, MayCallAddSection
<1>13. CASE AddStart(a) BY <1>13, ActorsAssumption DEF AddStart, CountLast,
     AddStep, AddPC, Actor, ControlOK, MayCallAddSection
<1> QED BY <1>1, <1>2, <1>3, <1>4, <1>5, <1>6, <1>7, <1>8, <1>9, <1>10, <1>11,
     <1>12, <1>13 DEF AddQuiet

\* So do the owner's calls before a thread is created.
LEMMA OwnerFrame == ASSUME ControlOK, PlacesInv, OwnerQuiet PROVE OwnerStep
<1> USE DEF MainPC
<1>1. CASE MainBegin BY <1>1, ActorsAssumption DEF MainBegin, OwnerStep,
     OwnerPC, ControlOK, Actor, PlacesInv
<1>2. CASE MainRefused BY <1>2, ActorsAssumption DEF MainRefused, OwnerStep,
     OwnerPC, ControlOK, Actor, PlacesInv
<1>3. CASE MainFails BY <1>3, ActorsAssumption DEF MainFails, OwnerStep,
     OwnerPC, ControlOK, Actor, PlacesInv
<1>4. CASE MainNotInitialized BY <1>4, ActorsAssumption DEF MainNotInitialized,
     OwnerStep, OwnerPC, ControlOK, Actor, PlacesInv
<1>5. CASE StopDownloading BY <1>5, ActorsAssumption DEF StopDownloading,
     OwnerStep, OwnerPC, ControlOK, Actor, PlacesInv
<1>6. CASE StartBegin BY <1>6, ActorsAssumption DEF StartBegin, IsRunning,
     IsDone, OwnerStep, OwnerPC, ControlOK, Actor, PlacesInv
<1>7. CASE StartSkip BY <1>7, ActorsAssumption DEF StartSkip, OwnerStep,
     OwnerPC, ControlOK, Actor, PlacesInv
<1>8. CASE StartSection BY <1>8, ActorsAssumption DEF StartSection, OwnerStep,
     OwnerPC, ControlOK, Actor, PlacesInv
<1>9. CASE StartOpened BY <1>9, ActorsAssumption DEF StartOpened, OwnerStep,
     OwnerPC, ControlOK, Actor, PlacesInv
<1>10. CASE StartNoFile BY <1>10, ActorsAssumption DEF StartNoFile, OwnerStep,
     OwnerPC, ControlOK, Actor, PlacesInv
<1>11. CASE StartOpenFails BY <1>11, ActorsAssumption DEF StartOpenFails,
     OwnerStep, OwnerPC, ControlOK, Actor, PlacesInv
<1>12. CASE StartNoRanges BY <1>12, ActorsAssumption DEF StartNoRanges,
     OwnerStep, OwnerPC, ControlOK, Actor, PlacesInv
<1>13. CASE StartEnd BY <1>13, ActorsAssumption DEF StartEnd, OwnerStep,
     OwnerPC, ControlOK, Actor, PlacesInv
<1>14. CASE MainStart BY <1>14, ActorsAssumption DEF MainStart, CountLast,
     OwnerStep, OwnerPC, ControlOK, Actor, PlacesInv
<1>15. CASE StartLaunch BY <1>15, ActorsAssumption DEF StartLaunch, OwnerStep,
     OwnerPC, ControlOK, Actor, PlacesInv
<1>16. CASE LaunchOneMoreSection BY <1>16, ActorsAssumption DEF
     LaunchOneMoreSection, OwnerStep, OwnerPC, ControlOK, Actor, PlacesInv
<1> QED BY <1>1, <1>2, <1>3, <1>4, <1>5, <1>6, <1>7, <1>8, <1>9, <1>10, <1>11,
     <1>12, <1>13, <1>14, <1>15, <1>16 DEF OwnerQuiet

\* AddLaunch hands the new section, and nothing else, to a thread.
LEMMA AddLaunchFrame ==
  ASSUME TypeOK, LaunchInv, NEW a \in Actor, AddInv(a), AddLaunch(a)
  PROVE  LaunchStep(a, n, "begin", "add_fixup")
<1>1. n \in SectId /\ n \in Nat
  BY SizesAssumption DEF TypeOK, FieldsOK, AddInv, AddLaunch, AddPC, SectId
<1>2. pc[n] = "none" BY DEF LaunchInv, AddLaunch
<1> QED BY <1>1, <1>2 DEF AddLaunch, LaunchLast, LaunchStep, Launched

\* MainLaunch does the same for the main section.
LEMMA MainLaunchFrame ==
  ASSUME TypeOK, PlacesInv, LaunchInv, MainLaunch
  PROVE  LaunchStep(Owner, n, "begin", "idle")
<1>1. n \in SectId /\ n \in Nat
  BY SizesAssumption DEF TypeOK, FieldsOK, PlacesInv, MainLaunch, SectId
<1>2. pc[n] = "none" BY DEF LaunchInv, MainLaunch, Actor
<1> QED
  BY <1>1, <1>2, ActorsAssumption
     DEF MainLaunch, LaunchLast, LaunchStep, Launched, Actor

\* StartCount does the same for the section StartDownloading reached ...
LEMMA StartCountFrame ==
  ASSUME ~Ended, TypeOK, StartInv, StartCount
  PROVE  LaunchStep(Owner, iStart, "begin", "start_loop")
<1>1. iStart \in SectId /\ iStart \in 1..n
  BY SizesAssumption DEF TypeOK, FieldsOK, CountersOK, StartInv, StartCount,
     SectId
<1>2. pc[iStart] = "none" BY <1>1 DEF StartInv, StartCount, SectId
<1> QED BY <1>1, <1>2 DEF StartCount, LaunchStep, Launched, Actor

\* ... and OneLaunch for the one LaunchOneMoreSection has taken.
LEMMA OneLaunchFrame ==
  ASSUME ~Ended, TypeOK, OneInv, OneLaunch
  PROVE  LaunchStep(Owner, iStart, "begin_nofile", "idle")
<1>1. iStart \in SectId /\ iStart \in 1..n
  BY SizesAssumption DEF TypeOK, FieldsOK, CountersOK, OneInv, OneLaunch,
     SectId
<1>2. /\ pc[iStart] = "none" /\ state[iStart] = "STOPPED"
      /\ \A c \in Actor : pc[c] \in {"add_start", "add_launch"} => iStart # n
  BY DEF OneInv, OneLaunch
<1> QED BY <1>1, <1>2 DEF OneLaunch, LaunchStep, Launched, Actor

-----------------------------------------------------------------------------
(* The types.                                                              *)

\* A flush keeps the types: the bytes written lie within the file.
LEMMA WriteOutFields ==
  ASSUME FieldsOK, NEW s \in SectId, SectionInv(s), NEW l, WriteOut(s, l)
  PROVE  FieldsOK'
<1>1. uCurrent[s] \in Nat /\ dwCacheLen[s] \in Nat /\ buf[s] \in Nat
  BY DEF FieldsOK
<1>2. written' \in SUBSET (0..(FileSize - 1))
  <2>1. written' = written \cup (uCurrent[s]..(Pos(s) + buf[s] - 1))
    BY DEF WriteOut
  <2>2. Pos(s) + buf[s] <= FileSize BY DEF SectionInv
  <2>3. uCurrent[s]..(Pos(s) + buf[s] - 1) \subseteq 0..(FileSize - 1)
    BY <1>1, <2>2, SizesAssumption DEF Pos
  <2> QED BY <2>1, <2>3 DEF FieldsOK
<1>3. /\ buf' \in [SectId -> Nat] /\ dwCacheLen' \in [SectId -> Nat]
  BY <1>1 DEF WriteOut, FieldsOK
<1> QED BY <1>2, <1>3 DEF WriteOut, FieldsOK

\* Returning from CreateAdditionalSection keeps the types of the control state.
LEMMA AddReturnControl ==
  ASSUME ControlOK, NEW a \in Actor, AddReturn(a), UNCHANGED <<state, tail>>
  PROVE  ControlOK'
<1>1. NoAdd \in [target : SectId, max : Nat, corr : Nat, split : Nat, end : Nat]
  BY SizesAssumption DEF NoAdd, SectId
<1>2. After(a) \in SectPC \cup OwnerPC \cup TailPC
  BY DEF After, SectPC, OwnerPC, TailPC
<1> QED BY <1>1, <1>2 DEF AddReturn, ControlOK

\* A roll back keeps the types: it does not go below zero.
LEMMA ReadErrorFields ==
  ASSUME FieldsOK, NEW s \in SectId, SectionInv(s), ReadError(s)
  PROVE  FieldsOK'
<1>1. /\ uCurrent[s] \in Nat /\ dwCacheLen[s] \in Nat /\ uStart[s] \in Nat
      /\ uStart[s] <= uCurrent[s]
  BY DEF FieldsOK, SectionInv
<1>2. PICK dw \in 0..Lesser(RollBack, Pos(s) - uStart[s]) :
        /\ dwCacheLen' = [dwCacheLen EXCEPT ![s] = @ - Lesser(dw, dwCacheLen[s])]
        /\ uCurrent' = [uCurrent EXCEPT ![s] = @ - (dw - Lesser(dw, dwCacheLen[s]))]
  BY DEF ReadError
<1>3. /\ dwCacheLen[s] - Lesser(dw, dwCacheLen[s]) \in Nat
      /\ uCurrent[s] - (dw - Lesser(dw, dwCacheLen[s])) \in Nat
  BY <1>1, <1>2, SizesAssumption DEF Lesser, Pos
<1> QED BY <1>2, <1>3 DEF FieldsOK, ReadError

\* Appending a section keeps the types of the section fields.
LEMMA AppendFields ==
  ASSUME FieldsOK, n < MaxSections, NEW x \in 0..FileSize, NEW y \in 0..FileSize,
         Append(x, y), UNCHANGED <<buf, written>>
  PROVE  FieldsOK'
<1>1. n + 1 \in SectId /\ n + 1 \in 0..MaxSections
  BY SizesAssumption DEF FieldsOK, SectId
<1>2. x \in Nat BY SizesAssumption
<1> QED BY <1>1, <1>2 DEF FieldsOK, Append

\* The fix-up keeps the types: uCurrent of the target is within the file.
LEMMA AddFixupFields ==
  ASSUME FieldsOK, ControlOK, NEW a \in Actor, SectionInv(add.target), AddFixup(a)
  PROVE  FieldsOK'
<1> DEFINE t == add.target
<1>1. t \in SectId BY DEF ControlOK
<1>2. uCurrent[t] \in 0..FileSize
  BY <1>1, SizesAssumption DEF FieldsOK, SectionInv, Pos
<1> QED BY <1>1, <1>2 DEF FieldsOK, AddFixup

\* The split point is a natural number.
LEMMA AddPointControl ==
  ASSUME FieldsOK, ControlOK, NEW a \in Actor, AddPoint(a)
  PROVE  ControlOK'
<1>1. /\ add.target \in SectId /\ uCurrent[add.target] \in Nat
      /\ uEnd[add.target] \in Nat /\ add.corr \in Nat /\ add.max \in Nat
  BY SizesAssumption DEF FieldsOK, ControlOK
<1>2. SplitPoint \in Nat BY <1>1 DEF SplitPoint
<1>3. add' \in [target : SectId, max : Nat, corr : Nat, split : Nat, end : Nat]
  BY <1>1, <1>2 DEF AddPoint, ControlOK
<1> QED BY <1>3 DEF AddPoint, ControlOK, AddPC

\* The locals chosen by the scan have their types.
LEMMA AddChooseControl ==
  ASSUME FieldsOK, ControlOK, NEW a \in Actor, AddChoose(a)
  PROVE  ControlOK'
<1>1. PICK ahead \in Aheads, s \in 1..n :
        /\ Remaining(s, ahead[s]) > 0
        /\ add' = [NoAdd EXCEPT !.target = s, !.max = Remaining(s, ahead[s]),
                                !.corr = dwCacheLen[s] + ahead[s]]
  BY DEF AddChoose, Chosen
<1>2. s \in SectId /\ ahead[s] \in Nat
  BY SizesAssumption DEF SectId, FieldsOK, Aheads
<1>3. uEnd[s] \in Nat /\ uCurrent[s] \in Nat /\ dwCacheLen[s] \in Nat
  BY <1>2, SizesAssumption DEF FieldsOK
<1>4. Remaining(s, ahead[s]) \in Nat BY <1>1, <1>2, <1>3 DEF Remaining, Pos
<1>5. add' \in [target : SectId, max : Nat, corr : Nat, split : Nat, end : Nat]
  <2>1. add' = [target |-> s, max |-> Remaining(s, ahead[s]),
                corr |-> dwCacheLen[s] + ahead[s], split |-> 0, end |-> 0]
    BY <1>1 DEF NoAdd
  <2> QED BY <1>2, <1>3, <1>4, <2>1
<1> QED BY <1>5 DEF AddChoose, ControlOK, AddPC

\* The new section is within the file.
LEMMA AddInsertFields ==
  ASSUME FieldsOK, ControlOK, PlacesInv, NEW a \in Actor, AddInv(a),
         AddInsert(a)
  PROVE  FieldsOK'
<1>1. n < MaxSections /\ add.split \in 0..FileSize /\ add.end \in 0..FileSize
  BY SizesAssumption DEF AddInv, AddInsert, ControlOK
<1> QED BY <1>1, AppendFields DEF AddInsert

\* The main section is the whole file.
LEMMA MainOpenedFields == ASSUME FieldsOK, PlacesInv, MainOpened PROVE FieldsOK'
<1>1. n < MaxSections /\ 0 \in 0..FileSize /\ FileSize \in 0..FileSize
  BY SizesAssumption DEF PlacesInv, MainOpened
<1> QED BY <1>1, AppendFields DEF MainOpened

\* The cut leaves the end of the target within the file.
LEMMA AddShrinkFields ==
  ASSUME FieldsOK, ControlOK, NEW a \in Actor, AddInv(a), AddShrink(a)
  PROVE  FieldsOK'
<1>1. add.target \in SectId /\ add.split \in Nat BY DEF ControlOK
<1>2. add.split \in 0..FileSize
  BY <1>1, SizesAssumption DEF FieldsOK, AddInv, AddShrink
<1> QED BY <1>1, <1>2 DEF FieldsOK, AddShrink

\* The quiet steps of the owner keep the types of the control state.
LEMMA OwnerStepControl == ASSUME ControlOK, OwnerStep PROVE ControlOK'
BY DEF OwnerStep, ControlOK, Actor, OwnerPC

\* Reading and storing m_cRunningThreads keeps the types of the counters.
LEMMA LoadCounters ==
  ASSUME CountersOK, NEW a, LoadRunning(a) PROVE old' \in [Actor -> Int]
BY DEF CountersOK, LoadRunning

LEMMA StoreCounters ==
  ASSUME CountersOK, NEW a \in Actor, NEW d \in Int, StoreRunning(a, d)
  PROVE  /\ cRunning' \in Int /\ old' \in [Actor -> Int]
         /\ odd' \subseteq {"lost", "blind", "twice"}
<1>1. old[a] \in Int BY DEF CountersOK
<1>2. cRunning' \in Int BY <1>1 DEF StoreRunning
<1>3. old' \in [Actor -> Int] BY DEF CountersOK, StoreRunning
<1>4. odd' \subseteq {"lost", "blind", "twice"} BY DEF CountersOK, StoreRunning
<1> QED BY <1>2, <1>3, <1>4

\* The types are preserved by the section threads ...
LEMMA ThreadFields == ASSUME FieldsOK, NEW s \in SectId, SectionInv(s),
  SectionThread(s) PROVE FieldsOK'
<1>1. CASE ThreadBegin(s) BY <1>1 DEF ThreadBegin, FieldsOK, Pos, SectionInv
<1>2. CASE SectDownloadingReturn(s) BY <1>2 DEF SectDownloadingReturn,
     FieldsOK, Pos, SectionInv
<1>3. CASE StopInLoop(s) BY <1>3 DEF StopInLoop, FieldsOK, Pos, SectionInv
<1>4. CASE Read(s) BY <1>4 DEF Read, Lesser, FieldsOK, Pos, SectionInv
<1>5. CASE ReadError(s) BY <1>5, ReadErrorFields
<1>6. CASE ReadStalled(s) BY <1>6 DEF ReadStalled, FieldsOK, Pos, SectionInv
<1>7. CASE AwaitOtherError(s) BY <1>7 DEF AwaitOtherError, FieldsOK, Pos,
     SectionInv
<1>8. CASE SetError(s) BY <1>8 DEF SetError, FieldsOK, Pos, SectionInv
<1>9. CASE ReopenGiveUp(s) BY <1>9 DEF ReopenGiveUp, FieldsOK, Pos, SectionInv
<1>10. CASE ReopenFails(s) BY <1>10 DEF ReopenFails, FieldsOK, Pos, SectionInv
<1>11. CASE ReopenNoRanges(s) BY <1>11 DEF ReopenNoRanges, FieldsOK, Pos,
     SectionInv
<1>12. CASE Reopened(s) BY <1>12 DEF Reopened, FieldsOK, Pos, SectionInv
<1>13. CASE FlushToCache(s) BY <1>13 DEF FlushToCache, Lesser, FieldsOK, Pos,
     SectionInv
<1>14. CASE FlushToDisk(s) BY <1>14, WriteOutFields DEF FlushToDisk, FieldsOK,
     Pos, SectionInv
<1>15. CASE Advance(s) BY <1>15 DEF Advance, FieldsOK, Pos, SectionInv
<1>16. CASE LoopEnds(s) BY <1>16, WriteOutFields DEF LoopEnds, FieldsOK, Pos,
     SectionInv
<1>17. CASE WriteError(s) BY <1>17 DEF WriteError, FieldsOK, Pos, SectionInv
<1>18. CASE Finish(s) BY <1>18 DEF Finish, FieldsOK, Pos, SectionInv
<1>19. CASE ExitFlush(s) BY <1>19, WriteOutFields DEF ExitFlush, FieldsOK, Pos,
     SectionInv
<1>20. CASE Leave(s) BY <1>20 DEF Leave, LoadRunning, FieldsOK, Pos, SectionInv
<1>21. CASE ThreadBeginNoFile(s) BY <1>21 DEF ThreadBeginNoFile, FieldsOK, Pos,
     SectionInv
<1>22. CASE NoFileError(s) BY <1>22 DEF NoFileError, FieldsOK, Pos, SectionInv
<1>23. CASE CountOut(s) BY <1>23 DEF CountOut, StoreRunning, FieldsOK, Pos,
     SectionInv
<1> QED BY <1>1, <1>2, <1>3, <1>4, <1>5, <1>6, <1>7, <1>8, <1>9, <1>10, <1>11,
     <1>12, <1>13, <1>14, <1>15, <1>16, <1>17, <1>18, <1>19, <1>20, <1>21,
     <1>22, <1>23 DEF SectionThread

\* The control state keeps its types in every step of a section thread ...
LEMMA ThreadControl == ASSUME ControlOK, NEW s \in SectId, SectionThread(s)
  PROVE ControlOK'
<1>1. CASE ThreadBegin(s) BY <1>1, ActorsAssumption DEF ThreadBegin, ControlOK,
     SectPC, Actor, TailPC, SectionState
<1>2. CASE SectDownloadingReturn(s) BY <1>2, ActorsAssumption DEF
     SectDownloadingReturn, ControlOK, SectPC, Actor, TailPC, SectionState
<1>3. CASE StopInLoop(s) BY <1>3, ActorsAssumption DEF StopInLoop, ControlOK,
     SectPC, Actor, TailPC, SectionState
<1>4. CASE Read(s) BY <1>4, ActorsAssumption DEF Read, Lesser, ControlOK,
     SectPC, Actor, TailPC, SectionState
<1>5. CASE ReadError(s) BY <1>5, ActorsAssumption DEF ReadError, Lesser,
     ControlOK, SectPC, Actor, TailPC, SectionState
<1>6. CASE ReadStalled(s) BY <1>6, ActorsAssumption DEF ReadStalled, ControlOK,
     SectPC, Actor, TailPC, SectionState
<1>7. CASE AwaitOtherError(s) BY <1>7, ActorsAssumption DEF AwaitOtherError,
     ControlOK, SectPC, Actor, TailPC, SectionState
<1>8. CASE SetError(s) BY <1>8, ActorsAssumption DEF SetError, ControlOK,
     SectPC, Actor, TailPC, SectionState
<1>9. CASE ReopenGiveUp(s) BY <1>9, ActorsAssumption DEF ReopenGiveUp,
     ControlOK, SectPC, Actor, TailPC, SectionState
<1>10. CASE ReopenFails(s) BY <1>10, ActorsAssumption DEF ReopenFails,
     ControlOK, SectPC, Actor, TailPC, SectionState
<1>11. CASE ReopenNoRanges(s) BY <1>11, ActorsAssumption DEF ReopenNoRanges,
     ControlOK, SectPC, Actor, TailPC, SectionState
<1>12. CASE Reopened(s) BY <1>12, ActorsAssumption DEF Reopened, ControlOK,
     SectPC, Actor, TailPC, SectionState
<1>13. CASE FlushToCache(s) BY <1>13, ActorsAssumption DEF FlushToCache,
     Lesser, ControlOK, SectPC, Actor, TailPC, SectionState
<1>14. CASE FlushToDisk(s) BY <1>14, ActorsAssumption DEF FlushToDisk,
     WriteOut, ControlOK, SectPC, Actor, TailPC, SectionState
<1>15. CASE Advance(s) BY <1>15, ActorsAssumption DEF Advance, ControlOK,
     SectPC, Actor, TailPC, SectionState
<1>16. CASE LoopEnds(s) BY <1>16, ActorsAssumption DEF LoopEnds, WriteOut,
     ControlOK, SectPC, Actor, TailPC, SectionState
<1>17. CASE WriteError(s) BY <1>17, ActorsAssumption DEF WriteError, ControlOK,
     SectPC, Actor, TailPC, SectionState
<1>18. CASE Finish(s) BY <1>18, ActorsAssumption DEF Finish, ControlOK, SectPC,
     Actor, TailPC, SectionState
<1>19. CASE ExitFlush(s) BY <1>19, ActorsAssumption DEF ExitFlush, WriteOut,
     ControlOK, SectPC, Actor, TailPC, SectionState
<1>20. CASE Leave(s) BY <1>20, ActorsAssumption DEF Leave, LoadRunning,
     ControlOK, SectPC, Actor, TailPC, SectionState
<1>21. CASE ThreadBeginNoFile(s) BY <1>21, ActorsAssumption DEF
     ThreadBeginNoFile, ControlOK, SectPC, Actor, TailPC, SectionState
<1>22. CASE NoFileError(s) BY <1>22, ActorsAssumption DEF NoFileError,
     ControlOK, SectPC, Actor, TailPC, SectionState
<1>23. CASE CountOut(s) BY <1>23, ActorsAssumption DEF CountOut, StoreRunning,
     ControlOK, SectPC, Actor, TailPC, SectionState
<1> QED BY <1>1, <1>2, <1>3, <1>4, <1>5, <1>6, <1>7, <1>8, <1>9, <1>10, <1>11,
     <1>12, <1>13, <1>14, <1>15, <1>16, <1>17, <1>18, <1>19, <1>20, <1>21,
     <1>22, <1>23 DEF SectionThread

\* ... so do the flags ...
LEMMA ThreadFlags == ASSUME FlagsOK, NEW s \in SectId, SectionThread(s) PROVE
  FlagsOK'
<1>1. CASE ThreadBegin(s) BY <1>1 DEF ThreadBegin, FlagsOK
<1>2. CASE SectDownloadingReturn(s) BY <1>2 DEF SectDownloadingReturn, FlagsOK
<1>3. CASE StopInLoop(s) BY <1>3 DEF StopInLoop, FlagsOK
<1>4. CASE Read(s) BY <1>4 DEF Read, FlagsOK
<1>5. CASE ReadError(s) BY <1>5 DEF ReadError, FlagsOK
<1>6. CASE ReadStalled(s) BY <1>6 DEF ReadStalled, FlagsOK
<1>7. CASE AwaitOtherError(s) BY <1>7 DEF AwaitOtherError, FlagsOK
<1>8. CASE SetError(s) BY <1>8 DEF SetError, FlagsOK
<1>9. CASE ReopenGiveUp(s) BY <1>9 DEF ReopenGiveUp, FlagsOK
<1>10. CASE ReopenFails(s) BY <1>10 DEF ReopenFails, FlagsOK
<1>11. CASE ReopenNoRanges(s) BY <1>11 DEF ReopenNoRanges, FlagsOK
<1>12. CASE Reopened(s) BY <1>12 DEF Reopened, FlagsOK
<1>13. CASE FlushToCache(s) BY <1>13 DEF FlushToCache, FlagsOK
<1>14. CASE FlushToDisk(s) BY <1>14 DEF FlushToDisk, WriteOut, FlagsOK
<1>15. CASE Advance(s) BY <1>15 DEF Advance, FlagsOK
<1>16. CASE LoopEnds(s) BY <1>16 DEF LoopEnds, WriteOut, FlagsOK
<1>17. CASE WriteError(s) BY <1>17 DEF WriteError, FlagsOK
<1>18. CASE Finish(s) BY <1>18 DEF Finish, FlagsOK
<1>19. CASE ExitFlush(s) BY <1>19 DEF ExitFlush, WriteOut, FlagsOK
<1>20. CASE Leave(s) BY <1>20 DEF Leave, LoadRunning, FlagsOK
<1>21. CASE ThreadBeginNoFile(s) BY <1>21 DEF ThreadBeginNoFile, FlagsOK
<1>22. CASE NoFileError(s) BY <1>22 DEF NoFileError, FlagsOK
<1>23. CASE CountOut(s) BY <1>23 DEF CountOut, StoreRunning, FlagsOK
<1> QED BY <1>1, <1>2, <1>3, <1>4, <1>5, <1>6, <1>7, <1>8, <1>9, <1>10, <1>11,
     <1>12, <1>13, <1>14, <1>15, <1>16, <1>17, <1>18, <1>19, <1>20, <1>21,
     <1>22, <1>23 DEF SectionThread

\* ... and the counters.
LEMMA ThreadCounters == ASSUME CountersOK, NEW s \in SectId, SectionThread(s)
  PROVE CountersOK'
<1>1. CASE ThreadBegin(s) BY <1>1, SizesAssumption DEF ThreadBegin, CountersOK
<1>2. CASE SectDownloadingReturn(s) BY <1>2, SizesAssumption DEF
     SectDownloadingReturn, CountersOK
<1>3. CASE StopInLoop(s) BY <1>3, SizesAssumption DEF StopInLoop, CountersOK
<1>4. CASE Read(s) BY <1>4, SizesAssumption DEF Read, CountersOK
<1>5. CASE ReadError(s) BY <1>5, SizesAssumption DEF ReadError, CountersOK
<1>6. CASE ReadStalled(s) BY <1>6, SizesAssumption DEF ReadStalled, CountersOK
<1>7. CASE AwaitOtherError(s) BY <1>7, SizesAssumption DEF AwaitOtherError,
     CountersOK
<1>8. CASE SetError(s) BY <1>8, SizesAssumption DEF SetError, CountersOK
<1>9. CASE ReopenGiveUp(s) BY <1>9, SizesAssumption DEF ReopenGiveUp,
     CountersOK
<1>10. CASE ReopenFails(s) BY <1>10, SizesAssumption DEF ReopenFails,
     CountersOK
<1>11. CASE ReopenNoRanges(s) BY <1>11, SizesAssumption DEF ReopenNoRanges,
     CountersOK
<1>12. CASE Reopened(s) BY <1>12, SizesAssumption DEF Reopened, CountersOK
<1>13. CASE FlushToCache(s) BY <1>13, SizesAssumption DEF FlushToCache,
     CountersOK
<1>14. CASE FlushToDisk(s) BY <1>14, SizesAssumption DEF FlushToDisk, WriteOut,
     CountersOK
<1>15. CASE Advance(s) BY <1>15, SizesAssumption DEF Advance, CountersOK
<1>16. CASE LoopEnds(s) BY <1>16, SizesAssumption DEF LoopEnds, WriteOut,
     CountersOK
<1>17. CASE WriteError(s) BY <1>17, SizesAssumption DEF WriteError, CountersOK
<1>18. CASE Finish(s) BY <1>18, SizesAssumption DEF Finish, CountersOK
<1>19. CASE ExitFlush(s)
  <2>1. /\ UNCHANGED <<counts, cAttempts, startV>>
        /\ faults' \in {faults} \/ Fault
    BY <1>19 DEF ExitFlush, WriteOut
  <2> QED BY <2>1, SizesAssumption DEF CountersOK
<1>20. CASE Leave(s) BY <1>20, SizesAssumption DEF Leave, LoadRunning, Actor,
     CountersOK
<1>21. CASE ThreadBeginNoFile(s) BY <1>21, SizesAssumption DEF
     ThreadBeginNoFile, CountersOK
<1>22. CASE NoFileError(s) BY <1>22, SizesAssumption DEF NoFileError,
     CountersOK
<1>23. CASE CountOut(s)
  <2>1. s \in Actor /\ StoreRunning(s, -1) BY <1>23 DEF CountOut, Actor
  <2> QED BY <1>23, <2>1, StoreCounters DEF CountOut, CountersOK
<1> QED BY <1>1, <1>2, <1>3, <1>4, <1>5, <1>6, <1>7, <1>8, <1>9, <1>10, <1>11,
     <1>12, <1>13, <1>14, <1>15, <1>16, <1>17, <1>18, <1>19, <1>20, <1>21,
     <1>22, <1>23 DEF SectionThread

\* ... by CreateAdditionalSection ...
LEMMA AddFields == ASSUME ControlOK, FieldsOK, PlacesInv, NEW a \in Actor,
  AddInv(a), AddFixup(a) => SectionInv(add.target), AddSection(a) \/
  AddSteps(a) PROVE FieldsOK'
<1>1. CASE AddSection(a) BY <1>1 DEF AddSection, ControlOK, FieldsOK, AddInv,
     AddPC
<1>2. CASE AddLock(a) BY <1>2 DEF AddLock, ControlOK, FieldsOK, AddInv, AddPC
<1>3. CASE AddRefused(a) BY <1>3 DEF AddRefused, AddReturn, ControlOK,
     FieldsOK, AddInv, AddPC
<1>4. CASE AddChoose(a) BY <1>4 DEF AddChoose, ControlOK, FieldsOK, AddInv,
     AddPC
<1>5. CASE AddNoCandidate(a) BY <1>5 DEF AddNoCandidate, AddReturn, ControlOK,
     FieldsOK, AddInv, AddPC
<1>6. CASE AddPoint(a) BY <1>6 DEF AddPoint, SplitPoint, ControlOK, FieldsOK,
     AddInv, AddPC
<1>7. CASE AddTooSmall(a) BY <1>7 DEF AddTooSmall, AddAbort, AddReturn,
     ControlOK, FieldsOK, AddInv, AddPC
<1>8. CASE AddOpen(a) BY <1>8 DEF AddOpen, ControlOK, FieldsOK, AddInv, AddPC
<1>9. CASE AddOpenFails(a) BY <1>9 DEF AddOpenFails, AddAbort, AddReturn,
     ControlOK, FieldsOK, AddInv, AddPC
<1>10. CASE AddOpenNoRanges(a) BY <1>10 DEF AddOpenNoRanges, AddReturn,
     ControlOK, FieldsOK, AddInv, AddPC
<1>11. CASE AddRecheck(a) BY <1>11 DEF AddRecheck, ControlOK, FieldsOK, AddInv,
     AddPC
<1>12. CASE AddTooLate(a) BY <1>12 DEF AddTooLate, AddAbort, AddReturn,
     ControlOK, FieldsOK, AddInv, AddPC
<1>13. CASE AddShrink(a) BY <1>13, AddShrinkFields
<1>14. CASE AddInsert(a) BY <1>14, AddInsertFields
<1>15. CASE AddStart(a)
  BY <1>15 DEF AddStart, CountLast, LoadRunning, ControlOK, FieldsOK,
     AddInv, AddPC
<1>16. CASE AddFixup(a) BY <1>16, AddFixupFields
<1>17. CASE AddLaunch(a) BY <1>17 DEF AddLaunch, LaunchLast, StoreRunning,
     ControlOK, FieldsOK, AddInv, AddPC
<1> QED BY <1>1, <1>2, <1>3, <1>4, <1>5, <1>6, <1>7, <1>8, <1>9, <1>10, <1>11,
     <1>12, <1>13, <1>14, <1>15, <1>16, <1>17 DEF AddSteps

\* CreateAdditionalSection keeps the types of the control state ...
LEMMA AddControl == ASSUME ControlOK, FieldsOK, NEW a \in Actor, AddInv(a),
  AddSection(a) \/ AddSteps(a) PROVE ControlOK'
<1>1. CASE AddSection(a) BY <1>1, ActorsAssumption, SizesAssumption DEF
     AddSection, MayCallAddSection, ControlOK, AddPC, Actor, SectPC,
     SectionState, FieldsOK, AddInv, SectId, NoAdd
<1>2. CASE AddLock(a) BY <1>2, ActorsAssumption, SizesAssumption DEF AddLock,
     ControlOK, AddPC, Actor, SectPC, SectionState, FieldsOK, AddInv, SectId,
     NoAdd
<1>3. CASE AddRefused(a) BY <1>3, AddReturnControl DEF AddRefused, AddAbort
<1>4. CASE AddChoose(a) BY <1>4, AddChooseControl
<1>5. CASE AddNoCandidate(a)
  BY <1>5, AddReturnControl DEF AddNoCandidate, AddAbort
<1>6. CASE AddPoint(a) BY <1>6, AddPointControl
<1>7. CASE AddTooSmall(a) BY <1>7, AddReturnControl DEF AddTooSmall, AddAbort
<1>8. CASE AddOpen(a) BY <1>8, ActorsAssumption, SizesAssumption DEF AddOpen,
     ControlOK, AddPC, Actor, SectPC, SectionState, FieldsOK, AddInv, SectId,
     NoAdd
<1>9. CASE AddOpenFails(a) BY <1>9, AddReturnControl DEF AddOpenFails, AddAbort
<1>10. CASE AddOpenNoRanges(a)
  BY <1>10, AddReturnControl DEF AddOpenNoRanges, AddAbort
<1>11. CASE AddRecheck(a) BY <1>11, ActorsAssumption, SizesAssumption DEF
     AddRecheck, ControlOK, AddPC, Actor, SectPC, SectionState, FieldsOK,
     AddInv, SectId, NoAdd
<1>12. CASE AddTooLate(a) BY <1>12, AddReturnControl DEF AddTooLate, AddAbort
<1>13. CASE AddShrink(a) BY <1>13, ActorsAssumption, SizesAssumption DEF
     AddShrink, ControlOK, AddPC, Actor, SectPC, SectionState, FieldsOK,
     AddInv, SectId, NoAdd
<1>14. CASE AddInsert(a) BY <1>14, ActorsAssumption, SizesAssumption DEF
     AddInsert, Append, ControlOK, AddPC, Actor, SectPC, SectionState,
     FieldsOK, AddInv, SectId, NoAdd
<1>15. CASE AddStart(a) BY <1>15, ActorsAssumption, SizesAssumption DEF
     AddStart, CountLast, LoadRunning, ControlOK, AddPC, Actor, SectPC, SectionState,
     FieldsOK, AddInv, SectId, NoAdd
<1>16. CASE AddFixup(a) BY <1>16, AddReturnControl DEF AddFixup, AddAbort
<1>17. CASE AddLaunch(a) BY <1>17, ActorsAssumption, SizesAssumption DEF
     AddLaunch, LaunchLast, StoreRunning, ControlOK, AddPC, Actor, SectPC,
     SectionState, FieldsOK, AddInv, SectId, NoAdd
<1> QED BY <1>1, <1>2, <1>3, <1>4, <1>5, <1>6, <1>7, <1>8, <1>9, <1>10, <1>11,
     <1>12, <1>13, <1>14, <1>15, <1>16, <1>17 DEF AddSteps

\* ... of the flags ...
LEMMA AddFlags == ASSUME FlagsOK, NEW a \in Actor, AddSection(a) \/ AddSteps(a)
  PROVE FlagsOK'
<1>1. CASE AddSection(a) BY <1>1 DEF AddSection, FlagsOK
<1>2. CASE AddLock(a) BY <1>2 DEF AddLock, FlagsOK
<1>3. CASE AddRefused(a) BY <1>3 DEF AddRefused, AddReturn, FlagsOK
<1>4. CASE AddChoose(a) BY <1>4 DEF AddChoose, FlagsOK
<1>5. CASE AddNoCandidate(a) BY <1>5 DEF AddNoCandidate, AddReturn, FlagsOK
<1>6. CASE AddPoint(a) BY <1>6 DEF AddPoint, SplitPoint, FlagsOK
<1>7. CASE AddTooSmall(a) BY <1>7 DEF AddTooSmall, AddAbort, AddReturn, FlagsOK
<1>8. CASE AddOpen(a) BY <1>8 DEF AddOpen, FlagsOK
<1>9. CASE AddOpenFails(a) BY <1>9 DEF AddOpenFails, AddAbort, AddReturn,
     FlagsOK
<1>10. CASE AddOpenNoRanges(a) BY <1>10 DEF AddOpenNoRanges, AddReturn, FlagsOK
<1>11. CASE AddRecheck(a) BY <1>11 DEF AddRecheck, FlagsOK
<1>12. CASE AddTooLate(a) BY <1>12 DEF AddTooLate, AddAbort, AddReturn, FlagsOK
<1>13. CASE AddShrink(a) BY <1>13 DEF AddShrink, FlagsOK
<1>14. CASE AddInsert(a) BY <1>14 DEF AddInsert, Append, FlagsOK
<1>15. CASE AddStart(a) BY <1>15 DEF AddStart, CountLast, LoadRunning, FlagsOK
<1>16. CASE AddFixup(a) BY <1>16 DEF AddFixup, AddReturn, FlagsOK
<1>17. CASE AddLaunch(a) BY <1>17 DEF AddLaunch, LaunchLast, StoreRunning,
     FlagsOK
<1> QED BY <1>1, <1>2, <1>3, <1>4, <1>5, <1>6, <1>7, <1>8, <1>9, <1>10, <1>11,
     <1>12, <1>13, <1>14, <1>15, <1>16, <1>17 DEF AddSteps

\* ... and of the counters.
LEMMA AddCounters == ASSUME CountersOK, NEW a \in Actor, AddSection(a) \/
  AddSteps(a) PROVE CountersOK'
<1>1. CASE AddSection(a) BY <1>1 DEF AddSection, CountersOK
<1>2. CASE AddLock(a) BY <1>2 DEF AddLock, CountersOK
<1>3. CASE AddRefused(a) BY <1>3 DEF AddRefused, AddReturn, CountersOK
<1>4. CASE AddChoose(a) BY <1>4 DEF AddChoose, CountersOK
<1>5. CASE AddNoCandidate(a) BY <1>5 DEF AddNoCandidate, AddReturn, CountersOK
<1>6. CASE AddPoint(a) BY <1>6 DEF AddPoint, SplitPoint, CountersOK
<1>7. CASE AddTooSmall(a) BY <1>7 DEF AddTooSmall, AddAbort, AddReturn,
     CountersOK
<1>8. CASE AddOpen(a) BY <1>8 DEF AddOpen, CountersOK
<1>9. CASE AddOpenFails(a) BY <1>9 DEF AddOpenFails, AddAbort, AddReturn,
     CountersOK
<1>10. CASE AddOpenNoRanges(a) BY <1>10 DEF AddOpenNoRanges, AddReturn,
     CountersOK
<1>11. CASE AddRecheck(a) BY <1>11 DEF AddRecheck, CountersOK
<1>12. CASE AddTooLate(a) BY <1>12 DEF AddTooLate, AddAbort, AddReturn,
     CountersOK
<1>13. CASE AddShrink(a) BY <1>13 DEF AddShrink, CountersOK
<1>14. CASE AddInsert(a) BY <1>14 DEF AddInsert, Append, CountersOK
<1>15. CASE AddStart(a) BY <1>15 DEF AddStart, CountLast, LoadRunning, CountersOK
<1>16. CASE AddFixup(a) BY <1>16 DEF AddFixup, AddReturn, CountersOK
<1>17. CASE AddLaunch(a)
  <2>1. StoreRunning(a, 1) BY <1>17 DEF AddLaunch, LaunchLast
  <2> QED BY <1>17, <2>1, StoreCounters DEF AddLaunch, CountersOK
<1> QED BY <1>1, <1>2, <1>3, <1>4, <1>5, <1>6, <1>7, <1>8, <1>9, <1>10, <1>11,
     <1>12, <1>13, <1>14, <1>15, <1>16, <1>17 DEF AddSteps

\* ... and by the owner's calls.
LEMMA OwnerFields == ASSUME FieldsOK, PlacesInv, OwnerCalls PROVE FieldsOK'
<1>1. CASE MainBegin BY <1>1, SizesAssumption DEF MainBegin, FieldsOK,
     PlacesInv
<1>2. CASE MainRefused BY <1>2, SizesAssumption DEF MainRefused, FieldsOK,
     PlacesInv
<1>3. CASE MainOpened BY <1>3, MainOpenedFields
<1>4. CASE MainFails BY <1>4, SizesAssumption DEF MainFails, FieldsOK,
     PlacesInv
<1>5. CASE MainStart BY <1>5, SizesAssumption DEF MainStart, CountLast, LoadRunning,
     FieldsOK, PlacesInv
<1>6. CASE MainNotInitialized BY <1>6, SizesAssumption DEF MainNotInitialized,
     FieldsOK, PlacesInv
<1>7. CASE StopDownloading BY <1>7, SizesAssumption DEF StopDownloading,
     FieldsOK, PlacesInv
<1>8. CASE StartBegin BY <1>8, SizesAssumption DEF StartBegin, IsRunning,
     IsDone, FieldsOK, PlacesInv
<1>9. CASE StartSkip BY <1>9, SizesAssumption DEF StartSkip, FieldsOK,
     PlacesInv
<1>10. CASE StartSection BY <1>10, SizesAssumption DEF StartSection, FieldsOK,
     PlacesInv
<1>11. CASE StartOpened BY <1>11, SizesAssumption DEF StartOpened, FieldsOK,
     PlacesInv
<1>12. CASE StartNoFile BY <1>12, SizesAssumption DEF StartNoFile, FieldsOK,
     PlacesInv
<1>13. CASE StartOpenFails BY <1>13, SizesAssumption DEF StartOpenFails,
     FieldsOK, PlacesInv
<1>14. CASE StartNoRanges BY <1>14, SizesAssumption DEF StartNoRanges,
     FieldsOK, PlacesInv
<1>15. CASE StartClear BY <1>15, SizesAssumption DEF StartClear, IsRunning,
     FieldsOK, PlacesInv
<1>16. CASE StartLaunch BY <1>16, SizesAssumption DEF StartLaunch, LoadRunning,
     FieldsOK, PlacesInv
<1>17. CASE StartEnd BY <1>17, SizesAssumption DEF StartEnd, FieldsOK,
     PlacesInv
<1>18. CASE MainLaunch BY <1>18, SizesAssumption DEF MainLaunch, LaunchLast,
     StoreRunning, FieldsOK, PlacesInv
<1>19. CASE StartCount BY <1>19, SizesAssumption DEF StartCount, StoreRunning,
     FieldsOK, PlacesInv
<1>20. CASE LaunchOneMoreSection BY <1>20, SizesAssumption DEF
     LaunchOneMoreSection, LoadRunning, FieldsOK, PlacesInv
<1>21. CASE OneLaunch BY <1>21, SizesAssumption DEF OneLaunch, StoreRunning,
     FieldsOK, PlacesInv
<1> QED BY <1>1, <1>2, <1>3, <1>4, <1>5, <1>6, <1>7, <1>8, <1>9, <1>10, <1>11,
     <1>12, <1>13, <1>14, <1>15, <1>16, <1>17, <1>18, <1>19, <1>20, <1>21 DEF
     OwnerCalls, OwnerSteps

\* The calls of the owner keep the types of the control state ...
LEMMA OwnerControl == ASSUME ControlOK, FieldsOK, PlacesInv, OwnerCalls
  PROVE ControlOK'
<1>1. CASE MainBegin BY <1>1, OwnerFrame, OwnerStepControl DEF OwnerQuiet
<1>2. CASE MainRefused BY <1>2, OwnerFrame, OwnerStepControl DEF OwnerQuiet
<1>3. CASE MainOpened BY <1>3, SizesAssumption, ActorsAssumption DEF
     MainOpened, Append, ControlOK, PlacesInv, FieldsOK, OwnerPC,
     SectPC, SectionState, SectId, Actor
<1>4. CASE MainFails BY <1>4, OwnerFrame, OwnerStepControl DEF OwnerQuiet
<1>5. CASE MainStart BY <1>5, OwnerFrame, OwnerStepControl DEF OwnerQuiet
<1>6. CASE MainNotInitialized
  BY <1>6, OwnerFrame, OwnerStepControl DEF OwnerQuiet
<1>7. CASE StopDownloading BY <1>7, OwnerFrame, OwnerStepControl DEF OwnerQuiet
<1>8. CASE StartBegin BY <1>8, OwnerFrame, OwnerStepControl DEF OwnerQuiet
<1>9. CASE StartSkip BY <1>9, OwnerFrame, OwnerStepControl DEF OwnerQuiet
<1>10. CASE StartSection BY <1>10, OwnerFrame, OwnerStepControl DEF OwnerQuiet
<1>11. CASE StartOpened BY <1>11, OwnerFrame, OwnerStepControl DEF OwnerQuiet
<1>12. CASE StartNoFile BY <1>12, OwnerFrame, OwnerStepControl DEF OwnerQuiet
<1>13. CASE StartOpenFails BY <1>13, OwnerFrame, OwnerStepControl DEF OwnerQuiet
<1>14. CASE StartNoRanges BY <1>14, OwnerFrame, OwnerStepControl DEF OwnerQuiet
<1>15. CASE StartClear BY <1>15, SizesAssumption, ActorsAssumption DEF
     StartClear, IsRunning, ControlOK, PlacesInv, FieldsOK, OwnerPC,
     SectPC, SectionState, SectId, Actor
<1>16. CASE StartLaunch BY <1>16, OwnerFrame, OwnerStepControl DEF OwnerQuiet
<1>17. CASE StartEnd BY <1>17, OwnerFrame, OwnerStepControl DEF OwnerQuiet
<1>18. CASE MainLaunch BY <1>18, SizesAssumption, ActorsAssumption DEF
     MainLaunch, LaunchLast, ControlOK, PlacesInv, FieldsOK, OwnerPC, SectPC,
     SectionState, SectId, Actor
<1>19. CASE StartCount BY <1>19, SizesAssumption, ActorsAssumption DEF
     StartCount, ControlOK, PlacesInv, FieldsOK, OwnerPC, SectPC, SectionState,
     SectId, Actor
<1>20. CASE LaunchOneMoreSection BY <1>20, OwnerFrame, OwnerStepControl DEF
     OwnerQuiet
<1>21. CASE OneLaunch BY <1>21, SizesAssumption, ActorsAssumption DEF
     OneLaunch, ControlOK, PlacesInv, FieldsOK, OwnerPC, SectPC, SectionState,
     SectId, Actor
<1> QED BY <1>1, <1>2, <1>3, <1>4, <1>5, <1>6, <1>7, <1>8, <1>9, <1>10, <1>11,
     <1>12, <1>13, <1>14, <1>15, <1>16, <1>17, <1>18, <1>19, <1>20, <1>21 DEF
     OwnerCalls, OwnerSteps

\* ... of the flags ...
LEMMA OwnerFlags == ASSUME FlagsOK, OwnerCalls PROVE FlagsOK'
<1>1. CASE MainBegin BY <1>1 DEF MainBegin, FlagsOK
<1>2. CASE MainRefused BY <1>2 DEF MainRefused, FlagsOK
<1>3. CASE MainOpened BY <1>3 DEF MainOpened, Append, FlagsOK
<1>4. CASE MainFails BY <1>4 DEF MainFails, FlagsOK
<1>5. CASE MainStart BY <1>5 DEF MainStart, CountLast, LoadRunning, FlagsOK
<1>6. CASE MainNotInitialized BY <1>6 DEF MainNotInitialized, FlagsOK
<1>7. CASE StopDownloading BY <1>7 DEF StopDownloading, FlagsOK
<1>8. CASE StartBegin BY <1>8 DEF StartBegin, IsRunning, IsDone, FlagsOK
<1>9. CASE StartSkip BY <1>9 DEF StartSkip, FlagsOK
<1>10. CASE StartSection BY <1>10 DEF StartSection, FlagsOK
<1>11. CASE StartOpened BY <1>11 DEF StartOpened, FlagsOK
<1>12. CASE StartNoFile BY <1>12 DEF StartNoFile, FlagsOK
<1>13. CASE StartOpenFails BY <1>13 DEF StartOpenFails, FlagsOK
<1>14. CASE StartNoRanges BY <1>14 DEF StartNoRanges, FlagsOK
<1>15. CASE StartClear BY <1>15 DEF StartClear, IsRunning, FlagsOK
<1>16. CASE StartLaunch BY <1>16 DEF StartLaunch, LoadRunning, FlagsOK
<1>17. CASE StartEnd BY <1>17 DEF StartEnd, FlagsOK
<1>18. CASE MainLaunch BY <1>18 DEF MainLaunch, LaunchLast, StoreRunning,
     FlagsOK
<1>19. CASE StartCount BY <1>19 DEF StartCount, StoreRunning, FlagsOK
<1>20. CASE LaunchOneMoreSection BY <1>20 DEF LaunchOneMoreSection,
     LoadRunning, FlagsOK
<1>21. CASE OneLaunch BY <1>21 DEF OneLaunch, StoreRunning, FlagsOK
<1> QED BY <1>1, <1>2, <1>3, <1>4, <1>5, <1>6, <1>7, <1>8, <1>9, <1>10, <1>11,
     <1>12, <1>13, <1>14, <1>15, <1>16, <1>17, <1>18, <1>19, <1>20, <1>21 DEF
     OwnerCalls, OwnerSteps

\* ... and of the counters.
LEMMA OwnerCounters == ASSUME ~Ended, CountersOK, FieldsOK, StartInv,
  OwnerCalls PROVE CountersOK'
<1>1. CASE MainBegin BY <1>1, SizesAssumption, ActorsAssumption DEF MainBegin,
     CountersOK, FieldsOK, StartInv
<1>2. CASE MainRefused BY <1>2, SizesAssumption, ActorsAssumption DEF
     MainRefused, CountersOK, FieldsOK, StartInv
<1>3. CASE MainOpened BY <1>3, SizesAssumption, ActorsAssumption DEF
     MainOpened, Append, CountersOK, FieldsOK, StartInv
<1>4. CASE MainFails BY <1>4, SizesAssumption, ActorsAssumption DEF MainFails,
     CountersOK, FieldsOK, StartInv
<1>5. CASE MainStart
  BY <1>5, LoadCounters DEF MainStart, CountLast, CountersOK
<1>6. CASE MainNotInitialized BY <1>6, SizesAssumption, ActorsAssumption DEF
     MainNotInitialized, CountersOK, FieldsOK, StartInv
<1>7. CASE StopDownloading BY <1>7, SizesAssumption, ActorsAssumption DEF
     StopDownloading, CountersOK, FieldsOK, StartInv
<1>8. CASE StartBegin
  <2>1. odd' \subseteq {"lost", "blind", "twice"}
    BY <1>8 DEF StartBegin, CountersOK
  <2> QED BY <1>8, <2>1, SizesAssumption DEF StartBegin, CountersOK
<1>9. CASE StartSkip BY <1>9, SizesAssumption, ActorsAssumption DEF StartSkip,
     CountersOK, FieldsOK, StartInv
<1>10. CASE StartSection BY <1>10, SizesAssumption, ActorsAssumption DEF
     StartSection, CountersOK, FieldsOK, StartInv
<1>11. CASE StartOpened BY <1>11, SizesAssumption, ActorsAssumption DEF
     StartOpened, CountersOK, FieldsOK, StartInv
<1>12. CASE StartNoFile BY <1>12, SizesAssumption, ActorsAssumption DEF
     StartNoFile, CountersOK, FieldsOK, StartInv
<1>13. CASE StartOpenFails BY <1>13, SizesAssumption, ActorsAssumption DEF
     StartOpenFails, CountersOK, FieldsOK, StartInv
<1>14. CASE StartNoRanges BY <1>14, SizesAssumption, ActorsAssumption DEF
     StartNoRanges, CountersOK, FieldsOK, StartInv
<1>15. CASE StartClear BY <1>15, SizesAssumption, ActorsAssumption DEF
     StartClear, IsRunning, CountersOK, FieldsOK, StartInv
<1>16. CASE StartLaunch BY <1>16, LoadCounters DEF StartLaunch, CountersOK
<1>17. CASE StartEnd BY <1>17, SizesAssumption, ActorsAssumption DEF StartEnd,
     CountersOK, FieldsOK, StartInv
<1>18. CASE MainLaunch
  <2>1. Owner \in Actor /\ StoreRunning(Owner, 1)
    BY <1>18 DEF MainLaunch, LaunchLast, Actor
  <2> QED BY <1>18, <2>1, StoreCounters DEF MainLaunch, CountersOK
<1>19. CASE StartCount
  <2>1. Owner \in Actor /\ StoreRunning(Owner, 1)
    BY <1>19 DEF StartCount, Actor
  <2>2. iStart' \in 1..(MaxSections + 1)
    BY <1>19, SizesAssumption DEF StartCount, StartInv, FieldsOK, CountersOK
  <2> QED BY <1>19, <2>1, <2>2, StoreCounters DEF StartCount, CountersOK
<1>20. CASE LaunchOneMoreSection
  <2>1. iStart' \in 1..(MaxSections + 1)
    BY <1>20, SizesAssumption DEF LaunchOneMoreSection, FieldsOK
  <2>2. odd' \subseteq {"lost", "blind", "twice"}
    BY <1>20 DEF LaunchOneMoreSection, CountersOK
  <2>3. LoadRunning(Owner) /\ starts' \in 0..MaxStarts
    BY <1>20, SizesAssumption DEF LaunchOneMoreSection, CountersOK
  <2> QED BY <1>20, <2>1, <2>2, <2>3, LoadCounters
          DEF LaunchOneMoreSection, CountersOK
<1>21. CASE OneLaunch
  <2>1. Owner \in Actor /\ StoreRunning(Owner, 1)
    BY <1>21 DEF OneLaunch, Actor
  <2> QED BY <1>21, <2>1, StoreCounters DEF OneLaunch, CountersOK
<1> QED BY <1>1, <1>2, <1>3, <1>4, <1>5, <1>6, <1>7, <1>8, <1>9, <1>10, <1>11,
     <1>12, <1>13, <1>14, <1>15, <1>16, <1>17, <1>18, <1>19, <1>20, <1>21 DEF
     OwnerCalls, OwnerSteps

-----------------------------------------------------------------------------
(* PlacesInv.                                                              *)

\* A section thread stays in its own code and never takes m_csAddSection directly.
LEMMA ThreadPlaces ==
  ASSUME ControlOK, PlacesInv, NEW s \in SectId, ThreadStep(s) PROVE PlacesInv'
BY ActorsAssumption DEF ThreadStep, ControlOK, PlacesInv, Actor, AddPC, SectPC,
   TailPC

\* So does the thread inside m_csDone.
LEMMA TailPlaces == ASSUME ControlOK, PlacesInv, TailThread PROVE PlacesInv'
BY ActorsAssumption DEF TailThread, TailReturn, TailEnd, ControlOK, PlacesInv,
   Actor, AddPC, TailPC

\* The quiet steps of CreateAdditionalSection take and release m_csAddSection properly.
LEMMA AddPlaces ==
  ASSUME ControlOK, PlacesInv, NEW a \in Actor, AddStep(a) PROVE PlacesInv'
BY ActorsAssumption DEF AddStep, ControlOK, PlacesInv, Actor, AddPC, SectPC,
   TailPC, OwnerPC, After

\* So do the quiet steps of the owner.
LEMMA OwnerPlaces == ASSUME ControlOK, PlacesInv, OwnerStep PROVE PlacesInv'
BY ActorsAssumption DEF OwnerStep, ControlOK, PlacesInv, Actor, AddPC, OwnerPC,
   MainPC

\* A launch moves the launching actor on and starts the thread.
LEMMA LaunchPlaces ==
  ASSUME ControlOK, PlacesInv, NEW a, NEW t, NEW b, NEW l, LaunchStep(a, t, b, l)
  PROVE  PlacesInv'
<1>1. /\ t \in SectId /\ pc'[t] \in Launched /\ a \in Actor
      /\ \A x \in Actor \ {t, a} : pc'[x] = pc[x]
      /\ \/ pc[a] = "add_launch" /\ pc'[a] = "add_fixup" /\ csAdd' = csAdd
         \/ a = Owner /\ pc[a] = "main_launch" /\ pc'[a] = "idle" /\ csAdd' = None
         \/ /\ a = Owner /\ pc[a] = "start_count" /\ pc'[a] = "start_loop"
            /\ csAdd' = csAdd
         \/ a = Owner /\ pc[a] = "one_launch" /\ pc'[a] = "idle" /\ csAdd' = csAdd
      /\ n' = n
  BY ActorsAssumption DEF LaunchStep, ControlOK, Actor
<1> QED
  BY <1>1, ActorsAssumption DEF PlacesInv, Actor, AddPC, OwnerPC, SectPC,
     TailPC, Launched

\* Cutting, appending and fixing up happen under m_csAddSection.
LEMMA AddListPlaces ==
  ASSUME TypeOK, PlacesInv, NEW a \in Actor,
         AddShrink(a) \/ AddInsert(a) \/ AddFixup(a)
  PROVE  PlacesInv'
<1>1. CASE AddShrink(a)
  BY <1>1, ActorsAssumption DEF AddShrink, PlacesInv, TypeOK, ControlOK, Actor,
     AddPC, SectPC, TailPC, OwnerPC
<1>2. CASE AddInsert(a)
  BY <1>2, ActorsAssumption DEF AddInsert, Append, PlacesInv, TypeOK, ControlOK,
     FieldsOK, Actor, AddPC, SectPC, TailPC, OwnerPC
<1>3. CASE AddFixup(a)
  BY <1>3, ActorsAssumption DEF AddFixup, AddReturn, After, PlacesInv, TypeOK,
     ControlOK, Actor, AddPC, SectPC, TailPC, OwnerPC
<1> QED BY <1>1, <1>2, <1>3

\* The owner creates and clears the list within its own calls.
LEMMA OwnerListPlaces ==
  ASSUME TypeOK, PlacesInv, MainOpened \/ StartClear PROVE PlacesInv'
<1>1. CASE MainOpened
  BY <1>1, ActorsAssumption DEF MainOpened, Append, PlacesInv, TypeOK,
     ControlOK,
     FieldsOK, Actor, AddPC, OwnerPC
<1>2. CASE StartClear
  BY <1>2, ActorsAssumption DEF StartClear, PlacesInv, TypeOK, ControlOK, Actor,
     AddPC, OwnerPC
<1> QED BY <1>1, <1>2
-----------------------------------------------------------------------------
(* ThreadInv and SectionInv.                                               *)

\* A flush keeps SectionInv: what it wrote is what the advance will claim.
LEMMA WriteOutSection ==
  ASSUME FieldsOK, ControlOK, NEW s \in SectId, ThreadInv(s), SectionInv(s),
         s <= n,
         NEW l, \/ l = "advance" /\ state[s] # "DONE"
                \/ /\ l = "last_advance" /\ state[s] # "DONE"
                   /\ uEnd[s] <= Pos(s) /\ buf[s] = 0
                \/ l = "exit_advance" /\ state[s] # "DOWNLOADING" /\ buf[s] = 0,
         WriteOut(s, l)
  PROVE  ThreadInv(s)' /\ SectionInv(s)'
<1>1. /\ uCurrent[s] \in Nat /\ dwCacheLen[s] \in Nat /\ buf[s] \in Nat
      /\ uEnd[s] \in Nat /\ uStart[s] \in Nat
  BY SizesAssumption DEF FieldsOK
<1>2. /\ uCurrent'[s] = uCurrent[s] /\ dwCacheLen'[s] = 0 /\ pc'[s] = l
      /\ buf'[s] = dwCacheLen[s] + buf[s] /\ uEnd' = uEnd /\ uStart' = uStart
      /\ state' = state /\ n' = n
      /\ written' = written \cup (uCurrent[s]..(Pos(s) + buf[s] - 1))
  BY DEF WriteOut, FieldsOK, ControlOK, Actor
<1>3. ThreadInv(s)' BY <1>2 DEF ThreadInv
<1>4. Pos(s)' + buf'[s] = Pos(s) + buf[s] BY <1>1, <1>2 DEF Pos
<1>5. uCurrent[s]..(uCurrent[s] + buf'[s] - 1) \subseteq written'
  BY <1>1, <1>2 DEF Pos
<1>6. l = "last_advance" => uEnd[s] <= uCurrent[s] + buf'[s]
  BY <1>1, <1>2 DEF Pos
<1>7. SectionInv(s)' BY <1>1, <1>2, <1>4, <1>5, <1>6 DEF SectionInv
<1> QED BY <1>3, <1>7

\* What a thread does to its own section.
LEMMA ThreadSection == ASSUME FieldsOK, ControlOK, NEW s \in SectId,
  ThreadInv(s), SectionInv(s), SectionThread(s) PROVE ThreadInv(s)' /\
  SectionInv(s)'
<1>0. /\ uCurrent[s] \in Nat /\ dwCacheLen[s] \in Nat /\ buf[s] \in Nat
      /\ uEnd[s] \in Nat /\ uStart[s] \in Nat /\ uEnd[s] <= FileSize
      /\ FileSize \in Nat /\ n \in Nat
  BY SizesAssumption DEF FieldsOK
<1>1. CASE ThreadBegin(s)
  <2>1. /\ uStart' = uStart /\ uEnd' = uEnd /\ n' = n
        /\ uCurrent' = uCurrent /\ dwCacheLen'[s] = 0 /\ buf' = buf
        /\ written' = written
        /\ \/ pc'[s] = "exit" /\ state'[s] = "STOPPED"
           \/ pc'[s] = "downloading" /\ state'[s] = "DOWNLOADING"
    BY <1>1, ActorsAssumption DEF ThreadBegin, FieldsOK, ControlOK, Actor
  <2> QED BY <1>0, <1>1, <2>1 DEF ThreadBegin, ThreadInv, SectionInv, Pos
<1>2. CASE SectDownloadingReturn(s) BY <1>2, ActorsAssumption DEF
     SectDownloadingReturn, FieldsOK, ControlOK, Actor, ThreadInv, SectionInv,
     Pos
<1>3. CASE StopInLoop(s) BY <1>3, ActorsAssumption DEF StopInLoop, FieldsOK,
     ControlOK, Actor, ThreadInv, SectionInv, Pos
<1>4. CASE Read(s)
  <2>1. /\ uStart' = uStart /\ uEnd' = uEnd /\ n' = n
        /\ uCurrent' = uCurrent /\ dwCacheLen' = dwCacheLen /\ state' = state
        /\ written' = written /\ pc'[s] = "flush"
        /\ \E k \in 1..Lesser(MaxRead, uEnd[s] - Pos(s)) : buf'[s] = k
    BY <1>4, ActorsAssumption DEF Read, FieldsOK, ControlOK, Actor
  <2> QED
    BY <1>0, <1>4, <2>1, SizesAssumption DEF Read, ThreadInv, SectionInv, Pos,
       Lesser
<1>5. CASE ReadError(s)
  <2>1. /\ uStart' = uStart /\ uEnd' = uEnd /\ n' = n
        /\ buf' = buf /\ written' = written
        /\ \/ pc'[s] = "exit" /\ state'[s] = "STOPPED"
           \/ pc'[s] = "error" /\ state'[s] = "ERROR"
        /\ \E dw \in 0..Lesser(RollBack, Pos(s) - uStart[s]) :
             /\ dwCacheLen'[s] = dwCacheLen[s] - Lesser(dw, dwCacheLen[s])
             /\ uCurrent'[s] = uCurrent[s] - (dw - Lesser(dw, dwCacheLen[s]))
    BY <1>5, ActorsAssumption DEF ReadError, FieldsOK, ControlOK, Actor
  <2> QED
    BY <1>0, <1>5, <2>1, SizesAssumption DEF ReadError, ThreadInv, SectionInv,
       Pos, Lesser
<1>6. CASE ReadStalled(s) BY <1>6, ActorsAssumption DEF ReadStalled, FieldsOK,
     ControlOK, Actor, ThreadInv, SectionInv, Pos
<1>7. CASE AwaitOtherError(s) BY <1>7, ActorsAssumption DEF AwaitOtherError,
     FieldsOK, ControlOK, Actor, ThreadInv, SectionInv, Pos
<1>8. CASE SetError(s) BY <1>8, ActorsAssumption DEF SetError, FieldsOK,
     ControlOK, Actor, ThreadInv, SectionInv, Pos
<1>9. CASE ReopenGiveUp(s) BY <1>9, ActorsAssumption DEF ReopenGiveUp,
     FieldsOK, ControlOK, Actor, ThreadInv, SectionInv, Pos
<1>10. CASE ReopenFails(s) BY <1>10, ActorsAssumption DEF ReopenFails,
     FieldsOK, ControlOK, Actor, ThreadInv, SectionInv, Pos
<1>11. CASE ReopenNoRanges(s) BY <1>11, ActorsAssumption DEF ReopenNoRanges,
     FieldsOK, ControlOK, Actor, ThreadInv, SectionInv, Pos
<1>12. CASE Reopened(s) BY <1>12, ActorsAssumption DEF Reopened, FieldsOK,
     ControlOK, Actor, ThreadInv, SectionInv, Pos
<1>13. CASE FlushToCache(s) BY <1>13, ActorsAssumption DEF FlushToCache,
     Lesser, FieldsOK, ControlOK, Actor, ThreadInv, SectionInv, Pos
<1>14. CASE FlushToDisk(s)
  BY <1>14, WriteOutSection DEF FlushToDisk, FieldsOK, ControlOK, ThreadInv,
     SectionInv, Actor, Pos
<1>15. CASE Advance(s)
  <2>1. /\ uStart' = uStart /\ uEnd' = uEnd /\ n' = n
        /\ uCurrent'[s] = uCurrent[s] + buf[s] /\ dwCacheLen' = dwCacheLen
        /\ buf'[s] = 0 /\ written' = written /\ state' = state
        /\ \/ pc[s] = "advance" /\ pc'[s] = "loop"
           \/ pc[s] = "last_advance" /\ pc'[s] = "finish"
           \/ pc[s] = "exit_advance" /\ pc'[s] = "leave"
    BY <1>15, ActorsAssumption DEF Advance, FieldsOK, ControlOK, Actor
  <2> QED BY <1>0, <1>15, <2>1 DEF Advance, ThreadInv, SectionInv, Pos
<1>16. CASE LoopEnds(s)
  BY <1>16, WriteOutSection DEF LoopEnds, FieldsOK, ControlOK, ThreadInv,
     SectionInv, Actor, Pos
<1>17. CASE WriteError(s)
  <2>1. /\ uStart' = uStart /\ uEnd' = uEnd /\ n' = n
        /\ uCurrent' = uCurrent /\ dwCacheLen' = dwCacheLen /\ buf'[s] = 0
        /\ written' = written /\ pc'[s] = "exit"
        /\ state'[s] \in {"STOPPED", "WRITEERROR"}
    BY <1>17, ActorsAssumption DEF WriteError, FieldsOK, ControlOK, Actor
  <2> QED BY <1>0, <1>17, <2>1 DEF WriteError, ThreadInv, SectionInv, Pos
<1>18. CASE Finish(s)
  <2>1. /\ uStart' = uStart /\ uEnd' = uEnd /\ n' = n
        /\ uCurrent'[s] = uEnd[s] /\ dwCacheLen' = dwCacheLen /\ buf' = buf
        /\ written' = written /\ pc'[s] = "exit" /\ state'[s] = "DONE"
    BY <1>18, ActorsAssumption DEF Finish, FieldsOK, ControlOK, Actor
  <2> QED BY <1>0, <1>18, <2>1 DEF Finish, ThreadInv, SectionInv, Pos
<1>19. CASE ExitFlush(s)
  BY <1>19, WriteOutSection DEF ExitFlush, FieldsOK, ControlOK, ThreadInv,
     SectionInv, Actor, Pos
<1>20. CASE Leave(s) BY <1>20, ActorsAssumption DEF Leave, FieldsOK, ControlOK,
     Actor, ThreadInv, SectionInv, Pos
<1>21. CASE ThreadBeginNoFile(s)
  <2>1. /\ uStart' = uStart /\ uEnd' = uEnd /\ n' = n
        /\ uCurrent' = uCurrent /\ dwCacheLen'[s] = 0 /\ buf' = buf
        /\ written' = written
        /\ \/ pc'[s] = "exit" /\ state'[s] = "STOPPED"
           \/ pc'[s] = "loop_nofile" /\ state' = state
    BY <1>21, ActorsAssumption DEF ThreadBeginNoFile, FieldsOK, ControlOK, Actor
  <2> QED BY <1>0, <1>21, <2>1 DEF ThreadBeginNoFile, ThreadInv, SectionInv, Pos
<1>22. CASE NoFileError(s) BY <1>22, ActorsAssumption DEF NoFileError,
     FieldsOK, ControlOK, Actor, ThreadInv, SectionInv, Pos
<1>23. CASE CountOut(s) BY <1>23, ActorsAssumption DEF CountOut, FieldsOK,
     ControlOK, Actor, ThreadInv, SectionInv, Pos
<1> QED BY <1>1, <1>2, <1>3, <1>4, <1>5, <1>6, <1>7, <1>8, <1>9, <1>10, <1>11,
     <1>12, <1>13, <1>14, <1>15, <1>16, <1>17, <1>18, <1>19, <1>20, <1>21,
     <1>22, <1>23 DEF SectionThread


\* ... and to the others, nothing.
LEMMA ThreadSections ==
  ASSUME FieldsOK, ControlOK, NEW s \in SectId, ThreadStep(s),
         NEW t \in SectId \ {s}, ThreadInv(t), t <= n => SectionInv(t)
  PROVE  ThreadInv(t)' /\ (t <= n => SectionInv(t))'
<1>1. pc'[t] = pc[t] BY ActorsAssumption DEF ThreadStep, ControlOK, Actor
<1>2. ThreadInv(t)' BY <1>1 DEF ThreadStep, ThreadInv
<1>3. (t <= n => SectionInv(t))' BY <1>1 DEF ThreadStep, SectionInv, Pos
<1> QED BY <1>2, <1>3

\* The thread inside m_csDone only marks its section as stopped.
LEMMA TailSections ==
  ASSUME ControlOK, PlacesInv, TailThread,
         NEW t \in SectId, ThreadInv(t), t <= n => SectionInv(t)
  PROVE  ThreadInv(t)' /\ (t <= n => SectionInv(t))'
<1>1. /\ pc'[t] = pc[t] /\ UNCHANGED <<n, fields, buf, written>>
      /\ state'[t] \in {state[t], "STOPPED"}
  BY ActorsAssumption DEF TailThread, TailReturn, TailEnd, ControlOK, Actor
<1> QED BY <1>1 DEF ThreadInv, SectionInv, Pos

\* The quiet steps of CreateAdditionalSection leave the sections as they are ...
LEMMA AddSections ==
  ASSUME ControlOK, PlacesInv, FieldsOK, NEW a \in Actor, AddStep(a),
         AddInv(a),
         NEW t \in SectId, ThreadInv(t), t <= n => SectionInv(t)
  PROVE  ThreadInv(t)' /\ (t <= n => SectionInv(t))'
<1>1. UNCHANGED <<n, fields, buf, written, state>> BY DEF AddStep
<1>2. \/ pc'[t] = pc[t]
      \/ /\ a = t /\ pc[t] \in AddPC \cup {"downloading"}
         /\ pc'[t] \in AddPC \cup {"loop"}
  BY ActorsAssumption DEF AddStep, MayCallAddSection, ControlOK, Actor, AddPC,
     After
<1> QED BY <1>1, <1>2 DEF ThreadInv, SectionInv, Pos, AddPC

\* ... so do the quiet steps of the owner ...
LEMMA OwnerSections ==
  ASSUME ControlOK, OwnerStep,
         NEW t \in SectId, ThreadInv(t), t <= n => SectionInv(t)
  PROVE  ThreadInv(t)' /\ (t <= n => SectionInv(t))'
<1>1. pc'[t] = pc[t] BY ActorsAssumption DEF OwnerStep, ControlOK, Actor
<1> QED BY <1>1 DEF OwnerStep, ThreadInv, SectionInv, Pos

\* ... and a launch finds a section that is not complete.
LEMMA LaunchSections ==
  ASSUME ControlOK, PlacesInv, LaunchInv, NEW a, NEW u, NEW b, NEW l,
         LaunchStep(a, u, b, l),
         NEW t \in SectId, ThreadInv(t), t <= n => SectionInv(t)
  PROVE  ThreadInv(t)' /\ (t <= n => SectionInv(t))'
<1>1. UNCHANGED <<n, fields, buf, written>> /\ u <= n BY DEF LaunchStep
<1>2. CASE t # u /\ t # a
  <2>1. pc'[t] = pc[t] /\ state'[t] = state[t]
    BY <1>2 DEF LaunchStep, ControlOK, Actor
  <2> QED BY <1>1, <2>1 DEF ThreadInv, SectionInv, Pos
<1>3. CASE t = u
  <2>1. pc'[t] \in Launched /\ pc[t] = "none" /\ state'[t] # "DONE"
    BY <1>3 DEF LaunchStep, LaunchInv, ControlOK, Actor
  <2> QED BY <1>1, <1>3, <2>1 DEF ThreadInv, SectionInv, Pos, Launched
<1>4. CASE t = a
  <2>1. /\ pc[t] = "add_launch" /\ pc'[t] = "add_fixup" /\ state' = state
    BY <1>4, ActorsAssumption DEF LaunchStep, ControlOK, Actor
  <2> QED BY <1>1, <2>1 DEF ThreadInv, SectionInv, Pos
<1> QED BY <1>2, <1>3, <1>4

\* The cut, the new section and the fix-up keep SectionInv of every section.
LEMMA AddListSections ==
  ASSUME FieldsOK, ControlOK, PlacesInv, NEW a \in Actor, AddInv(a),
         AddShrink(a) \/ AddInsert(a) \/ AddFixup(a),
         \A s \in SectId : ThreadInv(s) /\ (s <= n => SectionInv(s)),
         NEW t \in SectId
  PROVE  ThreadInv(t)' /\ (t <= n => SectionInv(t))'
<1>0. /\ n \in Nat /\ add.target \in SectId /\ add.split \in Nat /\ add.end \in Nat
      /\ uStart[t] \in Nat /\ uEnd[t] \in Nat /\ uCurrent[t] \in Nat
      /\ dwCacheLen[t] \in Nat /\ buf[t] \in Nat /\ FileSize \in Nat
  BY SizesAssumption DEF FieldsOK, ControlOK
<1> t \in Nat BY DEF SectId
<1>1. CASE AddShrink(a)
  <2>1. /\ UNCHANGED <<n, uStart, uCurrent, dwCacheLen, buf, written, state>>
        /\ uEnd'[t] = IF t = add.target THEN add.split ELSE uEnd[t]
    BY <1>0, <1>1 DEF AddShrink, FieldsOK
  <2>2. \/ pc'[t] = pc[t]
        \/ pc[t] = "add_shrink" /\ pc'[t] = "add_insert"
    BY <1>1 DEF AddShrink, ControlOK, Actor
  <2>3. uStart[add.target] <= add.split /\ add.split < uEnd[add.target]
    BY <1>1 DEF AddShrink, AddInv
  <2> QED BY <1>0, <2>1, <2>2, <2>3 DEF ThreadInv, SectionInv, Pos
<1>2. CASE AddInsert(a)
  <2>1. /\ n' = n + 1 /\ n + 1 \in SectId
        /\ UNCHANGED <<buf, written>> /\ add.split < add.end /\ add.end <= FileSize
    BY <1>0, <1>2, SizesAssumption DEF AddInsert, Append, AddInv, SectId
  <2>2. \/ pc'[t] = pc[t]
        \/ pc[t] = "add_insert" /\ pc'[t] = "add_start"
    BY <1>2 DEF AddInsert, ControlOK, Actor
  <2>3. CASE t # n + 1
    <3>1. /\ uStart'[t] = uStart[t] /\ uEnd'[t] = uEnd[t] /\ state'[t] = state[t]
          /\ uCurrent'[t] = uCurrent[t] /\ dwCacheLen'[t] = dwCacheLen[t]
      BY <1>2, <2>1, <2>3 DEF AddInsert, Append, FieldsOK, ControlOK
    <3>2. t <= n + 1 => t <= n BY <1>0, <2>3 DEF SectId
    <3>3. ThreadInv(t)' BY <1>0, <2>1, <2>2, <3>1 DEF ThreadInv
    <3>4. (t <= n => SectionInv(t))'
      BY <2>1, <2>2, <3>1, <3>2 DEF SectionInv, Pos
    <3> QED BY <3>3, <3>4
  <2>4. CASE t = n + 1
    <3>1. /\ uStart'[t] = add.split /\ uEnd'[t] = add.end /\ state'[t] = "CREATING"
          /\ uCurrent'[t] = add.split /\ dwCacheLen'[t] = 0
      BY <1>2, <2>1, <2>4 DEF AddInsert, Append, FieldsOK, ControlOK
    <3>2. pc[t] = "none" /\ buf[t] = 0 BY <1>0, <2>4 DEF ThreadInv
    <3> QED BY <1>0, <2>1, <2>2, <2>4, <3>1, <3>2 DEF ThreadInv, SectionInv, Pos
  <2> QED BY <2>3, <2>4
<1>3. CASE AddFixup(a)
  <2>1. /\ UNCHANGED <<n, uStart, uCurrent, dwCacheLen, buf, written, state>>
        /\ uEnd'[t] = IF t = add.target /\ uEnd[t] < uCurrent[t]
                      THEN uCurrent[t] ELSE uEnd[t]
    BY <1>0, <1>3 DEF AddFixup, FieldsOK
  <2>2. \/ pc'[t] = pc[t]
        \/ pc[t] = "add_fixup" /\ pc'[t] = "loop"
    BY <1>3, ActorsAssumption DEF AddFixup, AddReturn, After, ControlOK, Actor
  <2> QED BY <1>0, <2>1, <2>2 DEF ThreadInv, SectionInv, Pos
<1> QED BY <1>1, <1>2, <1>3

\* The main section starts with nothing written and nothing claimed.
LEMMA MainOpenedSections ==
  ASSUME FieldsOK, ControlOK, PlacesInv, MainOpened,
         \A s \in SectId : ThreadInv(s), NEW t \in SectId
  PROVE  ThreadInv(t)' /\ (t <= n => SectionInv(t))'
<1>1. /\ n = 0 /\ n' = 1 /\ UNCHANGED <<buf, written>> /\ pc'[t] = pc[t]
      /\ FileSize \in Nat /\ 1 \in SectId
  BY SizesAssumption, ActorsAssumption
     DEF MainOpened, Append, PlacesInv, ControlOK, Actor, SectId
<1>2. pc[t] = "none" /\ buf[t] = 0 BY <1>1 DEF ThreadInv, SectId
<1>3. t <= 1 => /\ uStart'[t] = 0 /\ uEnd'[t] = FileSize /\ state'[t] = "CREATING"
                /\ uCurrent'[t] = 0 /\ dwCacheLen'[t] = 0
  BY <1>1 DEF MainOpened, Append, FieldsOK, ControlOK, SectId
<1> QED BY <1>1, <1>2, <1>3 DEF ThreadInv, SectionInv, Pos

\* With no sections there is nothing to show.
LEMMA StartClearSections ==
  ASSUME FieldsOK, ControlOK, StartClear, \A s \in SectId : ThreadInv(s),
         \A s \in SectId : pc[s] = "none", NEW t \in SectId
  PROVE  ThreadInv(t)' /\ (t <= n => SectionInv(t))'
<1>1. n' = 0 /\ UNCHANGED <<buf, state>> /\ pc'[t] = "none"
  BY ActorsAssumption DEF StartClear, ControlOK, Actor
<1>2. ~(t <= 0) BY DEF SectId
<1> QED BY <1>1, <1>2 DEF ThreadInv
-----------------------------------------------------------------------------
(* LaunchInv and AddInv.                                                   *)

\* An actor about to give section n its thread.
LaunchPC == {"add_start", "add_launch", "main_start", "main_launch"}

\* Section n exists while it waits for its thread.
LEMMA LaunchListed ==
  ASSUME FieldsOK, ControlOK, PlacesInv, NEW a \in Actor, AddInv(a),
         pc[a] \in LaunchPC
  PROVE  n \in SectId
<1>1. CASE pc[a] \in {"add_start", "add_launch"}
  BY <1>1, SizesAssumption DEF FieldsOK, AddInv, AddPC, SectId
<1>2. CASE pc[a] \in {"main_start", "main_launch"}
  <2>1. a = Owner BY <1>2 DEF PlacesInv, Actor, SectPC, TailPC, AddPC
  <2>2. n > 0 BY <1>2, <2>1 DEF PlacesInv
  <2> QED BY <2>2, SizesAssumption DEF FieldsOK, SectId
<1> QED BY <1>1, <1>2 DEF LaunchPC

\* A section thread does not disturb what a caller knows of its target.
LEMMA ThreadAdd ==
  ASSUME FieldsOK, ControlOK, PlacesInv, NEW s \in SectId, ThreadStep(s), LaunchInv,
         \A a \in Actor : AddInv(a)
  PROVE  LaunchInv' /\ \A a \in Actor : AddInv(a)'
<1>1. /\ UNCHANGED <<n, uStart, uEnd, add>>
      /\ \A a \in Actor : \/ pc'[a] = pc[a]
                          \/ pc'[a] \notin AddPC \cup LaunchPC
  BY ActorsAssumption DEF ThreadStep, ControlOK, Actor, AddPC, SectPC,
     LaunchPC
<1>2. ASSUME NEW a \in Actor, pc'[a] \in LaunchPC
      PROVE  pc'[n] = "none" /\ state'[n] \in {"CREATING", "STOPPED"}
  <2>1. pc[a] = pc'[a] BY <1>1, <1>2 DEF AddPC, LaunchPC
  <2>2. n \in SectId BY <1>2, <2>1, LaunchListed
  <2>3. pc[n] = "none" /\ state[n] \in {"CREATING", "STOPPED"}
    BY <1>2, <2>1 DEF LaunchInv, LaunchPC
  <2>4. n # s BY <2>3 DEF ThreadStep
  <2>5. pc'[n] = pc[n] /\ state'[n] = state[n]
    BY <2>2, <2>4, ActorsAssumption DEF ThreadStep, ControlOK, Actor
  <2> QED BY <2>3, <2>5
<1>3. LaunchInv' BY <1>1, <1>2 DEF LaunchInv, LaunchPC
<1> QED BY <1>1, <1>3 DEF AddInv, AddPC

\* Nor does the thread inside m_csDone.
LEMMA TailAdd ==
  ASSUME FieldsOK, ControlOK, PlacesInv, TailThread, LaunchInv,
         \A a \in Actor : AddInv(a)
  PROVE  LaunchInv' /\ \A a \in Actor : AddInv(a)'
<1>1. /\ UNCHANGED <<n, uStart, uEnd, add>>
      /\ \A s \in SectId : state'[s] \in {state[s], "STOPPED"} /\ pc'[s] = pc[s]
      /\ \A a \in Actor : \/ pc'[a] = pc[a]
                          \/ pc'[a] \notin AddPC \cup LaunchPC
  BY ActorsAssumption DEF TailThread, TailReturn, TailEnd, ControlOK, Actor,
     AddPC, LaunchPC
<1>2. ASSUME NEW a \in Actor, pc'[a] \in LaunchPC
      PROVE  pc'[n] = "none" /\ state'[n] \in {"CREATING", "STOPPED"}
  <2>1. pc[a] = pc'[a] BY <1>1, <1>2 DEF AddPC, LaunchPC
  <2>2. n \in SectId BY <1>2, <2>1, LaunchListed
  <2> QED BY <1>1, <1>2, <2>1, <2>2 DEF LaunchInv, LaunchPC
<1>3. LaunchInv' BY <1>1, <1>2 DEF LaunchInv, LaunchPC
<1> QED BY <1>1, <1>3 DEF AddInv, AddPC

\* Nor do the quiet steps of the owner.
LEMMA OwnerAdd ==
  ASSUME FieldsOK, ControlOK, PlacesInv, OwnerStep, LaunchInv,
         \A a \in Actor : AddInv(a)
  PROVE  LaunchInv' /\ \A a \in Actor : AddInv(a)'
<1>1. /\ UNCHANGED <<n, uStart, uEnd, add, state>>
      /\ \A s \in SectId : pc'[s] = pc[s]
      /\ \A a \in Actor : \/ pc'[a] = pc[a]
                          \/ pc'[a] \notin AddPC \cup LaunchPC
                          \/ pc[a] = "main_start" /\ pc'[a] = "main_launch"
  BY ActorsAssumption DEF OwnerStep, ControlOK, Actor, AddPC, OwnerPC, MainPC,
     LaunchPC
<1>2. ASSUME NEW a \in Actor, pc'[a] \in LaunchPC
      PROVE  pc'[n] = "none" /\ state'[n] \in {"CREATING", "STOPPED"}
  <2>1. pc[a] \in LaunchPC BY <1>1, <1>2 DEF AddPC, LaunchPC
  <2>2. n \in SectId BY <1>2, <2>1, LaunchListed
  <2> QED BY <1>1, <1>2, <2>1, <2>2 DEF LaunchInv, LaunchPC
<1>3. LaunchInv' BY <1>1, <1>2 DEF LaunchInv, LaunchPC
<1> QED BY <1>1, <1>3 DEF AddInv, AddPC

\* The quiet steps of CreateAdditionalSection keep LaunchInv.
LEMMA AddLaunchInv ==
  ASSUME FieldsOK, ControlOK, PlacesInv, NEW b \in Actor, LaunchInv,
         AddStep(b) \/ AddShrink(b) \/ AddFixup(b), \A a \in Actor : AddInv(a)
  PROVE  LaunchInv'
<1>1. /\ UNCHANGED <<n, state>>
      /\ \A a \in Actor : \/ pc'[a] = pc[a]
                          \/ pc[a] # "none" /\ pc'[a] \notin LaunchPC
                          \/ pc[a] = "add_start" /\ pc'[a] = "add_launch"
  BY ActorsAssumption DEF AddStep, AddShrink, AddFixup, AddReturn, After,
     ControlOK, Actor, AddPC, LaunchPC
<1>2. ASSUME NEW a \in Actor, pc'[a] \in LaunchPC
      PROVE  pc'[n] = "none" /\ state'[n] \in {"CREATING", "STOPPED"}
  <2>1. pc[a] \in LaunchPC BY <1>1, <1>2 DEF LaunchPC
  <2>2. n \in SectId BY <1>2, <2>1, LaunchListed
  <2>3. pc[n] = "none" /\ state[n] \in {"CREATING", "STOPPED"}
    BY <2>1 DEF LaunchInv, LaunchPC
  <2> QED BY <1>1, <2>2, <2>3 DEF Actor
<1> QED BY <1>1, <1>2 DEF LaunchInv, LaunchPC

\* m_csAddSection admits one caller at a time.
LEMMA OneAdder ==
  ASSUME PlacesInv, NEW a \in Actor, pc[a] \in AddPC \ {"add_lock"},
         NEW b \in Actor, b # a
  PROVE  /\ pc[b] \notin AddPC \ {"add_lock"}
         /\ pc[b] \notin MainPC
<1>1. csAdd = a BY DEF PlacesInv
<1>2. pc[b] \notin AddPC \ {"add_lock"} BY <1>1 DEF PlacesInv
<1>3. pc[b] \notin MainPC
  BY <1>1 DEF PlacesInv, Actor, SectPC, TailPC, AddPC, MainPC
<1> QED BY <1>2, <1>3


\* What the caller learns of its target, step by step.
LEMMA AddSelf ==
  ASSUME FieldsOK, ControlOK, PlacesInv, NEW a \in Actor, AddInv(a),
         \A s \in SectId : s <= n => SectionInv(s),
         AddSection(a) \/ AddSteps(a)
  PROVE  AddInv(a)'
<1>0. /\ n \in Nat /\ add.target \in SectId /\ add.split \in Nat /\ add.end \in Nat
      /\ add.corr \in Nat /\ add.max \in Nat /\ add.target \in Nat
      /\ uStart[add.target] \in Nat /\ uEnd[add.target] \in 0..FileSize
      /\ uCurrent[add.target] \in Nat /\ FileSize \in Nat /\ MaxSections \in Nat
      /\ MinSize \in Nat \ {0}
  <2>1. add.target \in SectId /\ add.target \in Nat BY DEF ControlOK, SectId
  <2> QED BY <2>1, SizesAssumption DEF FieldsOK, ControlOK
<1>1. CASE AddSection(a) \/ AddLock(a)
  <2>1. pc'[a] \in {"add_lock", "add_choose"} /\ n' = n /\ n > 0
    BY <1>1 DEF AddSection, AddLock, ControlOK, AddInv, AddPC
  <2> QED BY <2>1 DEF AddInv, AddPC
<1>2. CASE AddChoose(a)
  <2>1. PICK ahead \in Aheads, s \in 1..n : add'.target = s
    BY <1>2 DEF AddChoose, NoAdd
  <2>2. n' = n /\ n < MaxSections /\ pc'[a] = "add_point" /\ n > 0
    BY <1>2 DEF AddChoose, ControlOK, AddInv, AddPC
  <2> QED BY <1>0, <2>1, <2>2 DEF AddInv, AddPC
<1>3. CASE AddPoint(a)
  <2>1. /\ add'.target = add.target /\ add'.split = SplitPoint
        /\ add'.end = uEnd[add.target]
    BY <1>3 DEF AddPoint, ControlOK
  <2>2. UNCHANGED <<n, uStart, uEnd>> /\ pc'[a] = "add_open" /\ pc[a] = "add_point"
    BY <1>3 DEF AddPoint, ControlOK
  <2>3. n > 0 /\ n < MaxSections /\ add.target <= n BY <2>2 DEF AddInv, AddPC
  <2>4. uStart[add.target] <= SplitPoint /\ SplitPoint < uEnd[add.target]
    <3>1. uStart[add.target] <= uCurrent[add.target]
      BY <1>0, <2>3 DEF SectionInv
    <3>2. add.max \div 2 \in Nat BY <1>0
    <3> QED BY <1>0, <1>3, <3>1, <3>2 DEF SplitPoint, AddPoint
  <2> QED BY <2>1, <2>2, <2>3, <2>4 DEF AddInv, AddPC
<1>4. CASE AddOpen(a) \/ AddRecheck(a)
  <2>1. /\ UNCHANGED <<n, uStart, uEnd, add>>
        /\ \/ pc[a] = "add_open" /\ pc'[a] = "add_recheck"
           \/ pc[a] = "add_recheck" /\ pc'[a] = "add_shrink"
    BY <1>4 DEF AddOpen, AddRecheck, ControlOK
  <2> QED BY <2>1 DEF AddInv, AddPC
<1>5. CASE AddShrink(a)
  <2>1. /\ UNCHANGED <<n, add>> /\ pc[a] = "add_shrink" /\ pc'[a] = "add_insert"
    BY <1>5 DEF AddShrink, ControlOK
  <2>2. add.end <= FileSize BY <1>0, <2>1 DEF AddInv
  <2> QED BY <2>1, <2>2 DEF AddInv, AddPC
<1>6. CASE AddInsert(a)
  <2>1. /\ n' = n + 1 /\ add' = add /\ pc[a] = "add_insert" /\ pc'[a] = "add_start"
    BY <1>6 DEF AddInsert, Append, ControlOK
  <2> QED BY <1>0, <2>1 DEF AddInv, AddPC
<1>7. CASE AddStart(a)
  <2>1. /\ n' = n /\ add' = add /\ pc[a] = "add_start" /\ pc'[a] = "add_launch"
    BY <1>7 DEF AddStart, CountLast, ControlOK
  <2> QED BY <2>1 DEF AddInv, AddPC
<1>9. CASE AddLaunch(a)
  <2>1. /\ n' = n /\ add' = add /\ pc[a] = "add_launch" /\ pc'[a] = "add_fixup"
    BY <1>9 DEF AddLaunch, LaunchLast, ControlOK
  <2> QED BY <2>1 DEF AddInv, AddPC
<1>8. ASSUME AddReturn(a) PROVE AddInv(a)'
  <2>1. pc'[a] \notin AddPC BY <1>8 DEF AddReturn, After, ControlOK, AddPC
  <2> QED BY <2>1 DEF AddInv, AddPC
<1> QED
  BY <1>1, <1>2, <1>3, <1>4, <1>5, <1>6, <1>7, <1>8, <1>9
     DEF AddSteps, AddRefused, AddNoCandidate, AddTooSmall, AddOpenFails,
         AddOpenNoRanges, AddTooLate, AddAbort, AddFixup

\* What it does not take from another caller.
LEMMA AddOthers ==
  ASSUME FieldsOK, ControlOK, PlacesInv, NEW a \in Actor, NEW b \in Actor, b # a,
         AddInv(b), AddSection(a) \/ AddSteps(a)
  PROVE  AddInv(b)'
<1>1. pc'[b] = pc[b] \/ pc'[b] = "begin"
  BY DEF AddSteps, AddSection, AddLock, AddRefused, AddChoose, AddNoCandidate,
     AddPoint, AddTooSmall, AddOpen, AddOpenFails, AddOpenNoRanges, AddRecheck,
     AddTooLate, AddShrink, AddInsert, AddStart, CountLast, AddLaunch, LaunchLast,
     AddFixup, AddAbort, AddReturn, ControlOK
<1>2. n \in Nat BY DEF FieldsOK
<1>3. CASE pc[b] = "add_lock"
  <2>1. n' = n \/ n' = n + 1
    BY DEF AddSteps, AddSection, AddLock, AddRefused, AddChoose, AddNoCandidate,
     AddPoint, AddTooSmall, AddOpen, AddOpenFails, AddOpenNoRanges, AddRecheck,
     AddTooLate, AddShrink, AddInsert, Append, AddStart, AddLaunch, AddFixup,
     AddAbort
  <2> QED BY <1>1, <1>2, <1>3, <2>1 DEF AddInv, AddPC
<1>4. CASE pc[b] \in AddPC \ {"add_lock"}
  <2>1. csAdd = b BY <1>4 DEF PlacesInv
  <2>2. pc[a] \notin AddPC \ {"add_lock"} BY <2>1 DEF PlacesInv
  <2>3. AddSection(a)
    BY <2>1, <2>2, ActorsAssumption
    DEF AddSteps, AddLock, AddRefused, AddChoose, AddNoCandidate, AddPoint,
     AddTooSmall, AddOpen, AddOpenFails, AddOpenNoRanges, AddRecheck, AddTooLate,
     AddShrink, AddInsert, AddStart, AddLaunch, AddFixup, AddPC, Actor
  <2> QED BY <1>1, <2>3 DEF AddSection, AddInv
<1>5. CASE pc[b] \notin AddPC BY <1>1, <1>5 DEF AddInv, AddPC
<1> QED BY <1>3, <1>4, <1>5

\* The section just appended waits for its thread.
LEMMA AppendLaunch ==
  ASSUME FieldsOK, ControlOK, PlacesInv, NEW a \in Actor, AddInv(a),
         \A s \in SectId : ThreadInv(s), AddInsert(a) \/ MainOpened
  PROVE  LaunchInv'
<1>0. n \in Nat BY DEF FieldsOK
<1>1. n' = n + 1 /\ n + 1 \in SectId
  BY <1>0, SizesAssumption DEF AddInsert, MainOpened, Append, AddInv,
     PlacesInv, SectId
<1>2. pc[n + 1] = "none" BY <1>0, <1>1 DEF ThreadInv
<1>3. pc'[n + 1] = "none"
  BY <1>1, <1>2, ActorsAssumption DEF AddInsert, MainOpened, ControlOK, Actor
<1>4. state'[n + 1] = "CREATING"
  BY <1>1 DEF AddInsert, MainOpened, Append, ControlOK
<1> QED BY <1>1, <1>3, <1>4 DEF LaunchInv

\* A launch leaves what the callers know of their targets alone.
LEMMA LaunchAdd ==
  ASSUME ~Ended, FieldsOK, ControlOK, PlacesInv, NEW a, NEW t, NEW c, NEW l,
         LaunchStep(a, t, c, l), \A b \in Actor : AddInv(b), StartInv, LaunchInv
  PROVE  LaunchInv' /\ \A b \in Actor : AddInv(b)'
<1>1. /\ UNCHANGED <<n, uStart, uEnd, add>>
      /\ \A b \in Actor : \/ pc'[b] = pc[b] /\ b # a /\ b # t
                          \/ pc'[b] \notin AddPC \cup LaunchPC
                          \/ pc'[b] = "add_fixup" /\ pc[b] = "add_launch"
  BY ActorsAssumption DEF LaunchStep, ControlOK, Actor, AddPC, Launched, LaunchPC
<1>2. ASSUME NEW b \in Actor, pc'[b] \in LaunchPC
      PROVE  pc'[n] = "none" /\ state'[n] \in {"CREATING", "STOPPED"}
  <2>1. pc[b] = pc'[b] /\ b # a BY <1>1, <1>2 DEF AddPC, LaunchPC
  <2>2. CASE pc[a] \in {"add_launch", "main_launch"}
    <3>1. csAdd = a BY <2>2 DEF LaunchStep, PlacesInv, AddPC
    <3>2. pc[b] \notin {"add_start", "add_launch"}
      BY <3>1, <2>1 DEF PlacesInv, AddPC
    <3>3. pc[b] \notin {"main_start", "main_launch"}
      BY <3>1, <2>1 DEF PlacesInv, Actor, SectPC, TailPC, AddPC
    <3> QED BY <1>2, <2>1, <3>2, <3>3 DEF LaunchPC
  <2>3. CASE a = Owner /\ pc[a] \in {"start_count", "one_launch"}
    <3>1. pc[b] \in {"add_start", "add_launch"}
      BY <1>2, <2>1, <2>3 DEF PlacesInv, Actor, SectPC, TailPC, AddPC, LaunchPC
    <3>2. pc[a] = "one_launch" BY <2>3, <3>1 DEF StartInv, AddPC
    <3>3. t # n /\ state' = state BY <3>1, <3>2 DEF LaunchStep
    <3>4. pc[n] = "none" /\ state[n] \in {"CREATING", "STOPPED"}
      BY <3>1 DEF LaunchInv
    <3>5. n \in SectId BY <3>1, LaunchListed DEF LaunchPC
    <3>6. pc'[n] = pc[n]
      BY <2>3, <3>3, <3>5, ActorsAssumption DEF LaunchStep, ControlOK, Actor
    <3> QED BY <3>3, <3>4, <3>6
  <2> QED BY <2>2, <2>3 DEF LaunchStep
<1>3. LaunchInv' BY <1>1, <1>2 DEF LaunchInv, LaunchPC
<1>4. ASSUME NEW b \in Actor PROVE AddInv(b)'
  <2>1. CASE pc'[b] = pc[b] BY <1>1, <2>1 DEF AddInv
  <2>2. CASE pc'[b] \notin AddPC BY <2>2 DEF AddInv, AddPC
  <2>3. CASE pc'[b] = "add_fixup" /\ pc[b] = "add_launch"
    BY <1>1, <2>3 DEF AddInv, AddPC
  <2> QED BY <1>1, <2>1, <2>2, <2>3
<1> QED BY <1>3, <1>4

\* While the main section is created nobody is adding a section.
LEMMA MainOpenedAdd ==
  ASSUME FieldsOK, ControlOK, PlacesInv, MainOpened, NEW b \in Actor, AddInv(b)
  PROVE  AddInv(b)'
<1>1. n = 0 /\ pc'[b] \in {pc[b], "main_start"}
  BY DEF PlacesInv, MainOpened, ControlOK, Actor
<1>2. pc[b] \notin AddPC BY <1>1 DEF AddInv
<1> QED BY <1>1, <1>2 DEF AddInv, AddPC

\* While StartDownloading clears the list nobody is adding a section.
LEMMA StartClearAdd ==
  ASSUME ~Ended, ControlOK, StartInv, PlacesInv, StartClear
  PROVE  LaunchInv' /\ \A b \in Actor : AddInv(b)'
<1>1. /\ \A a \in Actor : pc[a] \notin AddPC
      /\ \A a \in Actor : pc'[a] \in {pc[a], "main"} /\ (a = Owner => pc'[a] = "main")
  BY DEF StartInv, StartClear, ControlOK
<1>2. \A a \in Actor : pc'[a] \notin AddPC \cup LaunchPC
  BY <1>1 DEF PlacesInv, Actor, SectPC, TailPC, AddPC, LaunchPC
<1> QED BY <1>2 DEF LaunchInv, LaunchPC, AddInv, AddPC
-----------------------------------------------------------------------------
(* DownloadingHasThread and RunningCounted.                                *)

\* A section that becomes SS_DOWNLOADING has a thread, and a thread leaves only
\* after its section has left SS_DOWNLOADING.
LEMMA ThreadDownloading ==
  ASSUME FieldsOK, ControlOK, NEW s \in SectId, ThreadStep(s), ThreadInv(s),
         DownloadingHasThread
  PROVE  DownloadingHasThread'
<1> SUFFICES ASSUME NEW t \in 1..n, state'[t] = "DOWNLOADING" PROVE pc'[t] # "none"
  BY DEF DownloadingHasThread, ThreadStep
<1>1. t \in SectId BY SizesAssumption DEF FieldsOK, SectId
<1>2. CASE t = s
  BY <1>1, <1>2, ActorsAssumption DEF ThreadStep, ThreadInv, ControlOK, Actor
<1>3. CASE t # s
  BY <1>1, <1>3, ActorsAssumption
  DEF ThreadStep, ControlOK, Actor, DownloadingHasThread
<1> QED BY <1>2, <1>3

\* The thread inside m_csDone never marks a section as downloading.
LEMMA TailDownloading ==
  ASSUME FieldsOK, ControlOK, TailThread, DownloadingHasThread
  PROVE  DownloadingHasThread'
<1>1. /\ n' = n
      /\ \A s \in SectId : pc'[s] = pc[s] /\ state'[s] \in {state[s], "STOPPED"}
  BY ActorsAssumption DEF TailThread, TailReturn, TailEnd, ControlOK, Actor
<1>2. 1..n \subseteq SectId BY SizesAssumption DEF FieldsOK, SectId
<1> QED BY <1>1, <1>2 DEF DownloadingHasThread

\* Neither do the quiet steps of CreateAdditionalSection ...
LEMMA AddDownloading ==
  ASSUME FieldsOK, ControlOK, PlacesInv, NEW a \in Actor,
         AddStep(a) \/ AddShrink(a) \/ AddFixup(a), DownloadingHasThread
  PROVE  DownloadingHasThread'
<1>1. /\ UNCHANGED <<n, state>>
      /\ \A s \in SectId : pc'[s] = pc[s] \/ pc'[s] # "none"
  BY ActorsAssumption
  DEF AddStep, AddShrink, AddFixup, AddReturn, After, ControlOK, Actor
<1>2. 1..n \subseteq SectId BY SizesAssumption DEF FieldsOK, SectId
<1> QED BY <1>1, <1>2 DEF DownloadingHasThread

\* ... nor those of the owner.
LEMMA OwnerDownloading ==
  ASSUME FieldsOK, ControlOK, OwnerStep, DownloadingHasThread
  PROVE  DownloadingHasThread'
<1>1. UNCHANGED <<n, state>> /\ \A s \in SectId : pc'[s] = pc[s]
  BY ActorsAssumption DEF OwnerStep, ControlOK, Actor
<1>2. 1..n \subseteq SectId BY SizesAssumption DEF FieldsOK, SectId
<1> QED BY <1>1, <1>2 DEF DownloadingHasThread

\* A launch creates the thread that the state announces.
LEMMA LaunchDownloading ==
  ASSUME FieldsOK, ControlOK, NEW a, NEW t, NEW b, NEW l, LaunchStep(a, t, b, l),
         DownloadingHasThread
  PROVE  DownloadingHasThread'
<1>1. /\ n' = n /\ t \in SectId /\ pc'[t] # "none"
      /\ \A s \in SectId : pc'[s] = pc[s] \/ pc'[s] # "none"
      /\ \A s \in SectId \ {t} : state'[s] = state[s]
  BY ActorsAssumption DEF LaunchStep, Launched, ControlOK, Actor
<1>2. 1..n \subseteq SectId BY SizesAssumption DEF FieldsOK, SectId
<1> QED BY <1>1, <1>2 DEF DownloadingHasThread

\* A new section is SS_CREATING.
LEMMA AppendDownloading ==
  ASSUME FieldsOK, ControlOK, PlacesInv, NEW a \in Actor, AddInv(a),
         AddInsert(a) \/ MainOpened, DownloadingHasThread
  PROVE  DownloadingHasThread'
<1>0. n \in Nat BY DEF FieldsOK
<1>1. n' = n + 1 /\ n + 1 \in SectId
  BY <1>0, SizesAssumption DEF AddInsert, MainOpened, Append, AddInv,
     PlacesInv, SectId
<1>2. state' = [state EXCEPT ![n + 1] = "CREATING"]
  BY DEF AddInsert, MainOpened, Append
<1>3. \A s \in SectId : pc'[s] = pc[s] \/ pc'[s] # "none"
  BY ActorsAssumption DEF AddInsert, MainOpened, ControlOK, Actor
<1> SUFFICES ASSUME NEW t \in 1..(n + 1), state'[t] = "DOWNLOADING"
             PROVE pc'[t] # "none"
  BY <1>1 DEF DownloadingHasThread
<1>4. t \in SectId BY <1>0, <1>1, SizesAssumption DEF SectId
<1>5. t # n + 1 BY <1>1, <1>2 DEF ControlOK
<1>6. t \in 1..n /\ state[t] = "DOWNLOADING"
  BY <1>0, <1>2, <1>4, <1>5 DEF ControlOK
<1> QED BY <1>3, <1>4, <1>6 DEF DownloadingHasThread

\* The threads can be counted.
LEMMA LiveFinite == IsFiniteSet(Live) /\ Cardinality(Live) \in Nat
<1>1. IsFiniteSet(SectId) BY FS_Interval, SizesAssumption DEF SectId
<1>2. Live \subseteq SectId BY DEF Live
<1> QED BY <1>1, <1>2, FS_Subset, FS_CardinalityType

\* A store that loses no other update changes the count by d.
LEMMA StoreExact ==
  ASSUME NEW a, NEW d, StoreRunning(a, d)
  PROVE  /\ odd \subseteq odd' /\ ("blind" \in odd' => "blind" \in odd)
         /\ "lost" \notin odd' => "lost" \notin odd /\ cRunning' = cRunning + d
BY DEF StoreRunning

\* The count goes down exactly when a thread has entered m_csDone.
LEMMA ThreadCounted ==
  ASSUME ControlOK, CountersOK, NEW s \in SectId, ThreadStep(s), RunningCounted
  PROVE  RunningCounted'
<1> SUFFICES ASSUME "lost" \notin odd' PROVE cRunning' = Cardinality(Live')
  BY DEF RunningCounted
<1>1. s \in Live BY DEF ThreadStep, Live
<1>2. "lost" \notin odd => cRunning = Cardinality(Live) BY DEF RunningCounted
<1>3. CASE pc[s] = "count_out"
  <2>1. "lost" \notin odd /\ cRunning' = cRunning + (-1)
    BY <1>3, StoreExact DEF ThreadStep
  <2>2. Live' = Live \ {s}
    BY <1>3, ActorsAssumption DEF ThreadStep, ControlOK, Actor, Live
  <2>3. cRunning \in Int BY DEF CountersOK
  <2> QED BY <1>1, <1>2, <2>1, <2>2, <2>3, LiveFinite, FS_RemoveElement
<1>4. CASE pc[s] # "count_out"
  <2>1. UNCHANGED <<cRunning, odd>> BY <1>4 DEF ThreadStep
  <2>2. Live' = Live
    BY <1>4, ActorsAssumption DEF ThreadStep, ControlOK, Actor, Live
  <2> QED BY <1>2, <2>1, <2>2
<1> QED BY <1>3, <1>4

\* It goes up exactly when a thread is created.
LEMMA LaunchCounted ==
  ASSUME ControlOK, NEW a, NEW t, NEW b, NEW l, LaunchStep(a, t, b, l),
         RunningCounted
  PROVE  RunningCounted'
<1> SUFFICES ASSUME "lost" \notin odd' PROVE cRunning' = Cardinality(Live')
  BY DEF RunningCounted
<1>1. t \notin Live BY DEF LaunchStep, Live
<1>2. "lost" \notin odd /\ cRunning' = cRunning + 1 BY StoreExact DEF LaunchStep
<1>3. Live' = Live \cup {t}
  BY ActorsAssumption DEF LaunchStep, Launched, ControlOK, Actor, Live
<1> QED BY <1>1, <1>2, <1>3, LiveFinite, FS_AddElement DEF RunningCounted

\* Nobody else creates or ends a section thread.
LEMMA OthersCounted ==
  ASSUME ControlOK, PlacesInv, RunningCounted,
         \/ TailThread \/ OwnerStep \/ MainOpened \/ StartClear
         \/ \E a \in Actor : AddStep(a) \/ AddShrink(a) \/ AddInsert(a) \/ AddFixup(a)
  PROVE  RunningCounted'
<1> DEFINE Same == /\ cRunning' = cRunning /\ ("lost" \in odd => "lost" \in odd')
                   /\ \A s \in SectId : pc'[s] = "none" <=> pc[s] = "none"
<1>1. Same
  <2>1. CASE TailThread \/ OwnerStep \/ MainOpened \/ StartClear
    BY <2>1, ActorsAssumption DEF TailThread, TailReturn, TailEnd, OwnerStep,
       MainOpened, StartClear, ControlOK, Actor
  <2>2. ASSUME NEW a \in Actor,
               AddStep(a) \/ AddShrink(a) \/ AddInsert(a) \/ AddFixup(a)
        PROVE  Same
    BY <2>2, ActorsAssumption DEF AddStep, AddShrink, AddInsert, AddFixup,
       AddReturn, After, ControlOK, Actor, AddPC
  <2> QED BY <2>1, <2>2
<1>2. Live' = Live BY <1>1 DEF Live
<1> QED BY <1>1, <1>2 DEF RunningCounted

\* Until an update is lost, a count of zero means there is no thread ...
LEMMA NotRunning ==
  ASSUME RunningCounted, "lost" \notin odd, ~IsRunning PROVE Live = {}
<1>1. Cardinality(Live) = 0 BY DEF RunningCounted, IsRunning
<1> QED BY <1>1, LiveFinite, FS_EmptySet

\* ... and any other count that there is one.
LEMMA Running ==
  ASSUME RunningCounted, "lost" \notin odd, IsRunning PROVE Live # {}
BY FS_EmptySet DEF RunningCounted, IsRunning

\* StartDownloading begins beside a thread only when an update of the count has
\* been lost: it is the only step that can make it so.
LEMMA StartBeginNotMissed ==
  ASSUME PlacesInv, RunningCounted, TailAddInv, RunNotMissed, StartBegin
  PROVE  RunNotMissed'
<1> SUFFICES ASSUME "lost" \notin odd PROVE "blind" \notin odd'
  BY DEF RunNotMissed, StartBegin
<1>1. Live = {} BY NotRunning DEF StartBegin
<1>2. \A s \in SectId : pc[s] = "none" BY <1>1 DEF Live
<1>3. pc[Tail] \notin AddPC BY <1>1 DEF TailAddInv
<1>4. \A a \in Actor : pc[a] \notin AddPC
  BY <1>2, <1>3 DEF StartBegin, Actor, AddPC
<1>5. ~Busy BY <1>1, <1>4 DEF Busy
<1> QED BY <1>5 DEF StartBegin, RunNotMissed

\* The other steps record no such start.
LEMMA OthersNotMissed ==
  ASSUME RunNotMissed,
         \/ UNCHANGED odd
         \/ \E a, d : StoreRunning(a, d)
         \/ OwnerQuiet /\ ~StartBegin
  PROVE  RunNotMissed'
<1>1. odd \subseteq odd' /\ ("blind" \in odd' => "blind" \in odd)
  BY StoreExact
     DEF OwnerQuiet, MainBegin, MainRefused, MainFails, MainNotInitialized,
         StopDownloading, StartSkip, StartSection, StartOpened, StartNoFile,
         StartOpenFails, StartNoRanges, StartEnd, MainStart, StartLaunch,
         LaunchOneMoreSection
<1> QED BY <1>1 DEF RunNotMissed
-----------------------------------------------------------------------------
(* StartInv, OneInv and TailAddInv.                                        *)

\* The owner in StartDownloading.
StartPC ==
  {"start_loop", "start_open", "start_launch", "start_count", "start_clear"}

\* A section thread does not disturb StartDownloading ...
LEMMA ThreadStart ==
  ASSUME ~Ended, ControlOK, PlacesInv, NEW s \in SectId, ThreadStep(s), StartInv
  PROVE  StartInv'
<1>1. /\ pc'[Owner] = pc[Owner] /\ UNCHANGED <<bNoNew, iStart, n, bOneStarted>>
      /\ \A a \in Actor : pc'[a] = pc[a] \/ pc'[a] \notin AddPC
      /\ \A t \in SectId : pc[t] = "none" => pc'[t] = "none"
  BY ActorsAssumption DEF ThreadStep, ControlOK, Actor, AddPC, SectPC
<1> QED BY <1>1 DEF StartInv, Live

\* ... nor does the thread inside m_csDone ...
LEMMA TailStart == ASSUME ~Ended, ControlOK, TailThread, StartInv PROVE StartInv'
<1>1. /\ pc'[Owner] = pc[Owner] /\ UNCHANGED <<bNoNew, iStart, n, bOneStarted>>
      /\ \A a \in Actor : pc'[a] = pc[a] \/ pc'[a] \notin AddPC
      /\ \A t \in SectId : pc'[t] = pc[t]
  BY ActorsAssumption DEF TailThread, TailReturn, TailEnd, ControlOK, Actor,
     AddPC
<1> QED BY <1>1 DEF StartInv, Live

\* ... and while it runs nobody can begin to add a section.
LEMMA AddStartInv ==
  ASSUME ~Ended, ControlOK, PlacesInv, StartInv, NEW a \in Actor,
         AddStep(a) \/ AddShrink(a) \/ AddInsert(a) \/ AddFixup(a)
         \/ \E t, b, l : LaunchStep(a, t, b, l) /\ pc[a] = "add_launch"
  PROVE  StartInv'
<1>1. pc[a] \in AddPC \/ ~bNoNew
  BY DEF AddStep, AddShrink, AddInsert, AddFixup, AddPC
<1>2. pc[Owner] \notin StartPC BY <1>1 DEF StartInv, StartPC
<1>3. pc'[Owner] = pc[Owner] \/ pc'[Owner] \notin StartPC
  BY ActorsAssumption DEF AddStep, AddShrink, AddInsert, AddFixup, AddReturn,
     After, LaunchStep, ControlOK, Actor, AddPC, StartPC
<1> QED BY <1>2, <1>3 DEF StartInv, StartPC

\* When StartDownloading begins, no thread runs and nobody is adding a section,
\* or it is recorded that it did not look.
LEMMA StartBeginStart == ASSUME ControlOK, PlacesInv, StartBegin PROVE StartInv'
<1> SUFFICES ASSUME ~Ended' PROVE StartInv' BY DEF StartInv
<1>1. ~Busy BY DEF StartBegin, Ended
<1>2. Live = {} /\ \A a \in Actor : pc[a] \notin AddPC BY <1>1 DEF Busy
<1>3. pc' = [pc EXCEPT ![Owner] = "start_loop"] /\ bNoNew' = TRUE
  BY DEF StartBegin
<1>4. \A a \in Actor : pc'[a] \notin AddPC BY <1>2, <1>3 DEF ControlOK, AddPC
<1>5. \A s \in SectId : pc'[s] = "none"
  BY <1>2, <1>3, ActorsAssumption DEF ControlOK, Actor, Live
<1>6. pc'[Owner] = "start_loop" BY <1>3 DEF ControlOK, Actor
<1> QED BY <1>3, <1>4, <1>5, <1>6 DEF StartInv, Live

\* The other calls of the owner keep StartInv.
LEMMA OwnerStart ==
  ASSUME ~Ended, TypeOK, PlacesInv, StartInv,
         OwnerQuiet \/ MainOpened \/ MainLaunch \/ StartClear \/ OneLaunch
  PROVE  StartInv'
<1>0. ControlOK /\ iStart \in Nat BY DEF TypeOK, CountersOK
<1>1. ASSUME pc'[Owner] \notin StartPC PROVE StartInv'
  BY <1>1 DEF StartInv, StartPC
<1>2. CASE \/ MainBegin \/ MainRefused \/ MainFails \/ MainNotInitialized
           \/ MainOpened \/ MainStart \/ MainLaunch \/ StartClear \/ StartNoFile
           \/ StartEnd \/ LaunchOneMoreSection \/ OneLaunch
  <2>1. pc'[Owner] \notin StartPC
    <3>1. CASE MainLaunch
      BY <1>0, <3>1, ActorsAssumption DEF MainLaunch, LaunchLast, ControlOK,
         Actor, StartPC
    <3>2. CASE OneLaunch
      BY <1>0, <3>2, ActorsAssumption DEF OneLaunch, ControlOK, Actor, StartPC
    <3>3. CASE ~MainLaunch /\ ~OneLaunch
      BY <1>0, <1>2, <3>3 DEF MainBegin, MainRefused, MainFails,
         MainNotInitialized, MainOpened, MainStart, CountLast, StartClear,
         StartNoFile, StartEnd, LaunchOneMoreSection, ControlOK, Actor, StartPC
    <3> QED BY <3>1, <3>2, <3>3
  <2> QED BY <1>1, <2>1
<1>3. CASE StartBegin BY <1>0, <1>3, StartBeginStart
<1>4. CASE StopDownloading BY <1>4 DEF StopDownloading, StartInv, Live
<1>5. CASE \/ StartSkip \/ StartSection \/ StartOpened \/ StartOpenFails
           \/ StartNoRanges \/ StartLaunch
  <2>1. pc[Owner] \in StartPC
    BY <1>5 DEF StartSkip, StartSection, StartOpened, StartOpenFails,
       StartNoRanges, StartLaunch, StartPC
  <2>2. /\ bNoNew' = bNoNew /\ n' = n
        /\ \A a \in Actor : a # Owner => pc'[a] = pc[a]
    BY <1>0, <1>5 DEF StartSkip, StartSection, StartOpened, StartOpenFails,
       StartNoRanges, StartLaunch, ControlOK
  <2>3. pc'[Owner] \in StartPC \cup {"idle"}
    BY <1>0, <1>5 DEF StartSkip, StartSection, StartOpened, StartOpenFails,
       StartNoRanges, StartLaunch, ControlOK, Actor, StartPC
  <2>4. iStart' = iStart \/ (iStart' = iStart + 1 /\ pc'[Owner] = "start_loop")
    <3>1. CASE StartSkip BY <1>0, <3>1 DEF StartSkip
    <3>2. CASE StartSection BY <3>2 DEF StartSection
    <3>3. CASE StartOpened BY <3>3 DEF StartOpened
    <3>4. CASE StartOpenFails
      <4>1. CASE bOneStarted
        BY <1>0, <3>4, <4>1 DEF StartOpenFails, ControlOK, Actor
      <4>2. CASE ~bOneStarted BY <3>4, <4>2 DEF StartOpenFails
      <4> QED BY <4>1, <4>2
    <3>5. CASE StartNoRanges BY <3>5 DEF StartNoRanges
    <3>6. CASE StartLaunch BY <3>6 DEF StartLaunch
    <3> QED BY <1>5, <3>1, <3>2, <3>3, <3>4, <3>5, <3>6
  <2>5. pc'[Owner] \in StartPC \ {"start_loop"} => iStart' <= n'
    BY <1>0, <1>5, <2>1, <2>2 DEF StartSkip, StartSection, StartOpened,
       StartOpenFails, StartNoRanges, StartLaunch, StartInv, StartPC, ControlOK,
       Actor
  <2>6. \A a \in Actor : pc'[a] \notin AddPC
    BY <2>1, <2>2, <2>3 DEF StartInv, StartPC, AddPC
  <2>7. \A s \in SectId : s >= iStart' => pc'[s] = "none"
    <3>1. \A s \in SectId : s \in Nat /\ pc'[s] = pc[s]
      BY <2>2, ActorsAssumption DEF SectId, Actor
    <3> QED BY <1>0, <2>1, <2>4, <3>1 DEF StartInv, StartPC
  <2>8. /\ pc'[Owner] \in {"start_launch", "start_count"} => bOneStarted'
        /\ pc'[Owner] = "start_clear" => ~bOneStarted'
        /\ ~bOneStarted' => ~bOneStarted
    BY <1>0, <1>5, <2>1 DEF StartSkip, StartSection, StartOpened, StartOpenFails,
       StartNoRanges, StartLaunch, StartInv, StartPC, ControlOK, Actor
  <2>9. ~bOneStarted' => Live' = {}
    <3>1. Live' = Live BY <2>2, ActorsAssumption DEF Live, Actor
    <3> QED BY <2>1, <2>8, <3>1 DEF StartInv, StartPC
  <2> QED BY <2>1, <2>2, <2>5, <2>6, <2>7, <2>8, <2>9 DEF StartInv, StartPC
<1> QED BY <1>2, <1>3, <1>4, <1>5 DEF OwnerQuiet

\* StartDownloading launches the sections in their order.
LEMMA StartCountStart ==
  ASSUME ~Ended, TypeOK, PlacesInv, StartInv,
         LaunchStep(Owner, iStart, "begin", "start_loop"), StartCount
  PROVE  StartInv'
<1>0. ControlOK /\ iStart \in Nat BY DEF TypeOK, CountersOK
<1>1. /\ pc[Owner] = "start_count" /\ pc'[Owner] = "start_loop" /\ bNoNew' = bNoNew
      /\ iStart' = iStart + 1 /\ bOneStarted' = bOneStarted
  BY <1>0, ActorsAssumption DEF StartCount, ControlOK, Actor
<1>2. \A a \in Actor : pc'[a] \notin AddPC
  BY <1>0, <1>1 DEF StartInv, StartCount, ControlOK, AddPC
<1>3. \A s \in SectId : s >= iStart + 1 => pc'[s] = "none"
  <2>1. \A s \in SectId : s \in Nat BY DEF SectId
  <2> QED
    BY <1>0, <1>1, <2>1, ActorsAssumption DEF StartInv, StartCount,
       ControlOK, Actor
<1>4. bOneStarted BY <1>1 DEF StartInv
<1> QED BY <1>1, <1>2, <1>3, <1>4 DEF StartInv

\* A section thread, and the thread inside m_csDone, leave alone the section
\* that LaunchOneMoreSection has taken: it has no thread.
LEMMA ThreadOne ==
  ASSUME ~Ended, TypeOK, PlacesInv, OneInv,
         (\E s \in SectId : ThreadStep(s)) \/ TailThread
  PROVE  OneInv'
<1> SUFFICES ASSUME pc'[Owner] = "one_launch"
             PROVE  /\ iStart' <= n' /\ pc'[iStart'] = "none"
                    /\ state'[iStart'] = "STOPPED"
                    /\ \A a \in Actor :
                         pc'[a] \in {"add_start", "add_launch"} => iStart' # n'
  BY DEF OneInv
<1>0. ControlOK BY DEF TypeOK
<1>1. /\ pc'[Owner] = pc[Owner] /\ UNCHANGED <<iStart, n>>
      /\ \A a \in Actor : pc'[a] = pc[a] \/ pc'[a] \notin AddPC
      /\ \A t \in SectId : pc[t] = "none" => pc'[t] = "none"
  BY <1>0, ActorsAssumption DEF ThreadStep, TailThread, TailReturn, TailEnd,
     ControlOK, Actor, AddPC, SectPC
<1>2. /\ iStart <= n /\ pc[iStart] = "none" /\ state[iStart] = "STOPPED"
      /\ \A a \in Actor : pc[a] \in {"add_start", "add_launch"} => iStart # n
  BY <1>1 DEF OneInv
<1>3. iStart \in SectId
  BY <1>2, SizesAssumption DEF TypeOK, FieldsOK, CountersOK, SectId
<1>4. state'[iStart] = "STOPPED"
  BY <1>0, <1>2, <1>3 DEF ThreadStep, TailThread, TailReturn, TailEnd, ControlOK
<1> QED BY <1>1, <1>2, <1>3, <1>4 DEF AddPC

\* So does CreateAdditionalSection, which gives threads to other sections.
LEMMA AddOne ==
  ASSUME ~Ended, TypeOK, PlacesInv, OneInv, NEW a \in Actor,
         AddStep(a) \/ AddShrink(a) \/ AddInsert(a) \/ AddFixup(a) \/ AddLaunch(a)
  PROVE  OneInv'
<1> SUFFICES ASSUME pc'[Owner] = "one_launch"
             PROVE  /\ iStart' <= n' /\ pc'[iStart'] = "none"
                    /\ state'[iStart'] = "STOPPED"
                    /\ \A c \in Actor :
                         pc'[c] \in {"add_start", "add_launch"} => iStart' # n'
  BY DEF OneInv
<1>0. ControlOK /\ n \in Nat /\ iStart \in Nat BY DEF TypeOK, FieldsOK, CountersOK
<1>1. pc[Owner] = "one_launch"
  BY <1>0, ActorsAssumption DEF AddStep, AddShrink, AddInsert, AddFixup, AddReturn,
     After, AddLaunch, LaunchLast, ControlOK, Actor
<1>2. /\ iStart <= n /\ pc[iStart] = "none" /\ state[iStart] = "STOPPED"
      /\ \A c \in Actor : pc[c] \in {"add_start", "add_launch"} => iStart # n
  BY <1>1 DEF OneInv
<1>3. iStart \in SectId /\ iStart \in Actor
  BY <1>2, SizesAssumption DEF TypeOK, FieldsOK, CountersOK, SectId, Actor
<1>4. iStart' = iStart
  BY DEF AddStep, AddShrink, AddInsert, AddFixup, AddLaunch
<1>5. CASE AddInsert(a)
  <2>1. n' = n + 1 /\ pc' = [pc EXCEPT ![a] = "add_start"] /\ pc[a] = "add_insert"
        /\ state' = [state EXCEPT ![n + 1] = "CREATING"]
    BY <1>5 DEF AddInsert, Append
  <2> QED BY <1>0, <1>2, <1>3, <1>4, <2>1 DEF ControlOK
<1>6. CASE AddLaunch(a)
  <2>1. /\ n' = n /\ state' = state /\ pc[a] = "add_launch"
        /\ pc' = [pc EXCEPT ![n] = "begin", ![a] = "add_fixup"]
    BY <1>6 DEF AddLaunch, LaunchLast
  <2>2. iStart # n /\ iStart # a BY <1>2, <2>1
  <2>3. \A c \in Actor : pc'[c] \in {pc[c], "begin", "add_fixup"}
    BY <1>0, <2>1 DEF ControlOK
  <2> QED BY <1>0, <1>2, <1>3, <1>4, <2>1, <2>2, <2>3 DEF ControlOK
<1>7. CASE AddStep(a) \/ AddShrink(a) \/ AddFixup(a)
  <2>1. n' = n /\ state' = state BY <1>7 DEF AddStep, AddShrink, AddFixup
  <2>2. pc[a] # "none" /\ \E l : pc' = [pc EXCEPT ![a] = l]
    BY <1>7 DEF AddStep, AddShrink, AddFixup, AddReturn, AddPC
  <2>3. pc'[iStart] = "none" BY <1>0, <1>2, <1>3, <2>2 DEF ControlOK
  <2>4. \A c \in Actor : pc'[c] \in {"add_start", "add_launch"} =>
                           pc[c] \in {"add_start", "add_launch"}
    BY <1>0, <1>7 DEF AddStep, AddShrink, AddFixup, AddReturn, After, ControlOK,
       AddPC
  <2> QED BY <1>2, <1>4, <2>1, <2>3, <2>4
<1> QED BY <1>5, <1>6, <1>7

\* LaunchOneMoreSection takes such a section, or it is recorded that it did not.
LEMMA OneMoreOne ==
  ASSUME TypeOK, LaunchOneMoreSection PROVE OneInv'
<1> SUFFICES ASSUME ~Ended' PROVE OneInv' BY DEF OneInv
<1>0. ControlOK /\ n \in Nat BY DEF TypeOK, FieldsOK
<1>1. PICK s \in 1..n : /\ state[s] = "STOPPED" /\ iStart' = s
                        /\ odd' = odd \cup {o \in {"twice"} :
                                            pc[s] # "none" \/ BeingGiven(s)}
  BY DEF LaunchOneMoreSection
<1>2. pc[s] = "none" /\ ~BeingGiven(s) BY <1>1 DEF Ended
<1>3. /\ pc' = [pc EXCEPT ![Owner] = "one_launch"] /\ n' = n /\ state' = state
  BY DEF LaunchOneMoreSection
<1>4. s \in SectId /\ s <= n
  BY <1>0, SizesAssumption DEF TypeOK, FieldsOK, SectId
<1>5. pc'[s] = "none"
  BY <1>0, <1>2, <1>3, <1>4, ActorsAssumption DEF ControlOK, Actor
<1>6. \A a \in Actor : pc'[a] \in {"add_start", "add_launch"} => s # n
  BY <1>0, <1>2, <1>3 DEF BeingGiven, ControlOK
<1> QED BY <1>1, <1>3, <1>4, <1>5, <1>6 DEF OneInv

\* The owner does nothing else between taking the section and launching it.
LEMMA OwnerOne ==
  ASSUME ~Ended, TypeOK, PlacesInv, OneInv, OwnerCalls
  PROVE  OneInv'
<1>0. ControlOK BY DEF TypeOK
<1>1. CASE LaunchOneMoreSection BY <1>1, OneMoreOne
<1>2. CASE StopDownloading BY <1>2 DEF StopDownloading, OneInv
<1>3. CASE MainLaunch \/ OneLaunch
  <2>1. pc'[Owner] = "idle"
    BY <1>0, <1>3, ActorsAssumption DEF MainLaunch, LaunchLast, OneLaunch, ControlOK,
       Actor
  <2> QED BY <2>1 DEF OneInv
<1>4. CASE ~LaunchOneMoreSection /\ ~StopDownloading /\ ~MainLaunch /\ ~OneLaunch
  <2>1. \/ pc'[Owner] # "one_launch"
        \/ StartSkip
    BY <1>0, <1>4 DEF OwnerCalls, OwnerSteps, MainBegin, StartBegin, MainRefused,
       MainOpened, MainFails, MainStart, CountLast, MainNotInitialized,
       StartSection, StartOpened, StartNoFile, StartOpenFails, StartNoRanges,
       StartClear, StartLaunch, StartCount, StartEnd, ControlOK, Actor
  <2> QED BY <2>1 DEF StartSkip, OneInv
<1> QED BY <1>1, <1>2, <1>3, <1>4

\* A finished thread that asks for a section is not the last one: a section that
\* still downloads has a thread.
LEMMA AddTail ==
  ASSUME FieldsOK, ControlOK, PlacesInv, RunningCounted, DownloadingHasThread,
         TailAddInv, NEW a \in Actor,
         AddStep(a) \/ AddShrink(a) \/ AddInsert(a) \/ AddFixup(a)
  PROVE  TailAddInv'
<1> SUFFICES ASSUME "lost" \notin odd PROVE TailAddInv'
  BY DEF TailAddInv, AddStep, AddShrink, AddInsert, AddFixup
<1>1. Live \subseteq Live'
  BY ActorsAssumption DEF AddStep, AddShrink, AddInsert, AddFixup, AddReturn,
     After, ControlOK, Actor, Live
<1>2. CASE pc[Tail] \in AddPC BY <1>1, <1>2 DEF TailAddInv
<1>3. CASE a = Tail /\ pc[a] \notin AddPC
  <2>1. /\ n > 0 /\ IsAllSectionsOk /\ ~(IsDone /\ ~IsRunning)
    BY <1>3, ActorsAssumption DEF AddStep, AddShrink, AddInsert, AddFixup,
       AddPC,
       MayCallAddSection, Actor
  <2>2. CASE IsRunning BY <1>1, <2>2, Running DEF TailAddInv
  <2>3. CASE ~IsRunning
    <3>1. PICK s \in 1..n : state[s] = "DOWNLOADING"
      BY <2>1, <2>3 DEF IsDone, IsAllSectionsOk
    <3>2. s \in Live
      BY SMTT(30), <3>1, SizesAssumption DEF FieldsOK, SectId, DownloadingHasThread,
         Live
    <3> QED BY <1>1, <3>2 DEF TailAddInv
  <2> QED BY <2>2, <2>3
<1>4. CASE a # Tail /\ pc[Tail] \notin AddPC
  <2>1. pc'[Tail] = pc[Tail]
    BY <1>4 DEF AddStep, AddShrink, AddInsert, AddFixup, AddReturn, ControlOK,
       Actor
  <2> QED BY <1>4, <2>1 DEF TailAddInv
<1> QED BY <1>2, <1>3, <1>4

\* The other actors keep TailAddInv.
LEMMA OtherTail ==
  ASSUME ControlOK, PlacesInv, TailAddInv,
         \/ TailThread \/ OwnerStep \/ MainOpened \/ StartClear
         \/ \E s \in SectId : ThreadStep(s)
         \/ \E a, t, b, l : LaunchStep(a, t, b, l)
  PROVE  TailAddInv'
<1>1. CASE \E s \in SectId : ThreadStep(s)
  <2>1. PICK s \in SectId : ThreadStep(s) BY <1>1
  <2>2. CASE pc[s] = "count_out"
    <3>1. pc'[Tail] = "tail_event"
      BY <2>1, <2>2, ActorsAssumption DEF ThreadStep, ControlOK, Actor
    <3> QED BY <3>1 DEF TailAddInv, AddPC
  <2>3. CASE pc[s] # "count_out"
    <3>1. pc'[Tail] = pc[Tail] /\ odd' = odd /\ Live' = Live
      BY <2>1, <2>3, ActorsAssumption DEF ThreadStep, ControlOK, Actor, Live
    <3> QED BY <3>1 DEF TailAddInv
  <2> QED BY <2>2, <2>3
<1>2. CASE \E a, t, b, l : LaunchStep(a, t, b, l)
  <2>1. PICK a, t, b, l : LaunchStep(a, t, b, l) BY <1>2
  <2>2. t \in Live'
    BY <2>1, ActorsAssumption DEF LaunchStep, Launched, ControlOK, Actor, Live
  <2> QED BY <2>2 DEF TailAddInv
<1>3. CASE TailThread
  BY <1>3 DEF TailThread, TailReturn, TailEnd, TailAddInv, ControlOK, Actor,
     AddPC
<1>4. CASE OwnerStep \/ MainOpened \/ StartClear
  <2>1. odd \subseteq odd' /\ \A a \in Actor : a # Owner => pc'[a] = pc[a]
    BY <1>4 DEF OwnerStep, MainOpened, StartClear, ControlOK
  <2>2. pc'[Tail] = pc[Tail] /\ Live' = Live
    BY <2>1, ActorsAssumption DEF Actor, Live
  <2> QED BY <2>1, <2>2 DEF TailAddInv
<1> QED BY <1>1, <1>2, <1>3, <1>4
-----------------------------------------------------------------------------
(* NoHole.                                                                 *)

\* Pending changes only with the caller that holds m_csAddSection.
LEMMA NoHoleKept ==
  ASSUME NoHole, UNCHANGED <<n, uStart, uEnd>>, Pending' = Pending PROVE NoHole'
BY DEF NoHole

\* What is pending depends on the caller that holds m_csAddSection only.
LEMMA PendingKept ==
  ASSUME ControlOK, UNCHANGED <<add, csAdd>>,
         \A a \in Actor : \/ pc'[a] = pc[a]
                          \/ pc'[a] # "add_insert" /\ pc[a] # "add_insert"
  PROVE  Pending' = Pending
BY DEF Pending, ControlOK

\* A section thread moves no border of a section.
LEMMA ThreadNoHole ==
  ASSUME ControlOK, PlacesInv, NEW s \in SectId, ThreadStep(s), NoHole PROVE NoHole'
<1>1. \A a \in Actor : \/ pc'[a] = pc[a]
                       \/ pc'[a] # "add_insert" /\ pc[a] # "add_insert"
  BY ActorsAssumption DEF ThreadStep, ControlOK, PlacesInv, Actor, SectPC,
     TailPC
<1>2. Pending' = Pending BY <1>1, PendingKept DEF ThreadStep
<1> QED BY <1>2, NoHoleKept DEF ThreadStep

\* Nor does the thread inside m_csDone.
LEMMA TailNoHole ==
  ASSUME ControlOK, PlacesInv, TailThread, NoHole PROVE NoHole'
<1>1. \A a \in Actor : \/ pc'[a] = pc[a]
                       \/ pc'[a] # "add_insert" /\ pc[a] # "add_insert"
  BY ActorsAssumption DEF TailThread, TailReturn, TailEnd, ControlOK, Actor
<1>2. UNCHANGED <<n, uStart, uEnd, add, csAdd>>
  BY DEF TailThread, TailReturn, TailEnd
<1>3. Pending' = Pending BY <1>1, <1>2, PendingKept
<1> QED BY <1>2, <1>3, NoHoleKept

\* Nor do the quiet steps of CreateAdditionalSection.
LEMMA AddNoHole ==
  ASSUME ControlOK, PlacesInv, NEW a \in Actor, AddStep(a), NoHole PROVE NoHole'
<1>1. pc[a] # "add_insert" /\ pc'[a] # "add_insert"
  BY DEF AddStep, ControlOK, Actor, AddPC, After
<1>2. \A b \in Actor : b # a => pc'[b] = pc[b] BY DEF AddStep, ControlOK
<1>3. CASE csAdd' = csAdd /\ add' = add
  <2>1. \A b \in Actor : \/ pc'[b] = pc[b]
                         \/ pc'[b] # "add_insert" /\ pc[b] # "add_insert"
    BY <1>1, <1>2
  <2>2. Pending' = Pending BY <1>3, <2>1, PendingKept
  <2> QED BY <2>2, NoHoleKept DEF AddStep
<1>4. CASE csAdd = a \/ (csAdd = None /\ csAdd' = a)
  <2>1. csAdd' \in {a, None} BY <1>4 DEF AddStep
  <2>2. Pending = {} BY <1>1, <1>4 DEF Pending
  <2>3. Pending' = {} BY <1>1, <2>1 DEF Pending
  <2> QED BY <2>2, <2>3, NoHoleKept DEF AddStep
<1>5. \/ csAdd = a
      \/ csAdd' = csAdd /\ add' = add
      \/ csAdd = None /\ csAdd' = a
  BY DEF AddStep, PlacesInv, AddPC
<1> QED BY <1>3, <1>4, <1>5

\* Nor do the quiet steps of the owner.
LEMMA OwnerNoHole ==
  ASSUME ControlOK, PlacesInv, OwnerStep, NoHole
  PROVE  NoHole'
<1>1. /\ pc[Owner] # "add_insert" \/ pc' = pc
      /\ pc'[Owner] # "add_insert" \/ pc' = pc
      /\ \A a \in Actor : a # Owner => pc'[a] = pc[a]
  BY DEF OwnerStep, ControlOK, Actor, OwnerPC
<1>2. CASE csAdd' = csAdd
  <2>1. \A b \in Actor : \/ pc'[b] = pc[b]
                         \/ pc'[b] # "add_insert" /\ pc[b] # "add_insert"
    BY <1>1
  <2>2. add' = add BY DEF OwnerStep
  <2>3. Pending' = Pending BY <1>2, <2>1, <2>2, PendingKept
  <2> QED BY <2>3, NoHoleKept DEF OwnerStep
<1>3. CASE csAdd' # csAdd
  <2>1. /\ csAdd \in {None, Owner} /\ csAdd' \in {None, Owner}
        /\ pc[Owner] # "add_insert" /\ pc'[Owner] # "add_insert"
    BY <1>3 DEF OwnerStep, PlacesInv, ControlOK, Actor
  <2>2. Pending = {} /\ Pending' = {} BY <2>1 DEF Pending
  <2> QED BY <2>2, NoHoleKept DEF OwnerStep
<1> QED BY <1>2, <1>3

\* Nor does a launch.
LEMMA LaunchNoHole ==
  ASSUME ControlOK, PlacesInv, NEW a, NEW t, NEW b, NEW l, LaunchStep(a, t, b, l),
         NoHole
  PROVE  NoHole'
<1>1. \A c \in Actor : \/ pc'[c] = pc[c]
                       \/ pc'[c] # "add_insert" /\ pc[c] # "add_insert"
  BY DEF LaunchStep, Launched, ControlOK
<1>2. CASE csAdd' = csAdd
  <2>1. add' = add BY DEF LaunchStep
  <2>2. Pending' = Pending BY <1>1, <1>2, <2>1, PendingKept
  <2> QED BY <2>2, NoHoleKept DEF LaunchStep
<1>3. CASE csAdd' # csAdd
  <2>1. a = Owner /\ pc[a] = "main_launch" /\ csAdd' = None /\ csAdd = Owner
    BY <1>3 DEF LaunchStep, PlacesInv
  <2>2. Pending = {} /\ Pending' = {} BY <2>1 DEF Pending
  <2> QED BY <2>2, NoHoleKept DEF LaunchStep
<1> QED BY <1>2, <1>3

\* The cut: what the target gives up is pending ...
LEMMA AddShrinkNoHole ==
  ASSUME FieldsOK, ControlOK, PlacesInv, NEW a \in Actor, AddInv(a),
         AddShrink(a), NoHole
  PROVE  NoHole'
<1> DEFINE t == add.target
<1>0. /\ n \in Nat /\ FileSize \in Nat /\ t \in SectId
      /\ add.split \in Nat /\ add.end \in Nat
      /\ uStart[t] \in Nat /\ uEnd[t] \in Nat
  <2>1. t \in SectId BY DEF ControlOK
  <2> QED BY <2>1, SizesAssumption DEF FieldsOK, ControlOK
<1>1. /\ pc[a] = "add_shrink" /\ csAdd = a /\ n > 0 /\ t <= n
      /\ uStart[t] <= add.split /\ add.split < add.end /\ add.end = uEnd[t]
  BY DEF AddShrink, AddInv, PlacesInv, AddPC
<1>2. /\ UNCHANGED <<n, uStart, add, csAdd>> /\ pc'[a] = "add_insert"
      /\ uEnd' = [uEnd EXCEPT ![t] = add.split]
  BY DEF AddShrink, ControlOK
<1>3. csAdd # None BY <1>1, ActorsAssumption DEF Actor
<1>4. Pending = {} /\ Pending' = add.split..(add.end - 1)
  BY <1>1, <1>2, <1>3 DEF Pending
<1>5. ASSUME NEW b \in Bytes \ Pending'
      PROVE  \E s \in 1..n : uStart[s] <= b /\ b < uEnd'[s]
  <2>1. PICK s \in 1..n : uStart[s] <= b /\ b < uEnd[s]
    BY <1>1, <1>4 DEF NoHole
  <2>2. s \in SectId /\ b \in Nat BY SizesAssumption DEF FieldsOK, SectId, Bytes
  <2>3. CASE s # t
    <3>1. uEnd'[s] = uEnd[s] BY <1>2, <2>2, <2>3 DEF FieldsOK
    <3> QED BY <2>1, <3>1
  <2>4. CASE s = t
    <3>1. uEnd'[s] = add.split BY <1>0, <1>2, <2>4 DEF FieldsOK
    <3>2. b < add.split BY <1>0, <1>1, <1>4, <2>1, <2>2, <2>4
    <3> QED BY <2>1, <3>1, <3>2
  <2> QED BY <2>3, <2>4
<1> QED BY <1>2, <1>5 DEF NoHole, Bytes

\* ... until the new section takes it.
LEMMA AddInsertNoHole ==
  ASSUME FieldsOK, ControlOK, PlacesInv, NEW a \in Actor, AddInv(a),
         AddInsert(a), NoHole
  PROVE  NoHole'
<1>0. /\ n \in Nat /\ FileSize \in Nat /\ add.split \in Nat /\ add.end \in Nat
      /\ n + 1 \in SectId
  <2>1. n < MaxSections BY DEF AddInsert, AddInv
  <2> QED BY <2>1, SizesAssumption DEF FieldsOK, ControlOK, SectId
<1>1. pc[a] = "add_insert" /\ csAdd = a /\ n > 0
  BY DEF AddInsert, AddInv, PlacesInv, AddPC
<1>2. /\ n' = n + 1 /\ UNCHANGED <<add, csAdd>> /\ pc'[a] = "add_start"
      /\ uStart' = [uStart EXCEPT ![n + 1] = add.split]
      /\ uEnd' = [uEnd EXCEPT ![n + 1] = add.end]
  BY DEF AddInsert, Append, ControlOK
<1>3. csAdd # None BY <1>1, ActorsAssumption DEF Actor
<1>4. Pending = add.split..(add.end - 1)
  BY <1>1, <1>3 DEF Pending
<1>5. ASSUME NEW b \in Bytes
      PROVE  \E s \in 1..(n + 1) : uStart'[s] <= b /\ b < uEnd'[s]
  <2>0. b \in Nat BY SizesAssumption DEF Bytes
  <2>1. CASE b \in Pending
    <3>1. uStart'[n + 1] = add.split /\ uEnd'[n + 1] = add.end
      BY <1>0, <1>2 DEF FieldsOK
    <3>2. uStart'[n + 1] <= b /\ b < uEnd'[n + 1]
      BY <1>0, <1>4, <2>0, <2>1, <3>1
    <3> QED BY <1>0, <3>2
  <2>2. CASE b \notin Pending
    <3>1. PICK s \in 1..n : uStart[s] <= b /\ b < uEnd[s]
      BY <1>1, <2>2 DEF NoHole
    <3>2. s \in SectId /\ s # n + 1 /\ s \in 1..(n + 1)
      BY <1>0, SizesAssumption DEF FieldsOK, SectId
    <3>3. uStart'[s] = uStart[s] /\ uEnd'[s] = uEnd[s]
      BY <1>2, <3>2 DEF FieldsOK
    <3> QED BY <3>1, <3>2, <3>3
  <2> QED BY <2>1, <2>2
<1> QED BY <1>2, <1>5 DEF NoHole, Bytes

\* The fix-up only lets the target overlap its successor.
LEMMA AddFixupNoHole ==
  ASSUME FieldsOK, ControlOK, PlacesInv, NEW a \in Actor, AddFixup(a), NoHole
  PROVE  NoHole'
<1>1. csAdd = a /\ pc[a] = "add_fixup" /\ csAdd' = None
  BY DEF AddFixup, AddReturn, PlacesInv, AddPC
<1>2. Pending = {} /\ Pending' = {} BY <1>1 DEF Pending
<1>3. \A s \in SectId : uEnd[s] <= uEnd'[s] /\ uStart'[s] = uStart[s]
  <2> SUFFICES ASSUME NEW s \in SectId
               PROVE  uEnd[s] <= uEnd'[s] /\ uStart'[s] = uStart[s] OBVIOUS
  <2>1. uEnd[s] \in Nat /\ uCurrent[s] \in Nat BY SizesAssumption DEF FieldsOK
  <2> QED BY <2>1 DEF AddFixup, FieldsOK
<1>4. n' = n /\ 1..n \subseteq SectId /\ Bytes \subseteq Nat
  BY SizesAssumption DEF AddFixup, FieldsOK, SectId, Bytes
<1>5. ASSUME n > 0, NEW b \in Bytes
      PROVE  \E s \in 1..n : uStart'[s] <= b /\ b < uEnd'[s]
  <2>1. PICK s \in 1..n : uStart[s] <= b /\ b < uEnd[s] BY <1>2, <1>5 DEF NoHole
  <2>2. uEnd[s] \in Nat /\ uEnd'[s] \in Int
    BY <1>4, SizesAssumption DEF FieldsOK, AddFixup
  <2> QED BY <1>3, <1>4, <2>1, <2>2
<1> QED BY <1>2, <1>4, <1>5 DEF NoHole, Bytes

\* The main section covers the file.
LEMMA MainNoHole ==
  ASSUME FieldsOK, ControlOK, PlacesInv, MainOpened \/ StartClear, NoHole PROVE NoHole'
<1>1. CASE StartClear BY <1>1 DEF StartClear, NoHole
<1>2. CASE MainOpened
  <2>1. n' = 1 /\ 1 \in SectId
    BY <1>2, SizesAssumption DEF MainOpened, Append, PlacesInv, SectId
  <2>2. uStart'[1] = 0 /\ uEnd'[1] = FileSize
    BY <1>2, <2>1 DEF MainOpened, Append, FieldsOK, PlacesInv
  <2>3. \A b \in Bytes : uStart'[1] <= b /\ b < uEnd'[1]
    BY <2>2, SizesAssumption DEF Bytes
  <2> QED BY <2>1, <2>3 DEF NoHole, Bytes
<1> QED BY <1>1, <1>2
-----------------------------------------------------------------------------
(* The invariant and what follows from it.                                 *)

\* The invariant holds initially.
LEMMA InitInv == ASSUME Init PROVE IndInv
<1>1. FieldsOK BY SizesAssumption DEF Init, FieldsOK
<1>2. ControlOK
  <2>1. 1 \in SectId BY SizesAssumption DEF SectId
  <2>2. tail \in [sect : SectId, kind : SectionState]
    BY <2>1 DEF Init, NoTail, SectionState
  <2>3. add \in [target : SectId, max : Nat, corr : Nat, split : Nat, end : Nat]
    BY <2>1 DEF Init, NoAdd
  <2>4. pc \in [Actor -> SectPC \cup OwnerPC \cup TailPC \cup AddPC]
    BY DEF Init, SectPC, OwnerPC
  <2> QED BY <2>2, <2>3, <2>4 DEF Init, ControlOK, SectionState
<1>3. FlagsOK BY DEF Init, FlagsOK
<1>4. CountersOK BY SizesAssumption DEF Init, CountersOK
<1>5. \A s \in SectId : pc[s] = "none" /\ ~(s <= 0)
  BY ActorsAssumption DEF Init, Actor, SectId
<1>6. pc[Owner] = "idle" /\ pc[Tail] = "none" /\ n = 0 /\ csAdd = None
  BY ActorsAssumption DEF Init, Actor
<1>7. \A a \in Actor : pc[a] \notin AddPC \cup LaunchPC
  BY <1>5, <1>6 DEF Actor, AddPC, LaunchPC
<1>8. PlacesInv BY <1>5, <1>6, <1>7 DEF PlacesInv, SectPC, OwnerPC, TailPC
<1>9. LaunchInv BY <1>7 DEF LaunchInv, LaunchPC
<1>10. \A s \in SectId : ThreadInv(s) /\ (s <= n => SectionInv(s))
  BY <1>5, <1>6 DEF ThreadInv, Init
<1>11. \A a \in Actor : AddInv(a) BY <1>7 DEF AddInv, AddPC
<1>12. StartInv /\ OneInv /\ TailAddInv
  BY <1>6 DEF StartInv, OneInv, TailAddInv, AddPC
<1>13. NoHole BY <1>6 DEF NoHole
<1>14. RunningCounted
  <2>1. Live = {} BY <1>5 DEF Live
  <2> QED BY <2>1, FS_EmptySet DEF RunningCounted, Init
<1>15. RunNotMissed BY DEF Init, RunNotMissed
<1>16. DownloadingHasThread BY <1>6 DEF DownloadingHasThread
<1> QED BY <1>1, <1>2, <1>3, <1>4, <1>8, <1>9, <1>10, <1>11, <1>12, <1>13,
           <1>14, <1>15, <1>16 DEF IndInv, TypeOK

\* Every step of a section thread keeps the invariant.
LEMMA ThreadPreserves ==
  ASSUME ~Ended, IndInv, NEW s \in SectId, SectionThread(s) PROVE IndInv'
<1> USE DEF IndInv, TypeOK
<1>1. ThreadStep(s) BY ThreadFrame
<1>2. s <= n
  <2>1. pc[s] # "none" BY <1>1 DEF ThreadStep
  <2> QED BY <2>1 DEF ThreadInv
<1>3. SectionInv(s) /\ ThreadInv(s) BY <1>2
<1>4. TypeOK' BY <1>3, ThreadFields, ThreadControl, ThreadFlags, ThreadCounters
<1>5. PlacesInv' BY <1>1, ThreadPlaces
<1>6. LaunchInv' /\ \A a \in Actor : AddInv(a)' BY <1>1, ThreadAdd
<1>7. ASSUME NEW t \in SectId PROVE ThreadInv(t)' /\ (t <= n => SectionInv(t))'
  <2>1. CASE t = s BY <1>3, <2>1, ThreadSection
  <2>2. CASE t # s BY <1>1, <2>2, ThreadSections
  <2> QED BY <2>1, <2>2
<1>8. StartInv' BY <1>1, ThreadStart
<1>9. OneInv' BY <1>1, ThreadOne
<1>10. TailAddInv' BY <1>1, OtherTail
<1>11. NoHole' BY <1>1, ThreadNoHole
<1>12. RunningCounted' BY <1>1, ThreadCounted
<1>13. RunNotMissed' BY <1>1, OthersNotMissed DEF ThreadStep
<1>14. DownloadingHasThread' BY <1>1, <1>3, ThreadDownloading
<1> QED BY <1>4, <1>5, <1>6, <1>7, <1>8, <1>9, <1>10, <1>11, <1>12, <1>13,
           <1>14

\* Every step of the thread inside m_csDone keeps the invariant.
LEMMA TailPreserves == ASSUME ~Ended, IndInv, TailThread PROVE IndInv'
<1> USE DEF IndInv, TypeOK
<1>1. TypeOK'
  <2>1. FieldsOK' /\ FlagsOK' /\ CountersOK'
    BY DEF TailThread, TailReturn, TailEnd, FieldsOK, FlagsOK, CountersOK
  <2>2. NoTail \in [sect : SectId, kind : SectionState]
    BY SizesAssumption DEF NoTail, SectId, SectionState
  <2>3. tail' \in [sect : SectId, kind : SectionState]
    BY <2>2 DEF TailThread, TailReturn, TailEnd, ControlOK
  <2>4. state' \in [SectId -> SectionState]
    BY DEF TailThread, TailReturn, TailEnd, ControlOK, SectionState
  <2>5. pc' \in [Actor -> SectPC \cup OwnerPC \cup TailPC \cup AddPC]
    BY DEF TailThread, TailReturn, TailEnd, ControlOK, TailPC
  <2> QED
    BY <2>1, <2>3, <2>4, <2>5 DEF TailThread, TailReturn, TailEnd, ControlOK
<1>2. PlacesInv' BY TailPlaces
<1>3. LaunchInv' /\ \A a \in Actor : AddInv(a)' BY TailAdd
<1>4. \A t \in SectId : ThreadInv(t)' /\ (t <= n => SectionInv(t))'
  BY TailSections
<1>5. StartInv' BY TailStart
<1>6. OneInv' BY ThreadOne
<1>7. TailAddInv' BY OtherTail
<1>8. NoHole' BY TailNoHole
<1>9. RunningCounted' BY OthersCounted
<1>10. RunNotMissed'
  BY OthersNotMissed DEF TailThread, TailReturn, TailEnd
<1>11. DownloadingHasThread' BY TailDownloading
<1> QED BY <1>1, <1>2, <1>3, <1>4, <1>5, <1>6, <1>7, <1>8, <1>9, <1>10, <1>11

\* Every launch of a thread keeps the invariant.
LEMMA LaunchPreserves ==
  ASSUME ~Ended, IndInv, TypeOK', StartInv', OneInv',
         NEW a, NEW t, NEW b, NEW l, LaunchStep(a, t, b, l)
  PROVE  IndInv'
<1> USE DEF IndInv, TypeOK
<1>1. PlacesInv' BY LaunchPlaces
<1>2. LaunchInv' /\ \A c \in Actor : AddInv(c)' BY LaunchAdd
<1>3. \A u \in SectId : ThreadInv(u)' /\ (u <= n => SectionInv(u))'
  BY LaunchSections
<1>4. TailAddInv' BY OtherTail
<1>5. NoHole' BY LaunchNoHole
<1>6. RunningCounted' BY LaunchCounted
<1>7. RunNotMissed' BY OthersNotMissed DEF LaunchStep
<1>8. DownloadingHasThread' BY LaunchDownloading
<1> QED BY <1>1, <1>2, <1>3, <1>4, <1>5, <1>6, <1>7, <1>8

\* Every step of CreateAdditionalSection keeps the invariant.
LEMMA AddPreserves ==
  ASSUME ~Ended, IndInv, NEW a \in Actor, AddSection(a) \/ AddSteps(a)
  PROVE  IndInv'
<1> USE DEF IndInv, TypeOK
<1>1. TypeOK'
  <2>1. AddFixup(a) => add.target \in SectId /\ add.target <= n
    BY DEF AddFixup, AddInv, AddPC, ControlOK
  <2> QED BY <2>1, AddFields, AddControl, AddFlags, AddCounters
<1>2. \A b \in Actor : AddInv(b)' BY AddSelf, AddOthers
<1>3. CASE AddQuiet(a)
  <2>1. AddStep(a) BY <1>3, AddFrame
  <2>2. PlacesInv' BY <2>1, AddPlaces
  <2>3. LaunchInv' BY <2>1, AddLaunchInv
  <2>4. \A t \in SectId : ThreadInv(t)' /\ (t <= n => SectionInv(t))'
    BY <2>1, AddSections
  <2>5. StartInv' BY <2>1, AddStartInv
  <2>6. OneInv' BY <2>1, AddOne
  <2>7. TailAddInv' BY <2>1, AddTail
  <2>8. NoHole' BY <2>1, AddNoHole
  <2>9. RunningCounted' BY <2>1, OthersCounted
  <2>10. RunNotMissed' BY <2>1, OthersNotMissed DEF AddStep
  <2>11. DownloadingHasThread' BY <2>1, AddDownloading
  <2> QED BY <1>1, <1>2, <2>2, <2>3, <2>4, <2>5, <2>6, <2>7, <2>8, <2>9, <2>10,
             <2>11
<1>4. CASE AddShrink(a) \/ AddInsert(a) \/ AddFixup(a)
  <2>1. PlacesInv' BY <1>4, AddListPlaces
  <2>2. LaunchInv' BY <1>4, AddLaunchInv, AppendLaunch
  <2>3. \A t \in SectId : ThreadInv(t)' /\ (t <= n => SectionInv(t))'
    BY <1>4, AddListSections
  <2>4. StartInv' BY <1>4, AddStartInv
  <2>5. OneInv' BY <1>4, AddOne
  <2>6. TailAddInv' BY <1>4, AddTail
  <2>7. NoHole' BY <1>4, AddShrinkNoHole, AddInsertNoHole, AddFixupNoHole
  <2>8. RunningCounted' BY <1>4, OthersCounted
  <2>9. RunNotMissed'
    BY <1>4, OthersNotMissed DEF AddShrink, AddInsert, AddFixup
  <2>10. DownloadingHasThread' BY <1>4, AddDownloading, AppendDownloading
  <2> QED BY <1>1, <1>2, <2>1, <2>2, <2>3, <2>4, <2>5, <2>6, <2>7, <2>8, <2>9,
             <2>10
<1>5. CASE AddLaunch(a)
  <2>1. LaunchStep(a, n, "begin", "add_fixup") BY <1>5, AddLaunchFrame
  <2>2. pc[a] = "add_launch" BY <1>5 DEF AddLaunch
  <2>3. StartInv' BY <2>1, <2>2, AddStartInv
  <2>4. OneInv' BY <1>5, AddOne
  <2> QED BY <1>1, <2>1, <2>3, <2>4, LaunchPreserves
<1> QED BY <1>3, <1>4, <1>5 DEF AddSteps, AddQuiet

\* Every call of the owner keeps the invariant.
LEMMA OwnerPreserves == ASSUME ~Ended, IndInv, OwnerCalls PROVE IndInv'
<1> USE DEF IndInv, TypeOK
<1>1. TypeOK' BY OwnerFields, OwnerControl, OwnerFlags, OwnerCounters
<1>2. OneInv' BY OwnerOne
<1>3. Owner \in Actor /\ AddInv(Owner) BY DEF Actor
<1>4. CASE OwnerQuiet
  <2>1. OwnerStep BY <1>4, OwnerFrame
  <2>2. PlacesInv' BY <2>1, OwnerPlaces
  <2>3. LaunchInv' /\ \A b \in Actor : AddInv(b)' BY <2>1, OwnerAdd
  <2>4. \A t \in SectId : ThreadInv(t)' /\ (t <= n => SectionInv(t))'
    BY <2>1, OwnerSections
  <2>5. StartInv' BY <1>4, OwnerStart
  <2>6. TailAddInv' BY <2>1, OtherTail
  <2>7. NoHole' BY <2>1, OwnerNoHole
  <2>8. RunningCounted' BY <2>1, OthersCounted
  <2>9. RunNotMissed' BY <1>4, StartBeginNotMissed, OthersNotMissed
  <2>10. DownloadingHasThread' BY <2>1, OwnerDownloading
  <2> QED BY <1>1, <1>2, <2>2, <2>3, <2>4, <2>5, <2>6, <2>7, <2>8, <2>9, <2>10
<1>5. CASE MainOpened
  <2>1. PlacesInv' BY <1>5, OwnerListPlaces
  <2>2. LaunchInv' BY <1>3, <1>5, AppendLaunch
  <2>3. \A b \in Actor : AddInv(b)' BY <1>5, MainOpenedAdd
  <2>4. \A t \in SectId : ThreadInv(t)' /\ (t <= n => SectionInv(t))'
    BY <1>5, MainOpenedSections
  <2>5. StartInv' BY <1>5, OwnerStart
  <2>6. TailAddInv' BY <1>5, OtherTail
  <2>7. NoHole' BY <1>5, MainNoHole
  <2>8. RunningCounted' BY <1>5, OthersCounted
  <2>9. RunNotMissed' BY <1>5, OthersNotMissed DEF MainOpened
  <2>10. DownloadingHasThread' BY <1>3, <1>5, AppendDownloading
  <2> QED BY <1>1, <1>2, <2>1, <2>2, <2>3, <2>4, <2>5, <2>6, <2>7, <2>8, <2>9,
             <2>10
<1>6. CASE StartClear
  <2>1. \A s \in SectId : pc[s] = "none"
    BY <1>6 DEF StartClear, StartInv, Live
  <2>2. PlacesInv' BY <1>6, OwnerListPlaces
  <2>3. LaunchInv' /\ \A b \in Actor : AddInv(b)' BY <1>6, StartClearAdd
  <2>4. \A t \in SectId : ThreadInv(t)' /\ (t <= n => SectionInv(t))'
    BY <1>6, <2>1, StartClearSections
  <2>5. StartInv' BY <1>6, OwnerStart
  <2>6. TailAddInv' BY <1>6, OtherTail
  <2>7. NoHole' BY <1>6, MainNoHole
  <2>8. RunningCounted' BY <1>6, OthersCounted
  <2>9. RunNotMissed' BY <1>6, OthersNotMissed DEF StartClear
  <2>10. DownloadingHasThread' BY <1>6 DEF StartClear, DownloadingHasThread
  <2> QED BY <1>1, <1>2, <2>2, <2>3, <2>4, <2>5, <2>6, <2>7, <2>8, <2>9, <2>10
<1>7. CASE MainLaunch
  <2>1. LaunchStep(Owner, n, "begin", "idle") BY <1>7, MainLaunchFrame
  <2>2. StartInv' BY <1>7, OwnerStart
  <2> QED BY <1>1, <1>2, <2>1, <2>2, LaunchPreserves
<1>8. CASE StartCount
  <2>1. LaunchStep(Owner, iStart, "begin", "start_loop")
    BY <1>8, StartCountFrame
  <2>2. StartInv' BY <1>8, <2>1, StartCountStart
  <2> QED BY <1>1, <1>2, <2>1, <2>2, LaunchPreserves
<1>9. CASE OneLaunch
  <2>1. LaunchStep(Owner, iStart, "begin_nofile", "idle")
    BY <1>9, OneLaunchFrame
  <2>2. StartInv' BY <1>9, OwnerStart
  <2> QED BY <1>1, <1>2, <2>1, <2>2, LaunchPreserves
<1> QED
  BY <1>4, <1>5, <1>6, <1>7, <1>8, <1>9 DEF OwnerCalls, OwnerSteps, OwnerQuiet

\* A stuttering step keeps the invariant.
LEMMA StutterPreserves == ASSUME IndInv, UNCHANGED vars PROVE IndInv'
<1>1. TypeOK'
  BY DEF vars, IndInv, TypeOK, FieldsOK, ControlOK, FlagsOK, CountersOK
<1>2. PlacesInv' /\ LaunchInv' /\ StartInv' /\ OneInv' /\ TailAddInv'
  BY DEF vars, IndInv, PlacesInv, LaunchInv, StartInv, OneInv, TailAddInv,
     Ended, Live
<1>3. \A s \in SectId : ThreadInv(s)' /\ (s <= n => SectionInv(s))'
  BY DEF vars, IndInv, ThreadInv, SectionInv, Pos
<1>4. \A a \in Actor : AddInv(a)' BY DEF vars, IndInv, AddInv
<1>5. NoHole' /\ RunningCounted' /\ RunNotMissed' /\ DownloadingHasThread'
  BY DEF vars, IndInv, NoHole, Pending, RunningCounted, Live, RunNotMissed,
     DownloadingHasThread
<1> QED BY <1>1, <1>2, <1>3, <1>4, <1>5 DEF IndInv

\* The invariant of the downloader: it holds initially and every action keeps it.
THEOREM Invariance == Spec => []IndInv
<1>1. Init => IndInv BY InitInv
<1>2. IndInv /\ [Next]_vars => IndInv'
  <2> SUFFICES ASSUME IndInv, [Next]_vars PROVE IndInv' OBVIOUS
  <2>1. CASE UNCHANGED vars BY <2>1, StutterPreserves
  <2>2. CASE Next
    BY <2>2, ThreadPreserves, TailPreserves, AddPreserves, OwnerPreserves
    DEF Next, Step, OwnerCalls
  <2> QED BY <2>1, <2>2
<1> QED BY <1>1, <1>2, PTL DEF Spec

\* Every variable keeps its type.
THEOREM TypeCorrect == Spec => []TypeOK
<1>1. IndInv => TypeOK BY DEF IndInv
<1> QED BY <1>1, Invariance, PTL

\* No byte of the file is ever lost between two sections, whatever splits,
\* failures, stops and restarts of StartDownloading occurred.
THEOREM NoHoleAlways == Spec => []NoHole
<1>1. IndInv => NoHole BY DEF IndInv
<1> QED BY <1>1, Invariance, PTL

\* What a resume skips is on disk: every section has written [uStart, uCurrent),
\* no roll back takes it below its start and no read past the end of the file.
THEOREM PrefixWrittenAlways == Spec => []PrefixWritten
<1>1. ASSUME IndInv PROVE PrefixWritten
  <2> SUFFICES ASSUME NEW s \in 1..n
               PROVE  /\ uStart[s] <= uCurrent[s] /\ Pos(s) <= FileSize
                      /\ uStart[s]..(uCurrent[s] - 1) \subseteq written
    BY DEF PrefixWritten
  <2>1. s \in SectId /\ s <= n
    BY <1>1, SizesAssumption DEF IndInv, TypeOK, FieldsOK, SectId
  <2>2. SectionInv(s) BY <1>1, <2>1 DEF IndInv
  <2>3. uCurrent[s] \in Nat /\ dwCacheLen[s] \in Nat /\ buf[s] \in Nat
    BY <1>1, <2>1 DEF IndInv, TypeOK, FieldsOK
  <2>4. Pos(s) <= FileSize BY <2>2, <2>3, SizesAssumption DEF SectionInv, Pos
  <2> QED BY <2>2, <2>4 DEF SectionInv
<1> QED BY <1>1, Invariance, PTL

\* A list whose sections are all SS_DONE stands for a complete file, except for
\* the part CreateAdditionalSection is about to append.
THEOREM DoneMeansCompleteAlways == Spec => []DoneMeansComplete
<1>1. ASSUME IndInv PROVE DoneMeansComplete
  <2> SUFFICES ASSUME IsDone, NEW b \in Bytes \ Pending PROVE b \in written
    BY DEF DoneMeansComplete
  <2>1. n > 0 BY <1>1 DEF IsDone, IndInv, TypeOK, FieldsOK
  <2>2. PICK s \in 1..n : uStart[s] <= b /\ b < uEnd[s]
    BY <1>1, <2>1 DEF IndInv, NoHole
  <2>3. s \in SectId /\ s <= n /\ b \in Nat
    BY <1>1, SizesAssumption DEF IndInv, TypeOK, FieldsOK, SectId, Bytes
  <2>4. uEnd[s] <= uCurrent[s] /\ uStart[s]..(uCurrent[s] - 1) \subseteq written
    BY <1>1, <2>3 DEF IsDone, IndInv, SectionInv
  <2>5. uStart[s] \in Nat /\ uEnd[s] \in Nat /\ uCurrent[s] \in Nat
    BY <1>1, <2>3, SizesAssumption DEF IndInv, TypeOK, FieldsOK
  <2>6. b \in uStart[s]..(uCurrent[s] - 1) BY <2>2, <2>3, <2>4, <2>5
  <2> QED BY <2>4, <2>6
<1> QED BY <1>1, Invariance, PTL

\* StartDownloading takes a run for over when it is not only after two updates of
\* m_cRunningThreads, which no common lock protects, have met.
THEOREM RunNotMissedAlways == Spec => []RunNotMissed
<1>1. IndInv => RunNotMissed BY DEF IndInv
<1> QED BY <1>1, Invariance, PTL

\* A section shown as downloading is served by a thread.
THEOREM DownloadingHasThreadAlways == Spec => []DownloadingHasThread
<1>1. IndInv => DownloadingHasThread BY DEF IndInv
<1> QED BY <1>1, Invariance, PTL

\* A launch finds no thread of its section that may still read, write or update
\* the count: whatever splits, restarts and ends of threads overlap, two threads
\* work on one section only where LaunchOneMoreSection takes it without looking,
\* or StartDownloading begins beside a run (RunNotMissed), when behaviours end.
THEOREM NoSecondWorkerAlways == Spec => NoSecondWorker
<1> DEFINE A == \A s \in SectId :
                  pc'[s] \in Launched /\ pc[s] \notin Launched => pc[s] = "none"
<1>1. ASSUME IndInv, [Next]_vars PROVE [A]_vars
  <2> SUFFICES ASSUME Next, NEW s \in SectId,
                      pc'[s] \in Launched, pc[s] \notin Launched
               PROVE  pc[s] = "none"
    BY <1>1
  <2> USE <1>1 DEF IndInv, TypeOK
  <2>0. ~Ended /\ Step BY DEF Next
  <2>1. ASSUME NEW a, NEW t, NEW b, NEW l, LaunchStep(a, t, b, l), l \notin Launched
        PROVE  pc[s] = "none"
    BY <2>1 DEF LaunchStep, ControlOK, Actor
  <2>2. CASE \E t \in SectId : SectionThread(t)
    <3>1. PICK t \in SectId : ThreadStep(t) BY <2>2, ThreadFrame
    <3> QED BY <3>1, ActorsAssumption DEF ThreadStep, ControlOK, Actor, Launched
  <2>3. CASE TailThread
    BY <2>3, ActorsAssumption DEF TailThread, TailReturn, TailEnd, ControlOK,
       Actor, Launched
  <2>4. ASSUME NEW a \in Actor, AddSection(a) \/ AddSteps(a) PROVE pc[s] = "none"
    <3>1. CASE AddQuiet(a)
      <4>1. AddStep(a) BY <3>1, AddFrame
      <4> QED BY <4>1 DEF AddStep, ControlOK, Actor, After, Launched
    <3>2. CASE AddShrink(a) \/ AddInsert(a) \/ AddFixup(a)
      BY <3>2 DEF AddShrink, AddInsert, AddFixup, AddReturn, After, ControlOK,
         Actor, Launched
    <3>3. CASE AddLaunch(a)
      <4>1. LaunchStep(a, n, "begin", "add_fixup") BY <3>3, AddLaunchFrame
      <4> QED BY <2>1, <4>1 DEF Launched
    <3> QED BY <2>4, <3>1, <3>2, <3>3 DEF AddSteps, AddQuiet
  <2>5. CASE OwnerCalls
    <3>1. CASE OwnerQuiet
      <4>1. OwnerStep BY <3>1, OwnerFrame
      <4> QED BY <4>1, ActorsAssumption DEF OwnerStep, ControlOK, Actor, Launched
    <3>2. CASE MainOpened \/ StartClear
      BY <3>2, ActorsAssumption DEF MainOpened, StartClear, ControlOK, Actor,
         Launched
    <3>3. CASE MainLaunch
      <4>1. LaunchStep(Owner, n, "begin", "idle") BY <3>3, MainLaunchFrame
      <4> QED BY <2>1, <4>1 DEF Launched
    <3>4. CASE StartCount
      <4>1. LaunchStep(Owner, iStart, "begin", "start_loop")
        BY <2>0, <3>4, StartCountFrame
      <4> QED BY <2>1, <4>1 DEF Launched
    <3>5. CASE OneLaunch
      <4>1. LaunchStep(Owner, iStart, "begin_nofile", "idle")
        BY <2>0, <3>5, OneLaunchFrame
      <4> QED BY <2>1, <4>1 DEF Launched
    <3> QED BY <2>5, <3>1, <3>2, <3>3, <3>4, <3>5
            DEF OwnerCalls, OwnerSteps, OwnerQuiet
  <2> QED BY <2>0, <2>2, <2>3, <2>4, <2>5 DEF Step, OwnerCalls
<1> QED BY <1>1, Invariance, PTL DEF Spec, NoSecondWorker
-----------------------------------------------------------------------------
(* SectionsApart.                                                          *)

\* Neither does a section share unwritten bytes with the part cut off that is
\* about to be appended.
Extents == [s \in 1..n |-> Extent(s)]

ApartInv ==
  /\ SectionsApart
  /\ \A a \in Actor : pc[a] = "add_insert" =>
       \A t \in 1..n : Extents[t] \cap (add.split..(add.end - 1)) \subseteq written

\* SectionsApart in terms of Extents.
LEMMA ExtentsApart ==
  /\ SectionsApart <=>
       \A s, t \in 1..n : s # t => Extents[s] \cap Extents[t] \subseteq written
  /\ SectionsApart' <=>
       \A s, t \in 1..n' : s # t => Extents'[s] \cap Extents'[t] \subseteq written'
BY DEF SectionsApart, Extents, Extent

\* A step that moves no border and cuts nothing.
LEMMA ApartKept ==
  ASSUME ApartInv, UNCHANGED <<n, uStart, uEnd>>, written \subseteq written',
         \A a \in Actor : pc'[a] = "add_insert" => pc[a] = "add_insert" /\ add' = add
  PROVE  ApartInv'
BY DEF ApartInv, SectionsApart, Extents, Extent

\* The quiet steps of CreateAdditionalSection are of that kind.
LEMMA AddApart ==
  ASSUME ControlOK, PlacesInv, ApartInv, NEW a \in Actor, AddStep(a)
  PROVE  ApartInv'
<1>1. UNCHANGED <<n, uStart, uEnd, written>> BY DEF AddStep
<1>2. pc'[a] # "add_insert" BY DEF AddStep, ControlOK, After
<1>3. ASSUME NEW b \in Actor, pc'[b] = "add_insert"
      PROVE  pc[b] = "add_insert" /\ add' = add
  <2>1. b # a /\ pc[b] = "add_insert" BY <1>2, <1>3 DEF AddStep, ControlOK
  <2>2. csAdd = b BY <2>1 DEF PlacesInv, AddPC
  <2>3. pc[a] \notin AddPC \ {"add_lock"} BY <2>1, <2>2 DEF PlacesInv
  <2> QED BY <2>1, <2>3 DEF AddStep, AddPC
<1> QED BY <1>1, <1>3, ApartKept

\* While a holds m_csAddSection nobody else is about to append a section.
LEMMA OneInsert ==
  ASSUME PlacesInv, NEW a \in Actor, pc[a] \in AddPC \ {"add_lock"},
         NEW b \in Actor, b # a
  PROVE  pc[b] # "add_insert"
BY DEF PlacesInv, AddPC

\* The cut: what the target gives up is shared with nobody, but for what is in
\* the file.
LEMMA AddShrinkApart ==
  ASSUME FieldsOK, ControlOK, PlacesInv, ApartInv, NEW a \in Actor, AddInv(a),
         AddShrink(a)
  PROVE  ApartInv'
<1> DEFINE t == add.target
           cut == add.split..(add.end - 1)
<1>1. /\ n \in Nat /\ t \in SectId /\ t \in 1..n
      /\ add.split \in Nat /\ add.end \in Nat
      /\ uStart[t] <= add.split /\ add.split < add.end /\ add.end = uEnd[t]
  BY DEF FieldsOK, ControlOK, AddShrink, AddInv, AddPC, SectId
<1>2. /\ UNCHANGED <<n, uStart, add, written>> /\ pc[a] = "add_shrink"
      /\ uEnd' = [uEnd EXCEPT ![t] = add.split]
      /\ \A b \in Actor : b # a => pc'[b] = pc[b]
  BY DEF AddShrink, ControlOK
<1>3. 1..n \subseteq SectId BY SizesAssumption DEF FieldsOK, SectId
<1>4. \A s \in 1..n : s # t => Extents'[s] = Extents[s]
  BY <1>2, <1>3 DEF Extents, Extent, FieldsOK
<1>5. /\ Extents[t] = uStart[t]..(add.end - 1)
      /\ Extents'[t] = uStart[t]..(add.split - 1)
  BY <1>1, <1>2 DEF Extents, Extent, FieldsOK
<1>6. uStart[t] \in Nat BY <1>1 DEF FieldsOK
<1>7. /\ Extents'[t] \subseteq Extents[t] /\ cut \subseteq Extents[t]
      /\ Extents'[t] \cap cut = {}
  BY <1>1, <1>5, <1>6
<1>8. SectionsApart'
  <2> SUFFICES ASSUME NEW u \in 1..n, NEW v \in 1..n, u # v
               PROVE  Extents'[u] \cap Extents'[v] \subseteq written
    BY <1>2, ExtentsApart
  <2>1. Extents[u] \cap Extents[v] \subseteq written
    BY ExtentsApart DEF ApartInv
  <2> QED BY <1>4, <1>7, <2>1
<1>9. \A u \in 1..n : Extents'[u] \cap cut \subseteq written
  <2> SUFFICES ASSUME NEW u \in 1..n PROVE Extents'[u] \cap cut \subseteq written
    OBVIOUS
  <2>1. CASE u = t BY <1>7, <2>1
  <2>2. CASE u # t
    <3>1. Extents[u] \cap Extents[t] \subseteq written
      BY <1>1, <2>2, ExtentsApart DEF ApartInv
    <3> QED BY <1>4, <1>7, <2>2, <3>1
  <2> QED BY <2>1, <2>2
<1> QED BY <1>2, <1>8, <1>9 DEF ApartInv

\* The new section gets what was cut off.
LEMMA AddInsertApart ==
  ASSUME FieldsOK, ControlOK, PlacesInv, ApartInv, NEW a \in Actor, AddInv(a),
         AddInsert(a)
  PROVE  ApartInv'
<1> DEFINE cut == add.split..(add.end - 1)
<1>1. n \in Nat /\ n + 1 \in SectId /\ pc[a] = "add_insert" /\ n' = n + 1
  BY SizesAssumption DEF FieldsOK, AddInsert, AddInv, AddPC, Append, SectId
<1>2. 1..n \subseteq SectId /\ \A s \in 1..n : s # n + 1
  BY <1>1, SizesAssumption DEF SectId
<1>3. \A s \in 1..n : Extents'[s] = Extents[s]
  <2>1. /\ uStart' = [uStart EXCEPT ![n + 1] = add.split]
        /\ uEnd' = [uEnd EXCEPT ![n + 1] = add.end]
    BY DEF AddInsert, Append
  <2>2. \A s \in 1..n : s \in 1..n' /\ uStart'[s] = uStart[s] /\ uEnd'[s] = uEnd[s]
    BY <1>1, <1>2, <2>1 DEF FieldsOK
  <2> QED BY <2>2 DEF Extents, Extent
<1>4. Extents'[n + 1] = cut
  <2>1. uStart'[n + 1] = add.split /\ uEnd'[n + 1] = add.end
    BY <1>1 DEF AddInsert, Append, FieldsOK
  <2> QED BY <1>1, <2>1 DEF Extents, Extent
<1>5. written' = written BY DEF AddInsert
<1>6. \A s \in 1..n : Extents[s] \cap cut \subseteq written BY <1>1 DEF ApartInv
<1>7. SectionsApart'
  <2> SUFFICES ASSUME NEW u \in 1..(n + 1), NEW v \in 1..(n + 1), u # v
               PROVE  Extents'[u] \cap Extents'[v] \subseteq written
    BY <1>1, <1>5, ExtentsApart
  <2>1. (u \in 1..n \/ u = n + 1) /\ (v \in 1..n \/ v = n + 1) BY <1>1
  <2>2. u \in 1..n /\ v \in 1..n => Extents[u] \cap Extents[v] \subseteq written
    BY ExtentsApart DEF ApartInv
  <2> QED BY <1>3, <1>4, <1>6, <2>1, <2>2
<1>8. \A b \in Actor : pc'[b] # "add_insert"
  <2>1. pc' = [pc EXCEPT ![a] = "add_start"] BY DEF AddInsert
  <2>2. \A b \in Actor : b # a => pc[b] # "add_insert"
    BY <1>1, OneInsert DEF AddPC
  <2> QED BY <2>1, <2>2 DEF ControlOK
<1> QED BY <1>7, <1>8 DEF ApartInv

\* What the target takes back it has already written.
LEMMA AddFixupApart ==
  ASSUME FieldsOK, ControlOK, PlacesInv, ApartInv, NEW a \in Actor, AddInv(a),
         \A s \in SectId : s <= n => SectionInv(s), AddFixup(a)
  PROVE  ApartInv'
<1> DEFINE t == add.target
<1>1. /\ n \in Nat /\ t \in SectId /\ t \in 1..n /\ SectionInv(t)
  BY DEF FieldsOK, ControlOK, AddFixup, AddInv, AddPC, SectId
<1>2. /\ UNCHANGED <<n, uStart, written>> /\ pc[a] = "add_fixup"
      /\ uEnd' = [uEnd EXCEPT ![t] = IF @ < uCurrent[t] THEN uCurrent[t] ELSE @]
  BY DEF AddFixup
<1>3. 1..n \subseteq SectId BY SizesAssumption DEF FieldsOK, SectId
<1>4. \A s \in 1..n : s # t => Extents'[s] = Extents[s]
  BY <1>2, <1>3 DEF Extents, Extent, FieldsOK
<1>5. Extents'[t] \subseteq Extents[t] \cup written
  <2>1. uStart[t] \in Nat /\ uEnd[t] \in Nat /\ uCurrent[t] \in Nat
    BY <1>1, SizesAssumption DEF FieldsOK
  <2>2. CASE uEnd[t] < uCurrent[t]
    <3>1. Extents'[t] = uStart[t]..(uCurrent[t] - 1)
      BY <1>1, <1>2, <2>2 DEF Extents, Extent, FieldsOK
    <3> QED BY <1>1, <3>1 DEF SectionInv
  <2>3. CASE ~(uEnd[t] < uCurrent[t])
    BY <1>1, <1>2, <2>3 DEF Extents, Extent, FieldsOK
  <2> QED BY <2>2, <2>3
<1>6. SectionsApart'
  <2> SUFFICES ASSUME NEW u \in 1..n, NEW v \in 1..n, u # v
               PROVE  Extents'[u] \cap Extents'[v] \subseteq written
    BY <1>2, ExtentsApart
  <2>1. Extents[u] \cap Extents[v] \subseteq written
    BY ExtentsApart DEF ApartInv
  <2> QED BY <1>4, <1>5, <2>1
<1>7. \A b \in Actor : pc'[b] # "add_insert"
  <2>1. pc' = [pc EXCEPT ![a] = After(a)] BY DEF AddFixup, AddReturn
  <2>2. \A b \in Actor : b # a => pc[b] # "add_insert"
    BY <1>2, OneInsert DEF AddPC
  <2> QED BY <2>1, <2>2 DEF ControlOK, After
<1> QED BY <1>6, <1>7 DEF ApartInv

\* The owner cuts nothing.
LEMMA OwnerApart ==
  ASSUME ~Ended, IndInv, ApartInv, OwnerCalls PROVE ApartInv'
<1> USE DEF IndInv, TypeOK
<1>1. ASSUME NEW t, NEW b, NEW l, LaunchStep(Owner, t, b, l), l # "add_insert"
      PROVE  ApartInv'
  <2>1. \A a \in Actor : pc'[a] = "add_insert" => pc[a] = "add_insert"
    BY <1>1 DEF LaunchStep, Launched, ControlOK
  <2> QED BY <1>1, <2>1, ApartKept DEF LaunchStep
<1>2. CASE OwnerQuiet
  <2>1. OwnerStep BY <1>2, OwnerFrame
  <2>2. \A a \in Actor : pc'[a] = "add_insert" => pc[a] = "add_insert"
    BY <2>1 DEF OwnerStep, ControlOK, OwnerPC
  <2> QED BY <2>1, <2>2, ApartKept DEF OwnerStep
<1>3. CASE MainOpened
  <2>1. n' = 1 /\ pc[Owner] = "main_open" /\ csAdd = Owner
        /\ pc' = [pc EXCEPT ![Owner] = "main_start"]
    BY <1>3 DEF MainOpened, Append, PlacesInv
  <2>2. \A a \in Actor : pc[a] # "add_insert" BY <2>1 DEF PlacesInv, AddPC
  <2>3. \A a \in Actor : pc'[a] # "add_insert" BY <2>1, <2>2 DEF ControlOK
  <2>4. SectionsApart' BY <2>1 DEF SectionsApart
  <2> QED BY <2>3, <2>4 DEF ApartInv
<1>4. CASE StartClear BY <1>4 DEF StartClear, ApartInv, SectionsApart
<1>5. CASE MainLaunch
  <2>1. LaunchStep(Owner, n, "begin", "idle") BY <1>5, MainLaunchFrame
  <2> QED BY <1>1, <2>1
<1>6. CASE StartCount
  <2>1. LaunchStep(Owner, iStart, "begin", "start_loop")
    BY <1>6, StartCountFrame
  <2> QED BY <1>1, <2>1
<1>7. CASE OneLaunch
  <2>1. LaunchStep(Owner, iStart, "begin_nofile", "idle")
    BY <1>7, OneLaunchFrame
  <2> QED BY <1>1, <2>1
<1> QED
  BY <1>2, <1>3, <1>4, <1>5, <1>6, <1>7 DEF OwnerCalls, OwnerSteps, OwnerQuiet

\* No byte that is not in the file is left to two sections, whatever targets read
\* and flush while they are cut, roll back and fail.
THEOREM SectionsApartAlways == Spec => []SectionsApart
<1>1. ASSUME Init PROVE ApartInv
  <2>1. n = 0 /\ \A a \in Actor : pc[a] # "add_insert" BY <1>1 DEF Init
  <2> QED BY <2>1 DEF ApartInv, SectionsApart
<1>2. ASSUME IndInv, ApartInv, [Next]_vars PROVE ApartInv'
  <2> USE <1>2 DEF IndInv, TypeOK
  <2>1. CASE UNCHANGED vars
    BY <2>1 DEF vars, ApartInv, SectionsApart, Extents, Extent
  <2>2. CASE \E s \in SectId : SectionThread(s)
    <3>1. PICK s \in SectId : ThreadStep(s) BY <2>2, ThreadFrame
    <3>2. \A a \in Actor : pc'[a] = "add_insert" => pc[a] = "add_insert"
      BY <3>1 DEF ThreadStep, ControlOK, SectPC
    <3> QED BY <3>1, <3>2, ApartKept DEF ThreadStep
  <2>3. CASE TailThread
    <3>1. \A a \in Actor : pc'[a] = "add_insert" => pc[a] = "add_insert"
      BY <2>3 DEF TailThread, TailReturn, TailEnd, ControlOK
    <3>2. UNCHANGED <<n, uStart, uEnd, written, add>>
      BY <2>3 DEF TailThread, TailReturn, TailEnd
    <3> QED BY <3>1, <3>2, ApartKept
  <2>4. ASSUME NEW a \in Actor, AddSection(a) \/ AddSteps(a) PROVE ApartInv'
    <3>1. CASE AddQuiet(a)
      <4>1. AddStep(a) BY <3>1, AddFrame
      <4> QED BY <4>1, AddApart
    <3>2. CASE AddShrink(a) \/ AddInsert(a) \/ AddFixup(a)
      BY <3>2, AddShrinkApart, AddInsertApart, AddFixupApart
    <3>3. CASE AddLaunch(a)
      <4>1. LaunchStep(a, n, "begin", "add_fixup") BY <3>3, AddLaunchFrame
      <4>2. \A b \in Actor : pc'[b] = "add_insert" => pc[b] = "add_insert"
        BY <4>1 DEF LaunchStep, ControlOK
      <4> QED BY <4>1, <4>2, ApartKept DEF LaunchStep
    <3> QED BY <2>4, <3>1, <3>2, <3>3 DEF AddSteps, AddQuiet
  <2>5. CASE ~Ended /\ OwnerCalls BY <2>5, OwnerApart
  <2> QED BY <2>1, <2>2, <2>3, <2>4, <2>5 DEF Next, Step, OwnerCalls
<1>3. ApartInv => SectionsApart BY DEF ApartInv
<1> QED BY <1>1, <1>2, <1>3, Invariance, PTL DEF Spec
-----------------------------------------------------------------------------
(* m_cBaseSectCreatingNow.                                                 *)

\* The places where a call has counted itself in m_cBaseSectCreatingNow.
CountPC == AddPC \ {"add_lock", "add_choose", "add_launch", "add_fixup"}
OwnPC   == {"main_open", "main_start", "start_open", "start_launch", "start_clear"}

\* At most one actor is creating a section: the holder of m_csAddSection.
InAdd == IF \E a \in Actor : csAdd = a /\ pc[a] \in CountPC THEN 1 ELSE 0
InOwn == IF pc[Owner] \in OwnPC THEN 1 ELSE 0

CreateInv == cCreating = refused + InAdd + InOwn

\* A step that moves no actor into such a place, or out of one.
LEMMA SameCount ==
  ASSUME IndInv, CreateInv, UNCHANGED <<cCreating, refused>>,
         \A a \in Actor :
           \/ pc'[a] = pc[a] /\ (csAdd' = a <=> csAdd = a)
           \/ pc[a] \notin CountPC \cup OwnPC /\ pc'[a] \notin CountPC \cup OwnPC
  PROVE  CreateInv'
<1>1. InOwn' = InOwn BY ActorsAssumption DEF InOwn, Actor, CountPC, OwnPC, AddPC
<1>2. InAdd' = InAdd BY DEF InAdd
<1> QED BY <1>1, <1>2 DEF CreateInv

\* CreateAdditionalSection counts itself once it has chosen its target, and no
\* return after that forgets it.
LEMMA AddCreating ==
  ASSUME IndInv, CreateInv, NEW a \in Actor, AddSection(a) \/ AddSteps(a)
  PROVE  CreateInv'
<1> USE ActorsAssumption DEF IndInv, TypeOK
<1>1. /\ pc \in [Actor -> SectPC \cup OwnerPC \cup TailPC \cup AddPC]
      /\ cCreating \in Int /\ refused \in Nat /\ Owner \in Actor /\ None \notin Actor
  BY DEF ControlOK, CountersOK, Actor
<1>2. \A b \in Actor : pc[b] \in AddPC \ {"add_lock"} => csAdd = b BY DEF PlacesInv
<1>3. CASE AddSection(a)
  <2>1. pc[a] \notin CountPC \cup OwnPC
    BY <1>3, <1>1 DEF AddSection, MayCallAddSection, CountPC, OwnPC, AddPC
  <2>2. /\ pc' = [pc EXCEPT ![a] = "add_lock"]
        /\ UNCHANGED <<cCreating, refused, csAdd>>
    BY <1>3 DEF AddSection
  <2>3. \A b \in Actor : b # a => pc'[b] = pc[b] BY <1>1, <2>2
  <2>4. pc'[a] \notin CountPC \cup OwnPC BY <1>1, <2>2 DEF CountPC, OwnPC, AddPC
  <2> QED BY <2>1, <2>2, <2>3, <2>4, SameCount
<1>4. CASE AddLock(a)
  <2>1. /\ pc[a] = "add_lock" /\ csAdd = None /\ csAdd' = a
        /\ pc' = [pc EXCEPT ![a] = "add_choose"] /\ UNCHANGED <<cCreating, refused>>
    BY <1>4 DEF AddLock
  <2>2. InAdd = 0 /\ InAdd' = 0
    BY <1>1, <2>1 DEF InAdd, CountPC
  <2>3. InOwn' = InOwn BY <1>1, <2>1 DEF InOwn, OwnPC
  <2> QED BY <2>1, <2>2, <2>3 DEF CreateInv
<1>5. CASE pc[a] \in AddPC \ {"add_lock"}
  <2>1. csAdd = a BY <1>2, <1>5
  <2>2. InAdd = IF pc[a] \in CountPC THEN 1 ELSE 0 BY <2>1 DEF InAdd
  <2>3. InOwn' = InOwn
    <3>1. pc[a] \notin OwnPC BY <1>5 DEF AddPC, OwnPC
    <3>2. PICK l \in AddPC \cup {After(a)} :
            pc' \in {[pc EXCEPT ![a] = l], [pc EXCEPT ![n] = "begin", ![a] = l]}
      BY <1>5, AddSteps(a) \/ AddSection(a)
         DEF AddSection, MayCallAddSection, AddSteps, AddLock, AddRefused, AddChoose,
             AddNoCandidate, AddPoint, AddTooSmall, AddOpen, AddOpenFails,
             AddOpenNoRanges, AddRecheck, AddTooLate, AddShrink, AddInsert, AddStart,
             AddLaunch, AddFixup, AddAbort, AddReturn, CountLast, LaunchLast, AddPC
    <3>3. n # Owner
      <4>1. n \in 0..MaxSections /\ n > 0 BY <1>5 DEF FieldsOK, AddInv
      <4> QED BY <4>1, SizesAssumption DEF SectId
    <3>4. pc'[Owner] = pc[Owner] \/ (a = Owner /\ pc'[Owner] = l)
      BY <1>1, <3>2, <3>3
    <3>5. l \notin OwnPC BY DEF AddPC, OwnPC, After
    <3> QED BY <3>1, <3>4, <3>5 DEF InOwn
  <2>4. UNCHANGED refused
    BY <1>5, AddSteps(a) \/ AddSection(a)
       DEF AddSection, MayCallAddSection, AddSteps, AddLock, AddRefused, AddChoose,
           AddNoCandidate, AddPoint, AddTooSmall, AddOpen, AddOpenFails,
           AddOpenNoRanges, AddRecheck, AddTooLate, AddShrink, AddInsert, AddStart,
           AddLaunch, AddFixup, AddAbort, AddReturn, CountLast, LaunchLast, AddPC
  <2>i. InAdd \in Int /\ InOwn \in Int BY DEF InAdd, InOwn
  <2>5. CASE AddChoose(a)
    <3>1. pc[a] = "add_choose" /\ pc' = [pc EXCEPT ![a] = "add_point"]
          /\ csAdd' = csAdd /\ cCreating' = cCreating + 1
      BY <2>5 DEF AddChoose
    <3>2. InAdd = 0 BY <2>2, <3>1 DEF CountPC
    <3>3. InAdd' = 1 BY <1>1, <2>1, <3>1 DEF InAdd, CountPC, AddPC
    <3> QED BY <1>1, <2>i, <2>3, <2>4, <3>1, <3>2, <3>3 DEF CreateInv
  <2>6. CASE AddPoint(a) \/ AddOpen(a) \/ AddRecheck(a) \/ AddShrink(a) \/ AddInsert(a)
    <3>1. /\ pc[a] \in CountPC /\ csAdd' = csAdd /\ cCreating' = cCreating
          /\ \E l \in CountPC : pc' = [pc EXCEPT ![a] = l]
      BY <2>6 DEF AddPoint, AddOpen, AddRecheck, AddShrink, AddInsert, CountPC, AddPC
    <3>2. InAdd = 1 BY <2>2, <3>1
    <3>3. InAdd' = 1 BY <1>1, <2>1, <3>1 DEF InAdd
    <3> QED BY <1>1, <2>i, <2>3, <2>4, <3>1, <3>2, <3>3 DEF CreateInv
  <2>7. CASE AddTooSmall(a) \/ AddOpenFails(a) \/ AddOpenNoRanges(a) \/ AddTooLate(a)
    <3>1. pc[a] \in CountPC /\ csAdd' = None /\ cCreating' = cCreating - 1
      BY <2>7 DEF AddTooSmall, AddOpenFails, AddOpenNoRanges, AddTooLate, AddAbort,
                  AddReturn, CountPC, AddPC
    <3>2. InAdd = 1 /\ InAdd' = 0 BY <1>1, <2>2, <3>1 DEF InAdd
    <3> QED BY <1>1, <2>i, <2>3, <2>4, <3>1, <3>2 DEF CreateInv
  <2>8. CASE AddRefused(a) \/ AddNoCandidate(a) \/ AddFixup(a)
    <3>1. pc[a] \notin CountPC /\ csAdd' = None /\ cCreating' = cCreating
      BY <2>8 DEF AddRefused, AddNoCandidate, AddFixup, AddReturn, CountPC
    <3>2. InAdd = 0 /\ InAdd' = 0 BY <1>1, <2>2, <3>1 DEF InAdd
    <3> QED BY <1>1, <2>i, <2>3, <2>4, <3>1, <3>2 DEF CreateInv
  <2>9. CASE AddStart(a)
    <3>1. /\ pc[a] = "add_start" /\ csAdd' = a /\ cCreating' = cCreating - 1
          /\ pc' = [pc EXCEPT ![a] = "add_launch"]
      BY <2>1, <2>9 DEF AddStart, CountLast
    <3>2. InAdd = 1 BY <2>2, <3>1 DEF CountPC, AddPC
    <3>3. InAdd' = 0 BY <1>1, <3>1 DEF InAdd, CountPC
    <3> QED BY <1>1, <2>i, <2>3, <2>4, <3>1, <3>2, <3>3 DEF CreateInv
  <2>10. CASE AddLaunch(a)
    <3>1. /\ pc[a] = "add_launch" /\ csAdd' = a /\ cCreating' = cCreating
          /\ pc' = [pc EXCEPT ![n] = "begin", ![a] = "add_fixup"]
      BY <2>1, <2>10 DEF AddLaunch, LaunchLast
    <3>2. InAdd = 0 BY <2>2, <3>1 DEF CountPC
    <3>3. InAdd' = 0 BY <1>1, <3>1 DEF InAdd, CountPC
    <3> QED BY <1>1, <2>i, <2>3, <2>4, <3>1, <3>2, <3>3 DEF CreateInv
  <2>11. ~AddSection(a) /\ ~AddLock(a)
    BY <1>5 DEF AddSection, MayCallAddSection, AddLock, AddPC
  <2> QED BY <2>5, <2>6, <2>7, <2>8, <2>9, <2>10, <2>11 DEF AddSteps
<1>6. AddSteps(a) => AddLock(a) \/ pc[a] \in AddPC \ {"add_lock"}
  BY DEF AddSteps, AddRefused, AddChoose, AddNoCandidate, AddPoint, AddTooSmall,
         AddOpen, AddOpenFails, AddOpenNoRanges, AddRecheck, AddTooLate, AddShrink,
         AddInsert, AddStart, AddLaunch, AddFixup, AddAbort, AddReturn, AddPC
<1> QED BY <1>3, <1>4, <1>5, <1>6

\* CreateMainSection and StartDownloading count themselves for each section they
\* create, and forget it only when DE_NEEDFILE is refused.
LEMMA OwnerCreating ==
  ASSUME ~Ended, IndInv, CreateInv,
         MainBegin \/ StartBegin \/ LaunchOneMoreSection \/ OwnerSteps
  PROVE  CreateInv'
<1> USE ActorsAssumption DEF IndInv, TypeOK
<1>1. /\ pc \in [Actor -> SectPC \cup OwnerPC \cup TailPC \cup AddPC]
      /\ cCreating \in Int /\ refused \in Nat /\ Owner \in Actor /\ None \notin Actor
  BY DEF ControlOK, CountersOK, Actor
<1>2. pc[Owner] \notin AddPC
  BY DEF OwnerSteps, MainBegin, StartBegin, MainRefused, MainOpened, MainFails,
         MainStart, MainLaunch, MainNotInitialized, StartSkip, StartSection,
         StartOpened, StartNoFile, StartOpenFails, StartNoRanges, StartClear,
         StartLaunch, StartCount, StartEnd, LaunchOneMoreSection, OneLaunch, AddPC
<1>3. pc'[Owner] \notin CountPC
  BY <1>1, <1>2 DEF OwnerSteps, MainBegin, StartBegin, MainRefused, MainOpened,
         MainFails, MainStart, MainLaunch, MainNotInitialized, StartSkip,
         StartSection, StartOpened, StartNoFile, StartOpenFails, StartNoRanges,
         StartClear, StartLaunch, StartCount, StartEnd, LaunchOneMoreSection,
         OneLaunch, CountLast, LaunchLast, AddPC, CountPC
<1>4. InAdd' = InAdd
  <2>1. CASE MainBegin \/ MainFails \/ MainLaunch \/ MainNotInitialized
    <3>1. csAdd \in {None, Owner} /\ csAdd' \in {None, Owner}
      BY <2>1 DEF MainBegin, MainFails, MainLaunch, MainNotInitialized, PlacesInv
    <3> QED BY <1>1, <1>2, <1>3, <3>1 DEF InAdd, CountPC
  <2>2. CASE StartCount \/ OneLaunch
    <3>1. PICK b \in Launched, l \in {"start_loop", "idle"} :
            LaunchStep(Owner, iStart, b, l) /\ pc[Owner] # "main_launch"
      <4>1. CASE StartCount
        BY <4>1, StartCountFrame DEF StartCount, Launched
      <4>2. CASE OneLaunch
        BY <4>2, OneLaunchFrame DEF OneLaunch, Launched
      <4> QED BY <2>2, <4>1, <4>2
    <3>2. /\ csAdd' = csAdd /\ iStart \in SectId /\ pc[iStart] = "none"
          /\ pc' = [pc EXCEPT ![iStart] = b, ![Owner] = l]
      BY <1>2, <3>1 DEF LaunchStep, AddPC
    <3> QED BY <1>1, <1>2, <3>1, <3>2 DEF InAdd, CountPC, AddPC, Actor, Launched
  <2>3. CASE ~(MainBegin \/ MainFails \/ MainLaunch \/ MainNotInitialized
               \/ StartCount \/ OneLaunch)
    <3>1. csAdd' = csAdd /\ \E l \in OwnerPC : pc' \in {pc, [pc EXCEPT ![Owner] = l]}
      BY <2>3 DEF OwnerSteps, StartBegin, MainRefused, MainOpened, MainStart,
         StartSkip, StartSection, StartOpened, StartNoFile, StartOpenFails,
         StartNoRanges, StartClear, StartLaunch, StartEnd, LaunchOneMoreSection,
         CountLast, OwnerPC
    <3> QED BY <1>1, <1>2, <1>3, <3>1 DEF InAdd, CountPC
  <2> QED BY <2>1, <2>2, <2>3
<1>5. cCreating' = refused' + InAdd + InOwn'
  <2>a. InAdd \in {0, 1} BY DEF InAdd
  <2> USE <1>1, <2>a DEF InOwn, OwnPC, CreateInv
  <2>1. CASE MainBegin BY <2>1 DEF MainBegin
  <2>2. CASE MainFails \/ MainNotInitialized BY <2>2 DEF MainFails, MainNotInitialized
  <2>3. CASE MainStart \/ StartLaunch
    BY <2>3 DEF MainStart, StartLaunch, CountLast
  <2>4. CASE MainRefused \/ MainOpened \/ StartBegin \/ StartEnd \/ StartSkip
    BY <2>4 DEF MainRefused, MainOpened, StartBegin, StartEnd, StartSkip
  <2>5. CASE StartSection \/ StartOpened BY <2>5 DEF StartSection, StartOpened
  <2>6. CASE StartNoFile \/ StartClear BY <2>6 DEF StartNoFile, StartClear
  <2>7. CASE StartOpenFails BY <2>7 DEF StartOpenFails
  <2>8. CASE StartNoRanges BY <2>8 DEF StartNoRanges
  <2>9. CASE MainLaunch \/ StartCount
    BY <2>9 DEF MainLaunch, StartCount, LaunchLast
  <2>10. CASE LaunchOneMoreSection \/ OneLaunch
    BY <2>10 DEF LaunchOneMoreSection, OneLaunch
  <2> QED BY <2>1, <2>2, <2>3, <2>4, <2>5, <2>6, <2>7, <2>8, <2>9, <2>10
          DEF OwnerSteps
<1> QED BY <1>4, <1>5 DEF CreateInv

\* Section threads and the event handlers create nothing.
LEMMA OthersCreating ==
  ASSUME IndInv, CreateInv,
         (\E s \in SectId : SectionThread(s)) \/ TailThread \/ StopDownloading
         \/ UNCHANGED vars
  PROVE  CreateInv'
<1> USE ActorsAssumption DEF IndInv, TypeOK
<1>1. pc \in [Actor -> SectPC \cup OwnerPC \cup TailPC \cup AddPC]
  BY DEF ControlOK
<1>2. CASE \E s \in SectId : SectionThread(s)
  <2>1. PICK s \in SectId : ThreadStep(s) BY <1>2, ThreadFrame
  <2>2. UNCHANGED <<cCreating, refused, csAdd>> BY <2>1 DEF ThreadStep
  <2>3. \A a \in Actor :
          \/ pc'[a] = pc[a]
          \/ pc[a] \in SectPC \cup TailPC /\ pc'[a] \in SectPC \cup TailPC
    BY <1>1, <2>1 DEF ThreadStep, PlacesInv, Actor, SectPC, TailPC
  <2>4. (SectPC \cup TailPC) \cap (CountPC \cup OwnPC) = {}
    BY DEF SectPC, TailPC, CountPC, OwnPC, AddPC
  <2> QED BY <2>2, <2>3, <2>4, SameCount
<1>3. CASE TailThread
  <2>1. /\ UNCHANGED <<cCreating, refused, csAdd>> /\ pc[Tail] \in TailPC
        /\ \E l \in TailPC : pc' = [pc EXCEPT ![Tail] = l]
    BY <1>3 DEF TailThread, TailReturn, TailEnd, TailPC
  <2>2. TailPC \cap (CountPC \cup OwnPC) = {}
    BY DEF TailPC, CountPC, OwnPC, AddPC
  <2> QED BY <1>1, <2>1, <2>2, SameCount DEF Actor
<1>4. CASE StopDownloading \/ UNCHANGED vars
  BY <1>4, SameCount DEF StopDownloading, vars
<1> QED BY <1>2, <1>3, <1>4

\* m_cBaseSectCreatingNow, which GetCreatingNowSectionCount reports and RemoveMirror
\* tests, counts the calls that are creating a section, and one more for each
\* DE_NEEDFILE that StartDownloading was ever refused.
THEOREM CreatingCountedAlways == Spec => []CreatingCounted
<1>1. ASSUME Init PROVE CreateInv
  BY <1>1, ActorsAssumption
     DEF Init, CreateInv, InAdd, InOwn, CountPC, OwnPC, AddPC, Actor
<1>2. ASSUME IndInv, CreateInv, [Next]_vars PROVE CreateInv'
  BY <1>2, AddCreating, OwnerCreating, OthersCreating DEF Next, Step
<1>3. ASSUME IndInv, CreateInv PROVE CreatingCounted
  <2> DEFINE C == {a \in Actor : pc[a] \in CountPC}
  <2>1. Cardinality(C) = InAdd
    <3>1. \A a \in C : csAdd = a
      BY <1>3 DEF IndInv, PlacesInv, CountPC
    <3>2. CASE C = {} BY <3>2, FS_EmptySet DEF InAdd
    <3>3. CASE C # {}
      <4>1. PICK a \in Actor : C = {a} BY <3>1, <3>3
      <4> QED BY <3>1, <4>1, FS_Singleton DEF InAdd
    <3> QED BY <3>2, <3>3
  <2> QED BY <1>3, <2>1
          DEF CreateInv, CreatingCounted, NotCreating, CountPC, InOwn, OwnPC
<1> QED BY <1>1, <1>2, <1>3, Invariance, PTL DEF Spec
-----------------------------------------------------------------------------
(* SS_DONE.                                                                *)

\* StartDownloading works on a section that is not complete.
UndonePC == {"start_open", "start_launch", "start_count", "start_clear"}

StartUndone == pc[Owner] \in UndonePC => state[iStart] # "DONE"

\* Only the thread of a section completes it, and that of a complete section
\* does not change its state any more.
LEMMA ThreadDone ==
  ASSUME IndInv, NEW s \in SectId, SectionThread(s)
  PROVE  /\ \A t \in SectId : state[t] = "DONE" => state'[t] = "DONE"
         /\ \A t \in SectId : pc[t] = "none" => state'[t] = state[t]
         /\ n' = n /\ iStart' = iStart
         /\ \A a \in Actor : a \notin SectId \cup {Tail} => pc'[a] = pc[a]
<1>1. ThreadStep(s) BY ThreadFrame DEF IndInv, TypeOK
<1>2. /\ state \in [SectId -> SectionState]
      /\ pc \in [Actor -> SectPC \cup OwnerPC \cup TailPC \cup AddPC]
  BY DEF IndInv, TypeOK, ControlOK
<1>3. state[s] = "DONE" => state'[s] = "DONE"
  <2> SUFFICES ASSUME state[s] = "DONE" PROVE state'[s] = "DONE" OBVIOUS
  <2>0. pc[s] # "none" /\ ThreadInv(s) BY <1>1 DEF ThreadStep, IndInv
  <2>1. s <= n BY <2>0 DEF ThreadInv
  <2>2. pc[s] \in {"exit", "exit_advance", "leave", "count_out"}
    BY <1>1, <2>1 DEF ThreadStep, IndInv, SectionInv
  <2>3. ExitFlush(s) \/ Advance(s) \/ Leave(s) \/ CountOut(s)
    BY <2>2 DEF SectionThread, ThreadBegin, ThreadBeginNoFile, NoFileError,
       SectDownloadingReturn, StopInLoop, Read, ReadError, ReadStalled,
       AwaitOtherError, SetError, ReopenGiveUp, ReopenFails, ReopenNoRanges,
       Reopened, FlushToCache, FlushToDisk, LoopEnds, WriteError, Finish
  <2> QED BY <2>3 DEF ExitFlush, Advance, Leave, CountOut, WriteOut
<1>4. \A a \in Actor : a \notin SectId \cup {Tail} => pc'[a] = pc[a]
  BY <1>1, <1>2 DEF ThreadStep, Actor
<1> QED BY <1>1, <1>3, <1>4 DEF ThreadStep

\* A section StartDownloading has found incomplete has no thread to complete it.
LEMMA StartUndoneStep ==
  ASSUME IndInv, StartUndone, [Next]_vars PROVE StartUndone'
<1> USE ActorsAssumption DEF IndInv, TypeOK
<1>0. UNCHANGED vars \/ ~Ended BY DEF Next
<1>1. /\ pc \in [Actor -> SectPC \cup OwnerPC \cup TailPC \cup AddPC]
      /\ state \in [SectId -> SectionState] /\ n \in 0..MaxSections
      /\ Owner \in Actor
  BY DEF ControlOK, FieldsOK, Actor
<1>2. CASE ~Ended /\ \E s \in SectId : SectionThread(s)
  <2>1. PICK s \in SectId : SectionThread(s) BY <1>2
  <2>2. pc'[Owner] = pc[Owner] /\ iStart' = iStart BY <1>1, <2>1, ThreadDone
  <2>3. CASE pc[Owner] \in UndonePC
    <3>1. iStart \in SectId /\ pc[iStart] = "none"
      <4>1. iStart <= n /\ \A t \in SectId : t >= iStart => pc[t] = "none"
        BY <1>2, <2>3 DEF StartInv, UndonePC
      <4>2. iStart \in SectId
        BY <4>1, SizesAssumption DEF CountersOK, FieldsOK, SectId
      <4> QED BY <4>1, <4>2 DEF SectId
    <3> QED BY <2>1, <2>2, <2>3, <3>1, ThreadDone DEF StartUndone
  <2> QED BY <2>2, <2>3 DEF StartUndone
<1>3. CASE ~Ended /\ TailThread
  <2>1. pc'[Owner] = pc[Owner] /\ iStart' = iStart
    BY <1>1, <1>3 DEF TailThread, TailReturn, TailEnd
  <2>2. \A t \in SectId : state'[t] \in {state[t], "STOPPED"}
    BY <1>1, <1>3 DEF TailThread, TailReturn, TailEnd
  <2>3. pc[Owner] \in UndonePC => iStart \in SectId
    BY <1>3, SizesAssumption DEF StartInv, UndonePC, CountersOK, FieldsOK, SectId
  <2> QED BY <2>1, <2>2, <2>3 DEF StartUndone
<1>4. ASSUME ~Ended, NEW a \in Actor, AddSection(a) \/ AddSteps(a)
      PROVE  StartUndone'
  <2>1. CASE AddQuiet(a)
    <3>1. AddStep(a) BY <2>1, AddFrame
    <3>2. pc'[Owner] \notin UndonePC \/ pc'[Owner] = pc[Owner]
      BY <1>1, <3>1 DEF AddStep, After, UndonePC
    <3> QED BY <3>1, <3>2 DEF AddStep, StartUndone
  <2>2. CASE ~AddQuiet(a)
    <3>1. AddShrink(a) \/ AddInsert(a) \/ AddFixup(a) \/ AddLaunch(a)
      BY <1>4, <2>2 DEF AddSteps, AddQuiet
    <3>2. pc[Owner] \notin UndonePC
      BY <1>4, <3>1 DEF AddShrink, AddInsert, AddFixup, AddLaunch, StartInv, AddPC,
                        UndonePC
    <3>3. CASE AddLaunch(a)
      <4>1. LaunchStep(a, n, "begin", "add_fixup") BY <3>3, AddLaunchFrame
      <4>2. n # Owner BY <4>1 DEF LaunchStep
      <4>3. pc' = [pc EXCEPT ![n] = "begin", ![a] = "add_fixup"]
        BY <3>3 DEF AddLaunch, LaunchLast
      <4>4. pc'[Owner] \notin UndonePC BY <1>1, <3>2, <4>2, <4>3 DEF UndonePC
      <4> QED BY <4>4 DEF StartUndone
    <3>4. CASE ~AddLaunch(a)
      BY <1>1, <3>1, <3>2, <3>4
         DEF AddShrink, AddInsert, AddFixup, AddReturn, After, StartUndone, UndonePC
    <3> QED BY <3>3, <3>4
  <2> QED BY <2>1, <2>2
<1>5. CASE MainBegin \/ StartBegin \/ MainRefused \/ MainOpened \/ MainFails
           \/ MainNotInitialized \/ MainStart \/ MainLaunch
           \/ LaunchOneMoreSection \/ OneLaunch
  <2>1. pc'[Owner] \notin UndonePC
    BY <1>1, <1>5 DEF MainBegin, StartBegin, MainRefused, MainOpened, MainFails,
       MainNotInitialized, MainStart, MainLaunch, LaunchOneMoreSection, OneLaunch,
       CountLast, LaunchLast, UndonePC
  <2> QED BY <2>1 DEF StartUndone
<1>6. CASE StartSkip \/ StartOpenFails \/ StartNoFile \/ StartClear \/ StartCount
           \/ StartEnd
  <2>1. pc'[Owner] \notin UndonePC
    BY <1>1, <1>6 DEF StartSkip, StartOpenFails, StartNoFile, StartClear, StartCount,
       StartEnd, UndonePC
  <2> QED BY <2>1 DEF StartUndone
<1>7. CASE StartSection \/ StartOpened \/ StartNoRanges \/ StartLaunch
  BY <1>7 DEF StartSection, StartOpened, StartNoRanges, StartLaunch, StartUndone,
     UndonePC
<1>8. CASE StopDownloading \/ UNCHANGED vars
  BY <1>8 DEF StopDownloading, vars, StartUndone
<1> QED BY <1>0, <1>2, <1>3, <1>4, <1>5, <1>6, <1>7, <1>8 DEF Next, Step, OwnerSteps

\* A finished download stays finished: no thread that ends late, no cut that has
\* not passed its last test and no call of StartDownloading takes back a list
\* whose sections are all SS_DONE.
THEOREM DoneStaysAlways == Spec => DoneStays
<1>1. ASSUME Init PROVE StartUndone
  BY <1>1, ActorsAssumption DEF Init, StartUndone, UndonePC, Actor
<1>2. ASSUME IndInv, StartUndone, [Next]_vars
      PROVE  [IsDone /\ ~Committed => IsDone']_vars
  <2> SUFFICES ASSUME IsDone, ~Committed, Next PROVE IsDone' BY <1>2
  <2> USE <1>2, ActorsAssumption DEF IndInv, TypeOK
  <2>1. /\ n \in 0..MaxSections /\ state \in [SectId -> SectionState]
        /\ \A t \in 1..n : t \in SectId /\ state[t] = "DONE"
    <3>1. n \in 0..MaxSections BY DEF FieldsOK
    <3>2. state \in [SectId -> SectionState] BY DEF ControlOK
    <3>3. \A t \in 1..n : t \in SectId BY <3>1, SizesAssumption DEF SectId
    <3>4. \A t \in 1..n : state[t] = "DONE" BY DEF IsDone
    <3> QED BY <3>1, <3>2, <3>3, <3>4
  <2>2. SUFFICES n' = n /\ \A t \in 1..n : state'[t] = "DONE"
    BY DEF IsDone
  <2>e. ~Ended BY DEF Next
  <2>3. CASE \E s \in SectId : SectionThread(s) BY <2>1, <2>3, ThreadDone
  <2>4. CASE TailThread
    BY <2>1, <2>4 DEF TailThread, TailReturn, TailEnd, Committed
  <2>5. ASSUME NEW a \in Actor, AddSection(a) \/ AddSteps(a)
        PROVE  n' = n /\ state' = state
    <3>1. CASE AddQuiet(a) BY <3>1, AddFrame DEF AddStep
    <3>2. CASE AddInsert(a)
      <4>1. csAdd = a /\ a # None
        BY <3>2 DEF AddInsert, PlacesInv, AddPC, Actor
      <4> QED BY <3>2, <4>1 DEF AddInsert, Committed
    <3> QED BY <2>5, <3>1, <3>2
            DEF AddSteps, AddQuiet, AddShrink, AddLaunch, AddFixup
  <2>6. CASE MainOpened BY <2>6 DEF MainOpened, PlacesInv, IsDone
  <2>7. CASE StartClear \/ StartCount
    <3>1. iStart \in 1..n
      BY <2>1, <2>e, <2>7 DEF StartClear, StartCount, StartInv, CountersOK
    <3> QED BY <2>1, <2>7, <3>1 DEF StartClear, StartCount, StartUndone, UndonePC
  <2>8. CASE MainBegin \/ StartBegin \/ MainRefused \/ MainFails
             \/ MainNotInitialized \/ MainStart \/ MainLaunch \/ StartSkip
             \/ StartSection \/ StartOpened \/ StartNoFile \/ StartOpenFails
             \/ StartNoRanges \/ StartLaunch \/ StartEnd \/ LaunchOneMoreSection
             \/ OneLaunch \/ StopDownloading
    BY <2>1, <2>8 DEF MainBegin, StartBegin, MainRefused, MainFails,
       MainNotInitialized, MainStart, MainLaunch, StartSkip, StartSection,
       StartOpened, StartNoFile, StartOpenFails, StartNoRanges, StartLaunch, StartEnd,
       LaunchOneMoreSection, OneLaunch, StopDownloading
  <2> QED BY <2>1, <2>3, <2>4, <2>5, <2>6, <2>7, <2>8 DEF Next, Step, OwnerSteps
<1> QED BY <1>1, <1>2, StartUndoneStep, Invariance, PTL DEF Spec, DoneStays
=============================================================================
