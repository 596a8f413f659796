-------------------------- MODULE DownloadMgrProofs -------------------------
(***************************************************************************)
(* Theorems about the control thread of a download, for every number of    *)
(* callers, control threads, sections, section threads, attempts, faults   *)
(* and calls, and for every set of overlaps after which a behaviour goes   *)
(* on.                                                                     *)
(*                                                                         *)
(* Each part of the inductive invariant MgrInv has a lemma that says that  *)
(* a step preserves it, with one case per action.                          *)
(***************************************************************************)
EXTENDS DownloadMgrInv, FiniteSetTheorems, TLAPS

USE DEF flagV, startV, listV, dldrV, lockV, histV, Goto
-----------------------------------------------------------------------------

(* The parts of the invariant that the cases need.                         *)

\* What TypeOK says of the variables other than the flags and the places.
DataOK ==
  /\ dw \subseteq Flag /\ lastError \in Result \ {"STOP"}
  /\ attempt \in 0..MaxAttempts /\ ir \in Result /\ i \in 1..(MaxSections + 1)
  /\ n \in 0..MaxSections /\ state \in [SectId -> SectionState]
  /\ cRunning \in Int /\ sect \in [Thread -> SectId \cup {0}]
  /\ csAdd \in Actor \cup {None} /\ csDone \in Thread \cup {None}
  /\ completions \in Nat /\ told \in {"running", "stopped", "done"}
  /\ faults \in 0..MaxFaults /\ calls \in 0..MaxCalls

\* What the lemmas about the sections start from.
OwnSection ==
  /\ \A t \in Thread : pc[t] # "none" => sect[t] \in 1..n
  /\ \A t, u \in Thread :
       pc[t] # "none" /\ pc[u] # "none" /\ sect[t] = sect[u] => t = u

ListTypeOK ==
  /\ n \in 0..MaxSections /\ state \in [SectId -> SectionState]
  /\ sect \in [Thread -> SectId \cup {0}] /\ i \in 1..(MaxSections + 1)
  /\ csAdd \in Actor \cup {None} /\ csDone \in Thread \cup {None}

RunningInv == DldrRunning <=> Counted # {}

Good ==
  /\ MgrAssumption /\ PlacesOK /\ FlagsOK /\ ListTypeOK /\ OneControl
  /\ LockInv /\ SlotInv /\ RunningInv /\ OwnSection

DoneKept == \A s \in 1..n : state[s] = "DONE" /\ s <= n' => state'[s] = "DONE"
-----------------------------------------------------------------------------
(* Types.                                                                  *)

\* An actor goes to a place of its own code.
LEMMA Places ==
  ASSUME MgrAssumption, PlacesOK, Step
  PROVE  PlacesOK'
<1> USE DEF LaunchThread, Back, MayAdd, PlacesOK, Actor, ThreadPC, HandlerPC, AddPC,
    CtlPC, LoopPC, StartPC, CallerPC, MgrAssumption
<1>1. ASSUME NEW p \in Caller, StartCall(p) PROVE PlacesOK'
  BY <1>1 DEF StartCall
<1>2. ASSUME NEW p \in Caller, Launch(p) PROVE PlacesOK'
  BY <1>2 DEF Launch
<1>3. ASSUME NEW p \in Caller, StopCall(p) PROVE PlacesOK'
  BY <1>3 DEF StopCall
<1>4. ASSUME NEW p \in Caller, StopDldr(p) PROVE PlacesOK'
  BY <1>4 DEF StopDldr
<1>5. ASSUME NEW c \in Ctl, ThreadStarts(c) PROVE PlacesOK'
  BY <1>5 DEF ThreadStarts
<1>6. ASSUME NEW c \in Ctl, LoopNeedStart(c) PROVE PlacesOK'
  BY <1>6 DEF LoopNeedStart
<1>7. ASSUME NEW c \in Ctl, LoopRuns(c) PROVE PlacesOK'
  BY <1>7 DEF LoopRuns
<1>8. ASSUME NEW c \in Ctl, StopCheck(c) PROVE PlacesOK'
  BY <1>8 DEF StopCheck
<1>9. ASSUME NEW c \in Ctl, WorkDone(c) PROVE PlacesOK'
  BY <1>9 DEF WorkDone
<1>10. ASSUME NEW c \in Ctl, Watchdog(c) PROVE PlacesOK'
  BY <1>10 DEF Watchdog
<1>11. ASSUME NEW c \in Ctl, WatchdogStopped(c) PROVE PlacesOK'
  BY <1>11 DEF WatchdogStopped
<1>12. ASSUME NEW c \in Ctl, LaunchOneMoreSection(c) PROVE PlacesOK'
  BY <1>12 DEF LaunchOneMoreSection
<1>13. ASSUME NEW c \in Ctl, StartDownload(c) PROVE PlacesOK'
  BY <1>13 DEF StartDownload
<1>14. ASSUME NEW c \in Ctl, MainFails(c) PROVE PlacesOK'
  BY <1>14 DEF MainFails
<1>15. ASSUME NEW c \in Ctl, MainNoFile(c) PROVE PlacesOK'
  BY <1>15 DEF MainNoFile
<1>16. ASSUME NEW c \in Ctl, MainOpened(c) PROVE PlacesOK'
  BY <1>16 DEF MainOpened
<1>17. ASSUME NEW c \in Ctl, MainLaunch(c) PROVE PlacesOK'
  BY <1>17 DEF MainLaunch
<1>18. ASSUME NEW c \in Ctl, StartSkip(c) PROVE PlacesOK'
  BY <1>18 DEF StartSkip
<1>19. ASSUME NEW c \in Ctl, StartSection(c) PROVE PlacesOK'
  BY <1>19 DEF StartSection
<1>20. ASSUME NEW c \in Ctl, StartNoFile(c) PROVE PlacesOK'
  BY <1>20 DEF StartNoFile
<1>21. ASSUME NEW c \in Ctl, StartOpenFails(c) PROVE PlacesOK'
  BY <1>21 DEF StartOpenFails
<1>22. ASSUME NEW c \in Ctl, StartAfresh(c) PROVE PlacesOK'
  BY <1>22 DEF StartAfresh
<1>23. ASSUME NEW c \in Ctl, StartReturns(c) PROVE PlacesOK'
  BY <1>23 DEF StartReturns
<1>24. ASSUME NEW c \in Ctl, StartResult(c) PROVE PlacesOK'
  BY <1>24 DEF StartResult
<1>25. ASSUME NEW c \in Ctl, StartTests(c) PROVE PlacesOK'
  BY <1>25 DEF StartTests
<1>26. ASSUME NEW c \in Ctl, SetDownloading(c) PROVE PlacesOK'
  BY <1>26 DEF SetDownloading
<1>27. ASSUME NEW c \in Ctl, SleepInterval(c) PROVE PlacesOK'
  BY <1>27 DEF SleepInterval
<1>28. ASSUME NEW c \in Ctl, AfterStart(c) PROVE PlacesOK'
  BY <1>28 DEF AfterStart
<1>29. ASSUME NEW c \in Ctl, LoopEnds(c) PROVE PlacesOK'
  BY <1>29 DEF LoopEnds
<1>30. ASSUME NEW c \in Ctl, FatalError(c) PROVE PlacesOK'
  BY <1>30 DEF FatalError
<1>31. ASSUME NEW c \in Ctl, Stopped(c) PROVE PlacesOK'
  BY <1>31 DEF Stopped
<1>32. ASSUME NEW c \in Ctl, Close(c) PROVE PlacesOK'
  BY <1>32 DEF Close
<1>33. ASSUME NEW c \in Ctl, ThreadEnds(c) PROVE PlacesOK'
  BY <1>33 DEF ThreadEnds
<1>34. ASSUME NEW c \in Ctl, StoppedOrDone(c) PROVE PlacesOK'
  BY <1>34 DEF StoppedOrDone
<1>35. ASSUME NEW t \in Thread, ThreadBegin(t) PROVE PlacesOK'
  BY <1>35 DEF ThreadBegin
<1>36. ASSUME NEW t \in Thread, SectionEnds(t) PROVE PlacesOK'
  BY <1>36 DEF SectionEnds
<1>37. ASSUME NEW t \in Thread, Leave(t) PROVE PlacesOK'
  BY <1>37 DEF Leave
<1>38. ASSUME NEW t \in Thread, SectionDone(t) PROVE PlacesOK'
  BY <1>38 DEF SectionDone
<1>39. ASSUME NEW t \in Thread, NotAdded(t) PROVE PlacesOK'
  BY <1>39 DEF NotAdded
<1>40. ASSUME NEW t \in Thread, OnDone(t) PROVE PlacesOK'
  BY <1>40 DEF OnDone
<1>41. ASSUME NEW t \in Thread, SetDone(t) PROVE PlacesOK'
  BY <1>41 DEF SetDone
<1>42. ASSUME NEW t \in Thread, OnSectionStopped(t) PROVE PlacesOK'
  BY <1>42 DEF OnSectionStopped
<1>43. ASSUME NEW t \in Thread, ClearDownloading(t) PROVE PlacesOK'
  BY <1>43 DEF ClearDownloading
<1>44. ASSUME NEW t \in Thread, AnnounceRestart(t) PROVE PlacesOK'
  BY <1>44 DEF AnnounceRestart
<1>45. ASSUME NEW t \in Thread, SetNeedStart(t) PROVE PlacesOK'
  BY <1>45 DEF SetNeedStart
<1>46. ASSUME NEW t \in Thread, SetNeedStop(t) PROVE PlacesOK'
  BY <1>46 DEF SetNeedStop
<1>47. ASSUME NEW t \in Thread, ThreadExit(t) PROVE PlacesOK'
  BY <1>47 DEF ThreadExit
<1>48. ASSUME NEW a \in Thread \cup Ctl, AddRefused(a) PROVE PlacesOK'
  BY <1>48 DEF AddRefused
<1>49. ASSUME NEW a \in Thread \cup Ctl, AddSection(a) PROVE PlacesOK'
  BY <1>49 DEF AddSection
<1>50. ASSUME NEW a \in Thread \cup Ctl, AddFails(a) PROVE PlacesOK'
  BY <1>50 DEF AddFails
<1>51. ASSUME NEW a \in Thread \cup Ctl, AddOpened(a) PROVE PlacesOK'
  BY <1>51 DEF AddOpened
<1>52. ASSUME NEW a \in Thread \cup Ctl, AddInsert(a) PROVE PlacesOK'
  BY <1>52 DEF AddInsert
<1>53. ASSUME NEW a \in Thread \cup Ctl, AddLaunch(a) PROVE PlacesOK'
  BY <1>53 DEF AddLaunch
<1> QED
  BY <1>1, <1>2, <1>3, <1>4, <1>5, <1>6, <1>7, <1>8, <1>9, <1>10, <1>11, <1>12,
     <1>13, <1>14, <1>15, <1>16, <1>17, <1>18, <1>19, <1>20, <1>21, <1>22, <1>23,
     <1>24, <1>25, <1>26, <1>27, <1>28, <1>29, <1>30, <1>31, <1>32, <1>33, <1>34,
     <1>35, <1>36, <1>37, <1>38, <1>39, <1>40, <1>41, <1>42, <1>43, <1>44, <1>45,
     <1>46, <1>47, <1>48, <1>49, <1>50, <1>51, <1>52, <1>53
  DEF Step, CallerSteps, ControlSteps, StartSteps, EndSteps, SectionSteps, AddSteps

\* The Boolean variables.
LEMMA Flags ==
  ASSUME FlagsOK, Step
  PROVE  FlagsOK'
<1> USE DEF FlagsOK, LaunchThread, Fault, FileRefused, DldrRunning
<1>1. ASSUME NEW p \in Caller, StartCall(p) PROVE FlagsOK'
  BY <1>1, Zenon DEF StartCall
<1>2. ASSUME NEW p \in Caller, Launch(p) PROVE FlagsOK'
  BY <1>2, Zenon DEF Launch
<1>3. ASSUME NEW p \in Caller, StopCall(p) PROVE FlagsOK'
  BY <1>3, Zenon DEF StopCall
<1>4. ASSUME NEW p \in Caller, StopDldr(p) PROVE FlagsOK'
  BY <1>4, Zenon DEF StopDldr
<1>5. ASSUME NEW c \in Ctl, ThreadStarts(c) PROVE FlagsOK'
  BY <1>5, Zenon DEF ThreadStarts
<1>6. ASSUME NEW c \in Ctl, LoopNeedStart(c) PROVE FlagsOK'
  BY <1>6, Zenon DEF LoopNeedStart
<1>7. ASSUME NEW c \in Ctl, LoopRuns(c) PROVE FlagsOK'
  BY <1>7, Zenon DEF LoopRuns
<1>8. ASSUME NEW c \in Ctl, StopCheck(c) PROVE FlagsOK'
  BY <1>8, Zenon DEF StopCheck
<1>9. ASSUME NEW c \in Ctl, WorkDone(c) PROVE FlagsOK'
  BY <1>9, Zenon DEF WorkDone
<1>10. ASSUME NEW c \in Ctl, Watchdog(c) PROVE FlagsOK'
  BY <1>10, Zenon DEF Watchdog
<1>11. ASSUME NEW c \in Ctl, WatchdogStopped(c) PROVE FlagsOK'
  BY <1>11, Zenon DEF WatchdogStopped
<1>12. ASSUME NEW c \in Ctl, LaunchOneMoreSection(c) PROVE FlagsOK'
  BY <1>12, Zenon DEF LaunchOneMoreSection
<1>13. ASSUME NEW c \in Ctl, StartDownload(c) PROVE FlagsOK'
  BY <1>13, Zenon DEF StartDownload
<1>14. ASSUME NEW c \in Ctl, MainFails(c) PROVE FlagsOK'
  BY <1>14, Zenon DEF MainFails
<1>15. ASSUME NEW c \in Ctl, MainNoFile(c) PROVE FlagsOK'
  BY <1>15, Zenon DEF MainNoFile
<1>16. ASSUME NEW c \in Ctl, MainOpened(c) PROVE FlagsOK'
  BY <1>16, Zenon DEF MainOpened
<1>17. ASSUME NEW c \in Ctl, MainLaunch(c) PROVE FlagsOK'
  BY <1>17, Zenon DEF MainLaunch
<1>18. ASSUME NEW c \in Ctl, StartSkip(c) PROVE FlagsOK'
  BY <1>18, Zenon DEF StartSkip
<1>19. ASSUME NEW c \in Ctl, StartSection(c) PROVE FlagsOK'
  BY <1>19, Zenon DEF StartSection
<1>20. ASSUME NEW c \in Ctl, StartNoFile(c) PROVE FlagsOK'
  BY <1>20, Zenon DEF StartNoFile
<1>21. ASSUME NEW c \in Ctl, StartOpenFails(c) PROVE FlagsOK'
  BY <1>21, Zenon DEF StartOpenFails
<1>22. ASSUME NEW c \in Ctl, StartAfresh(c) PROVE FlagsOK'
  BY <1>22, Zenon DEF StartAfresh
<1>23. ASSUME NEW c \in Ctl, StartReturns(c) PROVE FlagsOK'
  BY <1>23, Zenon DEF StartReturns
<1>24. ASSUME NEW c \in Ctl, StartResult(c) PROVE FlagsOK'
  BY <1>24, Zenon DEF StartResult
<1>25. ASSUME NEW c \in Ctl, StartTests(c) PROVE FlagsOK'
  BY <1>25, Zenon DEF StartTests
<1>26. ASSUME NEW c \in Ctl, SetDownloading(c) PROVE FlagsOK'
  BY <1>26, Zenon DEF SetDownloading
<1>27. ASSUME NEW c \in Ctl, SleepInterval(c) PROVE FlagsOK'
  BY <1>27, Zenon DEF SleepInterval
<1>28. ASSUME NEW c \in Ctl, AfterStart(c) PROVE FlagsOK'
  BY <1>28, Zenon DEF AfterStart
<1>29. ASSUME NEW c \in Ctl, LoopEnds(c) PROVE FlagsOK'
  BY <1>29, Zenon DEF LoopEnds
<1>30. ASSUME NEW c \in Ctl, FatalError(c) PROVE FlagsOK'
  BY <1>30, Zenon DEF FatalError
<1>31. ASSUME NEW c \in Ctl, Stopped(c) PROVE FlagsOK'
  BY <1>31, Zenon DEF Stopped
<1>32. ASSUME NEW c \in Ctl, Close(c) PROVE FlagsOK'
  BY <1>32, Zenon DEF Close
<1>33. ASSUME NEW c \in Ctl, ThreadEnds(c) PROVE FlagsOK'
  BY <1>33, Zenon DEF ThreadEnds
<1>34. ASSUME NEW c \in Ctl, StoppedOrDone(c) PROVE FlagsOK'
  BY <1>34, Zenon DEF StoppedOrDone
<1>35. ASSUME NEW t \in Thread, ThreadBegin(t) PROVE FlagsOK'
  BY <1>35, Zenon DEF ThreadBegin
<1>36. ASSUME NEW t \in Thread, SectionEnds(t) PROVE FlagsOK'
  BY <1>36, Zenon DEF SectionEnds
<1>37. ASSUME NEW t \in Thread, Leave(t) PROVE FlagsOK'
  BY <1>37, Zenon DEF Leave
<1>38. ASSUME NEW t \in Thread, SectionDone(t) PROVE FlagsOK'
  BY <1>38, Zenon DEF SectionDone
<1>39. ASSUME NEW t \in Thread, NotAdded(t) PROVE FlagsOK'
  BY <1>39, Zenon DEF NotAdded
<1>40. ASSUME NEW t \in Thread, OnDone(t) PROVE FlagsOK'
  BY <1>40, Zenon DEF OnDone
<1>41. ASSUME NEW t \in Thread, SetDone(t) PROVE FlagsOK'
  BY <1>41, Zenon DEF SetDone
<1>42. ASSUME NEW t \in Thread, OnSectionStopped(t) PROVE FlagsOK'
  BY <1>42, Zenon DEF OnSectionStopped
<1>43. ASSUME NEW t \in Thread, ClearDownloading(t) PROVE FlagsOK'
  BY <1>43, Zenon DEF ClearDownloading
<1>44. ASSUME NEW t \in Thread, AnnounceRestart(t) PROVE FlagsOK'
  BY <1>44, Zenon DEF AnnounceRestart
<1>45. ASSUME NEW t \in Thread, SetNeedStart(t) PROVE FlagsOK'
  BY <1>45, Zenon DEF SetNeedStart
<1>46. ASSUME NEW t \in Thread, SetNeedStop(t) PROVE FlagsOK'
  BY <1>46, Zenon DEF SetNeedStop
<1>47. ASSUME NEW t \in Thread, ThreadExit(t) PROVE FlagsOK'
  BY <1>47, Zenon DEF ThreadExit
<1>48. ASSUME NEW a \in Thread \cup Ctl, AddRefused(a) PROVE FlagsOK'
  BY <1>48, Zenon DEF AddRefused
<1>49. ASSUME NEW a \in Thread \cup Ctl, AddSection(a) PROVE FlagsOK'
  BY <1>49, Zenon DEF AddSection
<1>50. ASSUME NEW a \in Thread \cup Ctl, AddFails(a) PROVE FlagsOK'
  BY <1>50, Zenon DEF AddFails
<1>51. ASSUME NEW a \in Thread \cup Ctl, AddOpened(a) PROVE FlagsOK'
  BY <1>51, Zenon DEF AddOpened
<1>52. ASSUME NEW a \in Thread \cup Ctl, AddInsert(a) PROVE FlagsOK'
  BY <1>52, Zenon DEF AddInsert
<1>53. ASSUME NEW a \in Thread \cup Ctl, AddLaunch(a) PROVE FlagsOK'
  BY <1>53, Zenon DEF AddLaunch
<1> QED
  BY <1>1, <1>2, <1>3, <1>4, <1>5, <1>6, <1>7, <1>8, <1>9, <1>10, <1>11, <1>12,
     <1>13, <1>14, <1>15, <1>16, <1>17, <1>18, <1>19, <1>20, <1>21, <1>22, <1>23,
     <1>24, <1>25, <1>26, <1>27, <1>28, <1>29, <1>30, <1>31, <1>32, <1>33, <1>34,
     <1>35, <1>36, <1>37, <1>38, <1>39, <1>40, <1>41, <1>42, <1>43, <1>44, <1>45,
     <1>46, <1>47, <1>48, <1>49, <1>50, <1>51, <1>52, <1>53
  DEF Step, CallerSteps, ControlSteps, StartSteps, EndSteps, SectionSteps, AddSteps

\* What a refused file changes.
LEMMA Refused ==
  ASSUME FileRefused
  PROVE  /\ faults < MaxFaults /\ faults' = faults + 1 /\ ir' = "S_FALSE"
         /\ dw' = dw \/ dw' = dw \cup {"NEEDSTOP"}
BY Zenon DEF FileRefused, Fault

\* The other variables.  The list has room for the section inserted.
LEMMA Data ==
  ASSUME MgrAssumption, PlacesOK, FlagsOK, DataOK, SlotInv, Step
  PROVE  DataOK'
<1>1. ASSUME NEW p \in Caller, StartCall(p) PROVE DataOK'
  BY <1>1 DEF StartCall, DataOK
<1>2. ASSUME NEW p \in Caller, Launch(p) PROVE DataOK'
  BY <1>2 DEF Launch, LaunchThread, MayAdd, Fault, OpenError, DataOK, SlotInv,
     PlacesOK, FlagsOK, Actor, Thread, SectId, Flag, SectionState, Result, AddPC,
     MgrAssumption
<1>3. ASSUME NEW p \in Caller, StopCall(p) PROVE DataOK'
  BY <1>3 DEF StopCall, LaunchThread, MayAdd, Fault, OpenError, DataOK, SlotInv,
     PlacesOK, FlagsOK, Actor, Thread, SectId, Flag, SectionState, Result, AddPC,
     MgrAssumption
<1>4. ASSUME NEW p \in Caller, StopDldr(p) PROVE DataOK'
  BY <1>4 DEF StopDldr, DataOK
<1>5. ASSUME NEW c \in Ctl, ThreadStarts(c) PROVE DataOK'
  BY <1>5 DEF ThreadStarts, LaunchThread, MayAdd, Fault, OpenError, DataOK, SlotInv,
     PlacesOK, FlagsOK, Actor, Thread, SectId, Flag, SectionState, Result, AddPC,
     MgrAssumption
<1>6. ASSUME NEW c \in Ctl, LoopNeedStart(c) PROVE DataOK'
  BY <1>6 DEF LoopNeedStart, DataOK
<1>7. ASSUME NEW c \in Ctl, LoopRuns(c) PROVE DataOK'
  BY <1>7 DEF LoopRuns, DataOK
<1>8. ASSUME NEW c \in Ctl, StopCheck(c) PROVE DataOK'
  BY <1>8 DEF StopCheck, DataOK
<1>9. ASSUME NEW c \in Ctl, WorkDone(c) PROVE DataOK'
  BY <1>9 DEF WorkDone, DataOK
<1>10. ASSUME NEW c \in Ctl, Watchdog(c) PROVE DataOK'
  BY <1>10 DEF Watchdog, LaunchThread, MayAdd, Fault, OpenError, DataOK, SlotInv,
     PlacesOK, FlagsOK, Actor, Thread, SectId, Flag, SectionState, Result, AddPC,
     MgrAssumption
<1>11. ASSUME NEW c \in Ctl, WatchdogStopped(c) PROVE DataOK'
  BY <1>11 DEF WatchdogStopped, DataOK
<1>12. ASSUME NEW c \in Ctl, LaunchOneMoreSection(c) PROVE DataOK'
  BY <1>12 DEF LaunchOneMoreSection, LaunchThread, MayAdd, Fault, OpenError, DataOK,
     SlotInv, PlacesOK, FlagsOK, Actor, Thread, SectId, Flag, SectionState, Result,
     AddPC, MgrAssumption
<1>13. ASSUME NEW c \in Ctl, StartDownload(c) PROVE DataOK'
  BY <1>13 DEF StartDownload, LaunchThread, MayAdd, Fault, OpenError, DataOK,
     SlotInv, PlacesOK, FlagsOK, Actor, Thread, SectId, Flag, SectionState, Result,
     AddPC, MgrAssumption
<1>14. ASSUME NEW c \in Ctl, MainFails(c) PROVE DataOK'
  BY <1>14 DEF MainFails, LaunchThread, MayAdd, Fault, OpenError, DataOK, SlotInv,
     PlacesOK, FlagsOK, Actor, Thread, SectId, Flag, SectionState, Result, AddPC,
     MgrAssumption
<1>15. ASSUME NEW c \in Ctl, MainNoFile(c) PROVE DataOK'
  <2>1. FileRefused
    BY <1>15 DEF MainNoFile
  <2>2. /\ faults < MaxFaults /\ faults' = faults + 1 /\ ir' = "S_FALSE"
        /\ dw' = dw \/ dw' = dw \cup {"NEEDSTOP"}
    BY <2>1, Refused
  <2>3. dw' \subseteq Flag
    BY <2>2 DEF DataOK, Flag
  <2>4. faults' \in 0..MaxFaults /\ ir' \in Result
    BY <2>2 DEF DataOK, Result, MgrAssumption
  <2> QED
    BY <1>15, <2>3, <2>4 DEF MainNoFile, DataOK
<1>16. ASSUME NEW c \in Ctl, MainOpened(c) PROVE DataOK'
  BY <1>16 DEF MainOpened, LaunchThread, MayAdd, Fault, OpenError, DataOK, SlotInv,
     PlacesOK, FlagsOK, Actor, Thread, SectId, Flag, SectionState, Result, AddPC,
     MgrAssumption
<1>17. ASSUME NEW c \in Ctl, MainLaunch(c) PROVE DataOK'
  BY <1>17 DEF MainLaunch, LaunchThread, MayAdd, Fault, OpenError, DataOK, SlotInv,
     PlacesOK, FlagsOK, Actor, Thread, SectId, Flag, SectionState, Result, AddPC,
     MgrAssumption
<1>18. ASSUME NEW c \in Ctl, StartSkip(c) PROVE DataOK'
  BY <1>18 DEF StartSkip, DataOK
<1>19. ASSUME NEW c \in Ctl, StartSection(c) PROVE DataOK'
  BY <1>19 DEF StartSection, LaunchThread, MayAdd, Fault, OpenError, DataOK, SlotInv,
     PlacesOK, FlagsOK, Actor, Thread, SectId, Flag, SectionState, Result, AddPC,
     MgrAssumption
<1>20. ASSUME NEW c \in Ctl, StartNoFile(c) PROVE DataOK'
  <2>1. FileRefused
    BY <1>20 DEF StartNoFile
  <2>2. /\ faults < MaxFaults /\ faults' = faults + 1 /\ ir' = "S_FALSE"
        /\ dw' = dw \/ dw' = dw \cup {"NEEDSTOP"}
    BY <2>1, Refused
  <2>3. dw' \subseteq Flag
    BY <2>2 DEF DataOK, Flag
  <2>4. faults' \in 0..MaxFaults /\ ir' \in Result
    BY <2>2 DEF DataOK, Result, MgrAssumption
  <2> QED
    BY <1>20, <2>3, <2>4 DEF StartNoFile, DataOK
<1>21. ASSUME NEW c \in Ctl, StartOpenFails(c) PROVE DataOK'
  BY <1>21 DEF StartOpenFails, LaunchThread, MayAdd, Fault, OpenError, DataOK,
     SlotInv, PlacesOK, FlagsOK, Actor, Thread, SectId, Flag, SectionState, Result,
     AddPC, MgrAssumption
<1>22. ASSUME NEW c \in Ctl, StartAfresh(c) PROVE DataOK'
  BY <1>22 DEF StartAfresh, LaunchThread, MayAdd, Fault, OpenError, DataOK, SlotInv,
     PlacesOK, FlagsOK, Actor, Thread, SectId, Flag, SectionState, Result, AddPC,
     MgrAssumption
<1>23. ASSUME NEW c \in Ctl, StartReturns(c) PROVE DataOK'
  BY <1>23 DEF StartReturns, LaunchThread, MayAdd, Fault, OpenError, DataOK, SlotInv,
     PlacesOK, FlagsOK, Actor, Thread, SectId, Flag, SectionState, Result, AddPC,
     MgrAssumption
<1>24. ASSUME NEW c \in Ctl, StartResult(c) PROVE DataOK'
  BY <1>24 DEF StartResult, LaunchThread, MayAdd, Fault, OpenError, DataOK, SlotInv,
     PlacesOK, FlagsOK, Actor, Thread, SectId, Flag, SectionState, Result, AddPC,
     MgrAssumption
<1>25. ASSUME NEW c \in Ctl, StartTests(c) PROVE DataOK'
  BY <1>25 DEF StartTests, DataOK
<1>26. ASSUME NEW c \in Ctl, SetDownloading(c) PROVE DataOK'
  BY <1>26 DEF SetDownloading, LaunchThread, MayAdd, Fault, OpenError, DataOK,
     SlotInv, PlacesOK, FlagsOK, Actor, Thread, SectId, Flag, SectionState, Result,
     AddPC, MgrAssumption
<1>27. ASSUME NEW c \in Ctl, SleepInterval(c) PROVE DataOK'
  BY <1>27 DEF SleepInterval, LaunchThread, MayAdd, Fault, OpenError, DataOK,
     SlotInv, PlacesOK, FlagsOK, Actor, Thread, SectId, Flag, SectionState, Result,
     AddPC, MgrAssumption
<1>28. ASSUME NEW c \in Ctl, AfterStart(c) PROVE DataOK'
  BY <1>28 DEF AfterStart, LaunchThread, MayAdd, Fault, OpenError, DataOK, SlotInv,
     PlacesOK, FlagsOK, Actor, Thread, SectId, Flag, SectionState, Result, AddPC,
     MgrAssumption
<1>29. ASSUME NEW c \in Ctl, LoopEnds(c) PROVE DataOK'
  BY <1>29 DEF LoopEnds, DataOK
<1>30. ASSUME NEW c \in Ctl, FatalError(c) PROVE DataOK'
  BY <1>30 DEF FatalError, DataOK
<1>31. ASSUME NEW c \in Ctl, Stopped(c) PROVE DataOK'
  BY <1>31 DEF Stopped, DataOK
<1>32. ASSUME NEW c \in Ctl, Close(c) PROVE DataOK'
  BY <1>32 DEF Close, DataOK
<1>33. ASSUME NEW c \in Ctl, ThreadEnds(c) PROVE DataOK'
  BY <1>33 DEF ThreadEnds, DataOK
<1>34. ASSUME NEW c \in Ctl, StoppedOrDone(c) PROVE DataOK'
  BY <1>34 DEF StoppedOrDone, DataOK
<1>35. ASSUME NEW t \in Thread, ThreadBegin(t) PROVE DataOK'
  BY <1>35 DEF ThreadBegin, LaunchThread, MayAdd, Fault, OpenError, DataOK, SlotInv,
     PlacesOK, FlagsOK, Actor, Thread, SectId, Flag, SectionState, Result, AddPC,
     MgrAssumption
<1>36. ASSUME NEW t \in Thread, SectionEnds(t) PROVE DataOK'
  <2>1. PICK st \in {"DONE", "FAILED", "STOPPED"} :
          /\ state' = [state EXCEPT ![sect[t]] = st]
          /\ IF st = "FAILED" THEN Fault ELSE UNCHANGED faults
    BY <1>36 DEF SectionEnds
  <2>2. faults' \in 0..MaxFaults
    BY <2>1 DEF Fault, DataOK, MgrAssumption
  <2>3. state' \in [SectId -> SectionState]
    BY <2>1 DEF DataOK, SectionState
  <2> QED
    BY <1>36, <2>2, <2>3 DEF SectionEnds, DataOK
<1>37. ASSUME NEW t \in Thread, Leave(t) PROVE DataOK'
  BY <1>37 DEF Leave, DataOK
<1>38. ASSUME NEW t \in Thread, SectionDone(t) PROVE DataOK'
  BY <1>38 DEF SectionDone, DataOK
<1>39. ASSUME NEW t \in Thread, NotAdded(t) PROVE DataOK'
  BY <1>39 DEF NotAdded, DataOK
<1>40. ASSUME NEW t \in Thread, OnDone(t) PROVE DataOK'
  BY <1>40 DEF OnDone, DataOK
<1>41. ASSUME NEW t \in Thread, SetDone(t) PROVE DataOK'
  BY <1>41 DEF SetDone, LaunchThread, MayAdd, Fault, OpenError, DataOK, SlotInv,
     PlacesOK, FlagsOK, Actor, Thread, SectId, Flag, SectionState, Result, AddPC,
     MgrAssumption
<1>42. ASSUME NEW t \in Thread, OnSectionStopped(t) PROVE DataOK'
  BY <1>42 DEF OnSectionStopped, DataOK
<1>43. ASSUME NEW t \in Thread, ClearDownloading(t) PROVE DataOK'
  BY <1>43 DEF ClearDownloading, DataOK
<1>44. ASSUME NEW t \in Thread, AnnounceRestart(t) PROVE DataOK'
  BY <1>44 DEF AnnounceRestart, DataOK
<1>45. ASSUME NEW t \in Thread, SetNeedStart(t) PROVE DataOK'
  BY <1>45 DEF SetNeedStart, LaunchThread, MayAdd, Fault, OpenError, DataOK, SlotInv,
     PlacesOK, FlagsOK, Actor, Thread, SectId, Flag, SectionState, Result, AddPC,
     MgrAssumption
<1>46. ASSUME NEW t \in Thread, SetNeedStop(t) PROVE DataOK'
  BY <1>46 DEF SetNeedStop, LaunchThread, MayAdd, Fault, OpenError, DataOK, SlotInv,
     PlacesOK, FlagsOK, Actor, Thread, SectId, Flag, SectionState, Result, AddPC,
     MgrAssumption
<1>47. ASSUME NEW t \in Thread, ThreadExit(t) PROVE DataOK'
  BY <1>47 DEF ThreadExit, LaunchThread, MayAdd, Fault, OpenError, DataOK, SlotInv,
     PlacesOK, FlagsOK, Actor, Thread, SectId, Flag, SectionState, Result, AddPC,
     MgrAssumption
<1>48. ASSUME NEW a \in Thread \cup Ctl, AddRefused(a) PROVE DataOK'
  BY <1>48 DEF AddRefused, LaunchThread, MayAdd, Fault, OpenError, DataOK, SlotInv,
     PlacesOK, FlagsOK, Actor, Thread, SectId, Flag, SectionState, Result, AddPC,
     MgrAssumption
<1>49. ASSUME NEW a \in Thread \cup Ctl, AddSection(a) PROVE DataOK'
  BY <1>49 DEF AddSection, LaunchThread, MayAdd, Fault, OpenError, DataOK, SlotInv,
     PlacesOK, FlagsOK, Actor, Thread, SectId, Flag, SectionState, Result, AddPC,
     MgrAssumption
<1>50. ASSUME NEW a \in Thread \cup Ctl, AddFails(a) PROVE DataOK'
  BY <1>50 DEF AddFails, LaunchThread, MayAdd, Fault, OpenError, DataOK, SlotInv,
     PlacesOK, FlagsOK, Actor, Thread, SectId, Flag, SectionState, Result, AddPC,
     MgrAssumption
<1>51. ASSUME NEW a \in Thread \cup Ctl, AddOpened(a) PROVE DataOK'
  BY <1>51 DEF AddOpened, DataOK
<1>52. ASSUME NEW a \in Thread \cup Ctl, AddInsert(a) PROVE DataOK'
  BY <1>52 DEF AddInsert, LaunchThread, MayAdd, Fault, OpenError, DataOK, SlotInv,
     PlacesOK, FlagsOK, Actor, Thread, SectId, Flag, SectionState, Result, AddPC,
     MgrAssumption
<1>53. ASSUME NEW a \in Thread \cup Ctl, AddLaunch(a) PROVE DataOK'
  BY <1>53 DEF AddLaunch, LaunchThread, MayAdd, Fault, OpenError, DataOK, SlotInv,
     PlacesOK, FlagsOK, Actor, Thread, SectId, Flag, SectionState, Result, AddPC,
     MgrAssumption
<1> QED
  BY <1>1, <1>2, <1>3, <1>4, <1>5, <1>6, <1>7, <1>8, <1>9, <1>10, <1>11, <1>12,
     <1>13, <1>14, <1>15, <1>16, <1>17, <1>18, <1>19, <1>20, <1>21, <1>22, <1>23,
     <1>24, <1>25, <1>26, <1>27, <1>28, <1>29, <1>30, <1>31, <1>32, <1>33, <1>34,
     <1>35, <1>36, <1>37, <1>38, <1>39, <1>40, <1>41, <1>42, <1>43, <1>44, <1>45,
     <1>46, <1>47, <1>48, <1>49, <1>50, <1>51, <1>52, <1>53
  DEF Step, CallerSteps, ControlSteps, StartSteps, EndSteps, SectionSteps, AddSteps
-----------------------------------------------------------------------------
(* Control threads, locks and slots.                                       *)

\* Launch adds the only control thread and ThreadEnds takes it away, each
\* with m_bThreadRunning; the others stay in or out of Controls.
LEMMA Control ==
  ASSUME MgrAssumption, PlacesOK, FlagsOK, ControlInv, Step, "two" \notin odd,
         "two" \notin odd' => ~Two'
  PROVE  ControlInv'
<1> USE DEF PlacesOK, Actor, Thread, ThreadPC, HandlerPC, CtlPC, AddPC, LoopPC,
    StartPC, CallerPC, MgrAssumption
<1>1. ASSUME NEW p \in Caller, StartCall(p) PROVE ControlInv'
  BY <1>1 DEF StartCall, ControlInv, OneControl, Controls, IsRunning, Two, MayAdd, Back
<1>2. ASSUME NEW p \in Caller, Launch(p) PROVE ControlInv'
  <2>1. PICK c \in Ctl : pc[c] = "none" /\ pc' = [pc EXCEPT ![p] = "idle",
  ![c] = "starting"]
    BY <1>2 DEF Launch
  <2>2. Controls = {} /\ \A q \in Caller : pc[q] = "go" => q = p
    BY <1>2 DEF Launch, ControlInv
  <2>3. c \in Controls' /\ \A d \in Controls' : d = c
    BY ZenonT(40), <2>1, <2>2 DEF Controls
  <2>4. \A q \in Caller : pc'[q] # "go"
    BY <2>1, <2>2
  <2> QED
    BY ZenonT(40), <1>2, <2>3, <2>4 DEF Launch, ControlInv, OneControl
<1>3. ASSUME NEW p \in Caller, StopCall(p) PROVE ControlInv'
  BY <1>3 DEF StopCall, ControlInv, OneControl, Controls
<1>4. ASSUME NEW p \in Caller, StopDldr(p) PROVE ControlInv'
  BY <1>4 DEF StopDldr, ControlInv, OneControl, Controls
<1>5. ASSUME NEW c \in Ctl, ThreadStarts(c) PROVE ControlInv'
  <2>1. PICK l \in {"loop", "ending"} : pc' = [pc EXCEPT ![c] = l]
    BY <1>5 DEF ThreadStarts, PlacesOK
  <2> QED
    BY <1>5, <2>1 DEF ThreadStarts, ControlInv, OneControl, Controls, IsRunning, Two,
       MayAdd, Back
<1>6. ASSUME NEW c \in Ctl, LoopNeedStart(c) PROVE ControlInv'
  BY <1>6 DEF LoopNeedStart, ControlInv, OneControl, Controls
<1>7. ASSUME NEW c \in Ctl, LoopRuns(c) PROVE ControlInv'
  BY <1>7 DEF LoopRuns, ControlInv, OneControl, Controls
<1>8. ASSUME NEW c \in Ctl, StopCheck(c) PROVE ControlInv'
  <2>1. PICK l \in {"stopwait", "work"} : pc' = [pc EXCEPT ![c] = l]
    BY <1>8 DEF StopCheck, PlacesOK
  <2> QED
    BY <1>8, <2>1 DEF StopCheck, ControlInv, OneControl, Controls, IsRunning, Two,
       MayAdd, Back
<1>9. ASSUME NEW c \in Ctl, WorkDone(c) PROVE ControlInv'
  BY <1>9 DEF WorkDone, ControlInv, OneControl, Controls
<1>10. ASSUME NEW c \in Ctl, Watchdog(c) PROVE ControlInv'
  BY <1>10 DEF Watchdog, ControlInv, OneControl, Controls
<1>11. ASSUME NEW c \in Ctl, WatchdogStopped(c) PROVE ControlInv'
  BY <1>11 DEF WatchdogStopped, ControlInv, OneControl, Controls
<1>12. ASSUME NEW c \in Ctl, LaunchOneMoreSection(c) PROVE ControlInv'
  <2>1. PICK t \in Thread : pc[t] = "none" /\ pc' = [pc EXCEPT ![t] = "begin",
  ![c] = "loop"]
    BY <1>12 DEF LaunchOneMoreSection, LaunchThread
  <2>2. ASSUME NEW q \in Caller PROVE pc'[q] = pc[q]
    BY <1>12, <2>1
  <2>3. Controls' = Controls /\ UNCHANGED bThreadRunning
    BY ZenonT(40), <1>12, <2>1 DEF LaunchOneMoreSection, Controls
  <2> QED
    BY <2>2, <2>3 DEF ControlInv, OneControl
<1>13. ASSUME NEW c \in Ctl, StartDownload(c) PROVE ControlInv'
  <2>1. PICK l \in {"main_open", "result", "start_sect"} : pc' = [pc EXCEPT ![c] = l]
    BY <1>13 DEF StartDownload, PlacesOK
  <2> QED
    BY <1>13, <2>1 DEF StartDownload, ControlInv, OneControl, Controls, IsRunning,
       Two, MayAdd, Back
<1>14. ASSUME NEW c \in Ctl, MainFails(c) PROVE ControlInv'
  BY <1>14 DEF MainFails, ControlInv, OneControl, Controls
<1>15. ASSUME NEW c \in Ctl, MainNoFile(c) PROVE ControlInv'
  BY <1>15 DEF MainNoFile, ControlInv, OneControl, Controls
<1>16. ASSUME NEW c \in Ctl, MainOpened(c) PROVE ControlInv'
  BY <1>16 DEF MainOpened, ControlInv, OneControl, Controls
<1>17. ASSUME NEW c \in Ctl, MainLaunch(c) PROVE ControlInv'
  <2>1. PICK t \in Thread : pc[t] = "none" /\ pc' = [pc EXCEPT ![t] = "begin",
  ![c] = "result"]
    BY <1>17 DEF MainLaunch, LaunchThread
  <2>2. ASSUME NEW q \in Caller PROVE pc'[q] = pc[q]
    BY <1>17, <2>1
  <2>3. Controls' = Controls /\ UNCHANGED bThreadRunning
    BY ZenonT(40), <1>17, <2>1 DEF MainLaunch, Controls
  <2> QED
    BY <2>2, <2>3 DEF ControlInv, OneControl
<1>18. ASSUME NEW c \in Ctl, StartSkip(c) PROVE ControlInv'
  BY <1>18 DEF StartSkip, ControlInv, OneControl, Controls
<1>19. ASSUME NEW c \in Ctl, StartSection(c) PROVE ControlInv'
  <2>1. PICK t \in Thread : pc[t] = "none" /\ pc' = [pc EXCEPT ![t] = "begin",
  ![c] = "start_sect"]
    BY <1>19 DEF StartSection, LaunchThread
  <2>2. ASSUME NEW q \in Caller PROVE pc'[q] = pc[q]
    BY <1>19, <2>1
  <2>3. Controls' = Controls /\ UNCHANGED bThreadRunning
    BY ZenonT(40), <1>19, <2>1 DEF StartSection, Controls
  <2> QED
    BY <2>2, <2>3 DEF ControlInv, OneControl
<1>20. ASSUME NEW c \in Ctl, StartNoFile(c) PROVE ControlInv'
  BY <1>20 DEF StartNoFile, ControlInv, OneControl, Controls
<1>21. ASSUME NEW c \in Ctl, StartOpenFails(c) PROVE ControlInv'
  <2>1. \A b \in Actor :
          pc'[b] = pc[b] \/ (b = c /\ pc[b] = "start_sect" /\ pc'[b] = "result")
    <3>1. pc[c] = "start_sect" /\ (pc' = pc \/ pc' = [pc EXCEPT ![c] = "result"])
      BY <1>21 DEF StartOpenFails
    <3> QED
      BY <3>1
  <2>2. ASSUME NEW q \in Caller PROVE pc'[q] = pc[q]
    BY <2>1
  <2>3. Controls' = Controls /\ UNCHANGED bThreadRunning
    BY ZenonT(40), <1>21, <2>1 DEF StartOpenFails, Controls
  <2> QED
    BY <2>2, <2>3 DEF ControlInv, OneControl
<1>22. ASSUME NEW c \in Ctl, StartAfresh(c) PROVE ControlInv'
  BY <1>22 DEF StartAfresh, ControlInv, OneControl, Controls
<1>23. ASSUME NEW c \in Ctl, StartReturns(c) PROVE ControlInv'
  BY <1>23 DEF StartReturns, ControlInv, OneControl, Controls
<1>24. ASSUME NEW c \in Ctl, StartResult(c) PROVE ControlInv'
  BY <1>24 DEF StartResult, ControlInv, OneControl, Controls
<1>25. ASSUME NEW c \in Ctl, StartTests(c) PROVE ControlInv'
  BY <1>25 DEF StartTests, ControlInv, OneControl, Controls
<1>26. ASSUME NEW c \in Ctl, SetDownloading(c) PROVE ControlInv'
  BY <1>26 DEF SetDownloading, ControlInv, OneControl, Controls
<1>27. ASSUME NEW c \in Ctl, SleepInterval(c) PROVE ControlInv'
  <2>1. PICK l \in {"after", "start"} : pc' = [pc EXCEPT ![c] = l]
    BY <1>27 DEF SleepInterval, PlacesOK
  <2> QED
    BY <1>27, <2>1 DEF SleepInterval, ControlInv, OneControl, Controls, IsRunning,
       Two, MayAdd, Back
<1>28. ASSUME NEW c \in Ctl, AfterStart(c) PROVE ControlInv'
  BY <1>28 DEF AfterStart, ControlInv, OneControl, Controls
<1>29. ASSUME NEW c \in Ctl, LoopEnds(c) PROVE ControlInv'
  BY <1>29 DEF LoopEnds, ControlInv, OneControl, Controls
<1>30. ASSUME NEW c \in Ctl, FatalError(c) PROVE ControlInv'
  BY <1>30 DEF FatalError, ControlInv, OneControl, Controls
<1>31. ASSUME NEW c \in Ctl, Stopped(c) PROVE ControlInv'
  BY <1>31 DEF Stopped, ControlInv, OneControl, Controls
<1>32. ASSUME NEW c \in Ctl, Close(c) PROVE ControlInv'
  BY <1>32 DEF Close, ControlInv, OneControl, Controls
<1>33. ASSUME NEW c \in Ctl, ThreadEnds(c) PROVE ControlInv'
  BY <1>33 DEF ThreadEnds, ControlInv, OneControl, Controls
<1>34. ASSUME NEW c \in Ctl, StoppedOrDone(c) PROVE ControlInv'
  BY <1>34 DEF StoppedOrDone, ControlInv, OneControl, Controls
<1>35. ASSUME NEW t \in Thread, ThreadBegin(t) PROVE ControlInv'
  BY <1>35 DEF ThreadBegin, ControlInv, OneControl, Controls
<1>36. ASSUME NEW t \in Thread, SectionEnds(t) PROVE ControlInv'
  BY <1>36 DEF SectionEnds, ControlInv, OneControl, Controls
<1>37. ASSUME NEW t \in Thread, Leave(t) PROVE ControlInv'
  BY <1>37 DEF Leave, ControlInv, OneControl, Controls
<1>38. ASSUME NEW t \in Thread, SectionDone(t) PROVE ControlInv'
  BY <1>38 DEF SectionDone, ControlInv, OneControl, Controls
<1>39. ASSUME NEW t \in Thread, NotAdded(t) PROVE ControlInv'
  BY <1>39 DEF NotAdded, ControlInv, OneControl, Controls
<1>40. ASSUME NEW t \in Thread, OnDone(t) PROVE ControlInv'
  BY <1>40 DEF OnDone, ControlInv, OneControl, Controls
<1>41. ASSUME NEW t \in Thread, SetDone(t) PROVE ControlInv'
  BY <1>41 DEF SetDone, ControlInv, OneControl, Controls
<1>42. ASSUME NEW t \in Thread, OnSectionStopped(t) PROVE ControlInv'
  BY <1>42 DEF OnSectionStopped, ControlInv, OneControl, Controls
<1>43. ASSUME NEW t \in Thread, ClearDownloading(t) PROVE ControlInv'
  BY <1>43 DEF ClearDownloading, ControlInv, OneControl, Controls
<1>44. ASSUME NEW t \in Thread, AnnounceRestart(t) PROVE ControlInv'
  BY <1>44 DEF AnnounceRestart, ControlInv, OneControl, Controls
<1>45. ASSUME NEW t \in Thread, SetNeedStart(t) PROVE ControlInv'
  BY <1>45 DEF SetNeedStart, ControlInv, OneControl, Controls
<1>46. ASSUME NEW t \in Thread, SetNeedStop(t) PROVE ControlInv'
  BY <1>46 DEF SetNeedStop, ControlInv, OneControl, Controls
<1>47. ASSUME NEW t \in Thread, ThreadExit(t) PROVE ControlInv'
  BY <1>47 DEF ThreadExit, ControlInv, OneControl, Controls
<1>48. ASSUME NEW a \in Thread \cup Ctl, AddRefused(a) PROVE ControlInv'
  BY <1>48 DEF AddRefused, ControlInv, OneControl, Controls, IsRunning, Two, MayAdd,
     Back
<1>49. ASSUME NEW a \in Thread \cup Ctl, AddSection(a) PROVE ControlInv'
  BY <1>49 DEF AddSection, ControlInv, OneControl, Controls, IsRunning, Two, MayAdd,
     Back
<1>50. ASSUME NEW a \in Thread \cup Ctl, AddFails(a) PROVE ControlInv'
  BY <1>50 DEF AddFails, ControlInv, OneControl, Controls, IsRunning, Two, MayAdd, Back
<1>51. ASSUME NEW a \in Thread \cup Ctl, AddOpened(a) PROVE ControlInv'
  BY <1>51 DEF AddOpened, ControlInv, OneControl, Controls
<1>52. ASSUME NEW a \in Thread \cup Ctl, AddInsert(a) PROVE ControlInv'
  BY <1>52 DEF AddInsert, ControlInv, OneControl, Controls
<1>53. ASSUME NEW a \in Thread \cup Ctl, AddLaunch(a) PROVE ControlInv'
  <2>1. PICK t \in Thread : pc[t] = "none" /\ pc' = [pc EXCEPT ![t] = "begin",
  ![a] = Back(a)]
    BY <1>53 DEF AddLaunch, LaunchThread
  <2>2. ASSUME NEW q \in Caller PROVE pc'[q] = pc[q]
    BY <1>53, <2>1
  <2>3. ASSUME NEW d \in Ctl
        PROVE  pc'[d] = pc[d] \/ (pc[d] = "add_launch" /\ pc'[d] = "work")
    BY <1>53, <2>1 DEF AddLaunch, Back
  <2>4. Controls' = Controls /\ UNCHANGED bThreadRunning
    BY <1>53, <2>3 DEF AddLaunch, Controls
  <2> QED
    BY <2>2, <2>4 DEF ControlInv, OneControl
<1> QED
  BY <1>1, <1>2, <1>3, <1>4, <1>5, <1>6, <1>7, <1>8, <1>9, <1>10, <1>11, <1>12,
     <1>13, <1>14, <1>15, <1>16, <1>17, <1>18, <1>19, <1>20, <1>21, <1>22, <1>23,
     <1>24, <1>25, <1>26, <1>27, <1>28, <1>29, <1>30, <1>31, <1>32, <1>33, <1>34,
     <1>35, <1>36, <1>37, <1>38, <1>39, <1>40, <1>41, <1>42, <1>43, <1>44, <1>45,
     <1>46, <1>47, <1>48, <1>49, <1>50, <1>51, <1>52, <1>53
  DEF Step, CallerSteps, ControlSteps, StartSteps, EndSteps, SectionSteps, AddSteps

\* A lock is taken when it is free, and kept until its critical section ends.
LEMMA Locks ==
  ASSUME MgrAssumption, PlacesOK, csAdd \in Actor \cup {None},
         csDone \in Thread \cup {None}, LockInv, Step
  PROVE  LockInv'
<1> USE DEF PlacesOK, Actor, Thread, ThreadPC, HandlerPC, CtlPC, AddPC, LoopPC,
    StartPC, CallerPC, MgrAssumption
<1>1. ASSUME NEW p \in Caller, StartCall(p) PROVE LockInv'
  BY <1>1 DEF StartCall, LockInv
<1>2. ASSUME NEW p \in Caller, Launch(p) PROVE LockInv'
  BY <1>2 DEF Launch, LockInv
<1>3. ASSUME NEW p \in Caller, StopCall(p) PROVE LockInv'
  BY <1>3 DEF StopCall, LockInv
<1>4. ASSUME NEW p \in Caller, StopDldr(p) PROVE LockInv'
  BY <1>4 DEF StopDldr, LockInv
<1>5. ASSUME NEW c \in Ctl, ThreadStarts(c) PROVE LockInv'
  BY <1>5 DEF ThreadStarts, LockInv
<1>6. ASSUME NEW c \in Ctl, LoopNeedStart(c) PROVE LockInv'
  BY <1>6 DEF LoopNeedStart, LockInv
<1>7. ASSUME NEW c \in Ctl, LoopRuns(c) PROVE LockInv'
  BY <1>7 DEF LoopRuns, LockInv
<1>8. ASSUME NEW c \in Ctl, StopCheck(c) PROVE LockInv'
  BY <1>8 DEF StopCheck, LockInv
<1>9. ASSUME NEW c \in Ctl, WorkDone(c) PROVE LockInv'
  BY <1>9 DEF WorkDone, LockInv
<1>10. ASSUME NEW c \in Ctl, Watchdog(c) PROVE LockInv'
  BY <1>10 DEF Watchdog, LockInv
<1>11. ASSUME NEW c \in Ctl, WatchdogStopped(c) PROVE LockInv'
  BY <1>11 DEF WatchdogStopped, LockInv
<1>12. ASSUME NEW c \in Ctl, LaunchOneMoreSection(c) PROVE LockInv'
  <2>1. PICK t \in Thread : pc[t] = "none" /\ pc' = [pc EXCEPT ![t] = "begin",
  ![c] = "loop"]
    BY <1>12 DEF LaunchOneMoreSection, LaunchThread
  <2> QED
    BY <1>12, <2>1 DEF LaunchOneMoreSection, LockInv, MayAdd, Back
<1>13. ASSUME NEW c \in Ctl, StartDownload(c) PROVE LockInv'
  BY <1>13 DEF StartDownload, LockInv
<1>14. ASSUME NEW c \in Ctl, MainFails(c) PROVE LockInv'
  BY <1>14 DEF MainFails, LockInv
<1>15. ASSUME NEW c \in Ctl, MainNoFile(c) PROVE LockInv'
  BY <1>15 DEF MainNoFile, LockInv
<1>16. ASSUME NEW c \in Ctl, MainOpened(c) PROVE LockInv'
  BY <1>16 DEF MainOpened, LockInv
<1>17. ASSUME NEW c \in Ctl, MainLaunch(c) PROVE LockInv'
  <2>1. PICK t \in Thread : pc[t] = "none" /\ pc' = [pc EXCEPT ![t] = "begin",
  ![c] = "result"]
    BY <1>17 DEF MainLaunch, LaunchThread
  <2> QED
    BY ZenonT(40), <1>17, <2>1 DEF MainLaunch, LockInv, MayAdd, Back
<1>18. ASSUME NEW c \in Ctl, StartSkip(c) PROVE LockInv'
  BY <1>18 DEF StartSkip, LockInv
<1>19. ASSUME NEW c \in Ctl, StartSection(c) PROVE LockInv'
  <2>1. PICK t \in Thread : pc[t] = "none" /\ pc' = [pc EXCEPT ![t] = "begin",
  ![c] = "start_sect"]
    BY <1>19 DEF StartSection, LaunchThread
  <2> QED
    BY <1>19, <2>1 DEF StartSection, LockInv, MayAdd, Back
<1>20. ASSUME NEW c \in Ctl, StartNoFile(c) PROVE LockInv'
  BY <1>20 DEF StartNoFile, LockInv
<1>21. ASSUME NEW c \in Ctl, StartOpenFails(c) PROVE LockInv'
  BY <1>21 DEF StartOpenFails, LockInv
<1>22. ASSUME NEW c \in Ctl, StartAfresh(c) PROVE LockInv'
  BY <1>22 DEF StartAfresh, LockInv
<1>23. ASSUME NEW c \in Ctl, StartReturns(c) PROVE LockInv'
  BY <1>23 DEF StartReturns, LockInv
<1>24. ASSUME NEW c \in Ctl, StartResult(c) PROVE LockInv'
  BY <1>24 DEF StartResult, LockInv
<1>25. ASSUME NEW c \in Ctl, StartTests(c) PROVE LockInv'
  BY <1>25 DEF StartTests, LockInv
<1>26. ASSUME NEW c \in Ctl, SetDownloading(c) PROVE LockInv'
  BY <1>26 DEF SetDownloading, LockInv
<1>27. ASSUME NEW c \in Ctl, SleepInterval(c) PROVE LockInv'
  BY <1>27 DEF SleepInterval, LockInv
<1>28. ASSUME NEW c \in Ctl, AfterStart(c) PROVE LockInv'
  BY <1>28 DEF AfterStart, LockInv
<1>29. ASSUME NEW c \in Ctl, LoopEnds(c) PROVE LockInv'
  BY <1>29 DEF LoopEnds, LockInv
<1>30. ASSUME NEW c \in Ctl, FatalError(c) PROVE LockInv'
  BY <1>30 DEF FatalError, LockInv
<1>31. ASSUME NEW c \in Ctl, Stopped(c) PROVE LockInv'
  BY <1>31 DEF Stopped, LockInv
<1>32. ASSUME NEW c \in Ctl, Close(c) PROVE LockInv'
  BY <1>32 DEF Close, LockInv
<1>33. ASSUME NEW c \in Ctl, ThreadEnds(c) PROVE LockInv'
  BY <1>33 DEF ThreadEnds, LockInv
<1>34. ASSUME NEW c \in Ctl, StoppedOrDone(c) PROVE LockInv'
  BY <1>34 DEF StoppedOrDone, LockInv
<1>35. ASSUME NEW t \in Thread, ThreadBegin(t) PROVE LockInv'
  BY <1>35 DEF ThreadBegin, LockInv
<1>36. ASSUME NEW t \in Thread, SectionEnds(t) PROVE LockInv'
  BY <1>36 DEF SectionEnds, LockInv
<1>37. ASSUME NEW t \in Thread, Leave(t) PROVE LockInv'
  BY <1>37 DEF Leave, LockInv
<1>38. ASSUME NEW t \in Thread, SectionDone(t) PROVE LockInv'
  BY <1>38 DEF SectionDone, LockInv
<1>39. ASSUME NEW t \in Thread, NotAdded(t) PROVE LockInv'
  BY <1>39 DEF NotAdded, LockInv
<1>40. ASSUME NEW t \in Thread, OnDone(t) PROVE LockInv'
  BY <1>40 DEF OnDone, LockInv
<1>41. ASSUME NEW t \in Thread, SetDone(t) PROVE LockInv'
  BY <1>41 DEF SetDone, LockInv
<1>42. ASSUME NEW t \in Thread, OnSectionStopped(t) PROVE LockInv'
  BY <1>42 DEF OnSectionStopped, LockInv
<1>43. ASSUME NEW t \in Thread, ClearDownloading(t) PROVE LockInv'
  BY <1>43 DEF ClearDownloading, LockInv
<1>44. ASSUME NEW t \in Thread, AnnounceRestart(t) PROVE LockInv'
  BY <1>44 DEF AnnounceRestart, LockInv
<1>45. ASSUME NEW t \in Thread, SetNeedStart(t) PROVE LockInv'
  BY <1>45 DEF SetNeedStart, LockInv
<1>46. ASSUME NEW t \in Thread, SetNeedStop(t) PROVE LockInv'
  BY <1>46 DEF SetNeedStop, LockInv
<1>47. ASSUME NEW t \in Thread, ThreadExit(t) PROVE LockInv'
  BY <1>47 DEF ThreadExit, LockInv
<1>48. ASSUME NEW a \in Thread \cup Ctl, AddRefused(a) PROVE LockInv'
  BY <1>48 DEF AddRefused, LockInv, MayAdd, Back
<1>49. ASSUME NEW a \in Thread \cup Ctl, AddSection(a) PROVE LockInv'
  BY <1>49 DEF AddSection, LockInv
<1>50. ASSUME NEW a \in Thread \cup Ctl, AddFails(a) PROVE LockInv'
  BY <1>50 DEF AddFails, LockInv, MayAdd, Back
<1>51. ASSUME NEW a \in Thread \cup Ctl, AddOpened(a) PROVE LockInv'
  BY <1>51 DEF AddOpened, LockInv
<1>52. ASSUME NEW a \in Thread \cup Ctl, AddInsert(a) PROVE LockInv'
  BY <1>52 DEF AddInsert, LockInv
<1>53. ASSUME NEW a \in Thread \cup Ctl, AddLaunch(a) PROVE LockInv'
  <2>1. PICK t \in Thread : pc[t] = "none" /\ pc' = [pc EXCEPT ![t] = "begin",
  ![a] = Back(a)]
    BY <1>53 DEF AddLaunch, LaunchThread
  <2> QED
    BY <1>53, <2>1 DEF AddLaunch, LockInv, MayAdd, Back
<1> QED
  BY <1>1, <1>2, <1>3, <1>4, <1>5, <1>6, <1>7, <1>8, <1>9, <1>10, <1>11, <1>12,
     <1>13, <1>14, <1>15, <1>16, <1>17, <1>18, <1>19, <1>20, <1>21, <1>22, <1>23,
     <1>24, <1>25, <1>26, <1>27, <1>28, <1>29, <1>30, <1>31, <1>32, <1>33, <1>34,
     <1>35, <1>36, <1>37, <1>38, <1>39, <1>40, <1>41, <1>42, <1>43, <1>44, <1>45,
     <1>46, <1>47, <1>48, <1>49, <1>50, <1>51, <1>52, <1>53
  DEF Step, CallerSteps, ControlSteps, StartSteps, EndSteps, SectionSteps, AddSteps

\* The list grows under m_csAddSection only.
LEMMA Slots ==
  ASSUME MgrAssumption, PlacesOK, OneControl, LockInv, SlotInv, n \in 0..MaxSections,
         attempt \in 0..MaxAttempts, Step
  PROVE  SlotInv'
<1> USE DEF PlacesOK, Actor, Thread, ThreadPC, HandlerPC, CtlPC, AddPC, LoopPC,
    StartPC, CallerPC, MgrAssumption
<1>1. ASSUME NEW p \in Caller, StartCall(p) PROVE SlotInv'
  BY <1>1 DEF StartCall, SlotInv
<1>2. ASSUME NEW p \in Caller, Launch(p) PROVE SlotInv'
  <2>1. PICK c \in Ctl : pc[c] = "none" /\ pc' = [pc EXCEPT ![p] = "idle",
  ![c] = "starting"]
    BY <1>2 DEF Launch
  <2> QED
    BY <1>2, <2>1 DEF Launch, SlotInv, LockInv, OneControl, Controls, MayAdd, Back
<1>3. ASSUME NEW p \in Caller, StopCall(p) PROVE SlotInv'
  BY <1>3 DEF StopCall, SlotInv
<1>4. ASSUME NEW p \in Caller, StopDldr(p) PROVE SlotInv'
  BY <1>4 DEF StopDldr, SlotInv
<1>5. ASSUME NEW c \in Ctl, ThreadStarts(c) PROVE SlotInv'
  <2>1. PICK l \in {"loop", "ending"} : pc' = [pc EXCEPT ![c] = l]
    BY <1>5 DEF ThreadStarts, PlacesOK
  <2> QED
    BY <1>5, <2>1 DEF ThreadStarts, SlotInv, LockInv, OneControl, Controls, MayAdd, Back
<1>6. ASSUME NEW c \in Ctl, LoopNeedStart(c) PROVE SlotInv'
  BY <1>6 DEF LoopNeedStart, SlotInv, LockInv, OneControl, Controls, MayAdd, Back
<1>7. ASSUME NEW c \in Ctl, LoopRuns(c) PROVE SlotInv'
  BY <1>7 DEF LoopRuns, SlotInv
<1>8. ASSUME NEW c \in Ctl, StopCheck(c) PROVE SlotInv'
  <2>1. PICK l \in {"stopwait", "work"} : pc' = [pc EXCEPT ![c] = l]
    BY <1>8 DEF StopCheck, PlacesOK
  <2> QED
    BY <1>8, <2>1 DEF StopCheck, SlotInv, LockInv, OneControl, Controls, MayAdd, Back
<1>9. ASSUME NEW c \in Ctl, WorkDone(c) PROVE SlotInv'
  BY <1>9 DEF WorkDone, SlotInv
<1>10. ASSUME NEW c \in Ctl, Watchdog(c) PROVE SlotInv'
  BY <1>10 DEF Watchdog, SlotInv
<1>11. ASSUME NEW c \in Ctl, WatchdogStopped(c) PROVE SlotInv'
  BY <1>11 DEF WatchdogStopped, SlotInv
<1>12. ASSUME NEW c \in Ctl, LaunchOneMoreSection(c) PROVE SlotInv'
  <2>1. PICK t \in Thread : pc[t] = "none" /\ pc' = [pc EXCEPT ![t] = "begin",
  ![c] = "loop"]
    BY <1>12 DEF LaunchOneMoreSection, LaunchThread
  <2> QED
    BY <1>12, <2>1 DEF LaunchOneMoreSection, SlotInv, LockInv, OneControl, Controls,
       MayAdd, Back
<1>13. ASSUME NEW c \in Ctl, StartDownload(c) PROVE SlotInv'
  <2>1. PICK l \in {"main_open", "result", "start_sect"} : pc' = [pc EXCEPT ![c] = l]
    BY <1>13 DEF StartDownload, PlacesOK
  <2> QED
    BY <1>13, <2>1 DEF StartDownload, SlotInv, LockInv, OneControl, Controls, MayAdd,
       Back
<1>14. ASSUME NEW c \in Ctl, MainFails(c) PROVE SlotInv'
  BY <1>14 DEF MainFails, SlotInv
<1>15. ASSUME NEW c \in Ctl, MainNoFile(c) PROVE SlotInv'
  BY <1>15 DEF MainNoFile, SlotInv
<1>16. ASSUME NEW c \in Ctl, MainOpened(c) PROVE SlotInv'
  BY <1>16 DEF MainOpened, SlotInv, LockInv, OneControl, Controls, MayAdd, Back
<1>17. ASSUME NEW c \in Ctl, MainLaunch(c) PROVE SlotInv'
  <2>1. PICK t \in Thread : pc[t] = "none" /\ pc' = [pc EXCEPT ![t] = "begin",
  ![c] = "result"]
    BY <1>17 DEF MainLaunch, LaunchThread
  <2> QED
    BY <1>17, <2>1 DEF MainLaunch, SlotInv, LockInv, OneControl, Controls, MayAdd, Back
<1>18. ASSUME NEW c \in Ctl, StartSkip(c) PROVE SlotInv'
  BY <1>18 DEF StartSkip, SlotInv
<1>19. ASSUME NEW c \in Ctl, StartSection(c) PROVE SlotInv'
  <2>1. PICK t \in Thread : pc[t] = "none" /\ pc' = [pc EXCEPT ![t] = "begin",
  ![c] = "start_sect"]
    BY <1>19 DEF StartSection, LaunchThread
  <2> QED
    BY <1>19, <2>1 DEF StartSection, SlotInv, LockInv, OneControl, Controls, MayAdd,
       Back
<1>20. ASSUME NEW c \in Ctl, StartNoFile(c) PROVE SlotInv'
  BY <1>20 DEF StartNoFile, SlotInv
<1>21. ASSUME NEW c \in Ctl, StartOpenFails(c) PROVE SlotInv'
  <2>1. \A b \in Actor :
          pc'[b] = pc[b] \/ (b = c /\ pc[b] = "start_sect" /\ pc'[b] = "result")
    <3>1. pc[c] = "start_sect" /\ (pc' = pc \/ pc' = [pc EXCEPT ![c] = "result"])
      BY <1>21 DEF StartOpenFails
    <3> QED
      BY <3>1
  <2> QED
    BY ZenonT(40), <1>21, <2>1 DEF StartOpenFails, SlotInv, LockInv, OneControl, Controls,
       MayAdd, Back
<1>22. ASSUME NEW c \in Ctl, StartAfresh(c) PROVE SlotInv'
  BY <1>22 DEF StartAfresh, SlotInv, LockInv, OneControl, Controls, MayAdd, Back
<1>23. ASSUME NEW c \in Ctl, StartReturns(c) PROVE SlotInv'
  BY <1>23 DEF StartReturns, SlotInv
<1>24. ASSUME NEW c \in Ctl, StartResult(c) PROVE SlotInv'
  BY <1>24 DEF StartResult, SlotInv
<1>25. ASSUME NEW c \in Ctl, StartTests(c) PROVE SlotInv'
  BY <1>25 DEF StartTests, SlotInv
<1>26. ASSUME NEW c \in Ctl, SetDownloading(c) PROVE SlotInv'
  BY <1>26 DEF SetDownloading, SlotInv
<1>27. ASSUME NEW c \in Ctl, SleepInterval(c) PROVE SlotInv'
  <2>1. PICK l \in {"after", "start"} : pc' = [pc EXCEPT ![c] = l]
    BY <1>27 DEF SleepInterval, PlacesOK
  <2> QED
    BY <1>27, <2>1 DEF SleepInterval, SlotInv, LockInv, OneControl, Controls, MayAdd,
       Back
<1>28. ASSUME NEW c \in Ctl, AfterStart(c) PROVE SlotInv'
  BY <1>28 DEF AfterStart, SlotInv
<1>29. ASSUME NEW c \in Ctl, LoopEnds(c) PROVE SlotInv'
  BY <1>29 DEF LoopEnds, SlotInv
<1>30. ASSUME NEW c \in Ctl, FatalError(c) PROVE SlotInv'
  BY <1>30 DEF FatalError, SlotInv
<1>31. ASSUME NEW c \in Ctl, Stopped(c) PROVE SlotInv'
  BY <1>31 DEF Stopped, SlotInv
<1>32. ASSUME NEW c \in Ctl, Close(c) PROVE SlotInv'
  BY <1>32 DEF Close, SlotInv
<1>33. ASSUME NEW c \in Ctl, ThreadEnds(c) PROVE SlotInv'
  BY <1>33 DEF ThreadEnds, SlotInv
<1>34. ASSUME NEW c \in Ctl, StoppedOrDone(c) PROVE SlotInv'
  BY <1>34 DEF StoppedOrDone, SlotInv
<1>35. ASSUME NEW t \in Thread, ThreadBegin(t) PROVE SlotInv'
  BY <1>35 DEF ThreadBegin, SlotInv
<1>36. ASSUME NEW t \in Thread, SectionEnds(t) PROVE SlotInv'
  BY <1>36 DEF SectionEnds, SlotInv
<1>37. ASSUME NEW t \in Thread, Leave(t) PROVE SlotInv'
  BY <1>37 DEF Leave, SlotInv
<1>38. ASSUME NEW t \in Thread, SectionDone(t) PROVE SlotInv'
  BY <1>38 DEF SectionDone, SlotInv
<1>39. ASSUME NEW t \in Thread, NotAdded(t) PROVE SlotInv'
  BY <1>39 DEF NotAdded, SlotInv
<1>40. ASSUME NEW t \in Thread, OnDone(t) PROVE SlotInv'
  BY <1>40 DEF OnDone, SlotInv
<1>41. ASSUME NEW t \in Thread, SetDone(t) PROVE SlotInv'
  BY <1>41 DEF SetDone, SlotInv
<1>42. ASSUME NEW t \in Thread, OnSectionStopped(t) PROVE SlotInv'
  BY <1>42 DEF OnSectionStopped, SlotInv
<1>43. ASSUME NEW t \in Thread, ClearDownloading(t) PROVE SlotInv'
  BY <1>43 DEF ClearDownloading, SlotInv
<1>44. ASSUME NEW t \in Thread, AnnounceRestart(t) PROVE SlotInv'
  BY <1>44 DEF AnnounceRestart, SlotInv
<1>45. ASSUME NEW t \in Thread, SetNeedStart(t) PROVE SlotInv'
  BY <1>45 DEF SetNeedStart, SlotInv
<1>46. ASSUME NEW t \in Thread, SetNeedStop(t) PROVE SlotInv'
  BY <1>46 DEF SetNeedStop, SlotInv
<1>47. ASSUME NEW t \in Thread, ThreadExit(t) PROVE SlotInv'
  BY <1>47 DEF ThreadExit, SlotInv
<1>48. ASSUME NEW a \in Thread \cup Ctl, AddRefused(a) PROVE SlotInv'
  BY <1>48 DEF AddRefused, SlotInv, LockInv, OneControl, Controls, MayAdd, Back
<1>49. ASSUME NEW a \in Thread \cup Ctl, AddSection(a) PROVE SlotInv'
  BY <1>49 DEF AddSection, SlotInv
<1>50. ASSUME NEW a \in Thread \cup Ctl, AddFails(a) PROVE SlotInv'
  BY <1>50 DEF AddFails, SlotInv, LockInv, OneControl, Controls, MayAdd, Back
<1>51. ASSUME NEW a \in Thread \cup Ctl, AddOpened(a) PROVE SlotInv'
  BY <1>51 DEF AddOpened, SlotInv
<1>52. ASSUME NEW a \in Thread \cup Ctl, AddInsert(a) PROVE SlotInv'
  BY <1>52 DEF AddInsert, SlotInv, LockInv, OneControl, Controls, MayAdd, Back
<1>53. ASSUME NEW a \in Thread \cup Ctl, AddLaunch(a) PROVE SlotInv'
  <2>1. PICK t \in Thread : pc[t] = "none" /\ pc' = [pc EXCEPT ![t] = "begin",
  ![a] = Back(a)]
    BY <1>53 DEF AddLaunch, LaunchThread
  <2> QED
    BY <1>53, <2>1 DEF AddLaunch, SlotInv, LockInv, OneControl, Controls, MayAdd, Back
<1> QED
  BY <1>1, <1>2, <1>3, <1>4, <1>5, <1>6, <1>7, <1>8, <1>9, <1>10, <1>11, <1>12,
     <1>13, <1>14, <1>15, <1>16, <1>17, <1>18, <1>19, <1>20, <1>21, <1>22, <1>23,
     <1>24, <1>25, <1>26, <1>27, <1>28, <1>29, <1>30, <1>31, <1>32, <1>33, <1>34,
     <1>35, <1>36, <1>37, <1>38, <1>39, <1>40, <1>41, <1>42, <1>43, <1>44, <1>45,
     <1>46, <1>47, <1>48, <1>49, <1>50, <1>51, <1>52, <1>53
  DEF Step, CallerSteps, ControlSteps, StartSteps, EndSteps, SectionSteps, AddSteps
-----------------------------------------------------------------------------
(* m_cRunningThreads.                                                      *)

\* The counter follows the set of the threads counted.
LEMMA CountMore ==
  ASSUME MgrAssumption, CountInv, NEW t \in Thread, t \notin Counted,
         Counted' = Counted \cup {t}, cRunning' = cRunning + 1
  PROVE  CountInv'
<1>1. IsFiniteSet(1..MaxThreads) /\ Counted \subseteq 1..MaxThreads
  BY FS_Interval DEF MgrAssumption, Thread, Counted
<1>2. IsFiniteSet(Counted)
  BY <1>1, FS_Subset
<1> QED
  BY <1>2, FS_AddElement DEF CountInv

\* A thread that is counted out is not counted any more.
LEMMA CountLess ==
  ASSUME MgrAssumption, CountInv, NEW t \in Counted,
         Counted' = Counted \ {t}, cRunning' = cRunning - 1
  PROVE  CountInv'
<1>1. IsFiniteSet(1..MaxThreads) /\ Counted \subseteq 1..MaxThreads
  BY FS_Interval DEF MgrAssumption, Thread, Counted
<1>2. IsFiniteSet(Counted)
  BY <1>1, FS_Subset
<1> QED
  BY <1>2, FS_RemoveElement DEF CountInv

\* Most steps change neither the threads counted nor the counter.
LEMMA CountSame ==
  ASSUME CountInv, Counted' = Counted, cRunning' = cRunning
  PROVE  CountInv'
BY DEF CountInv

\* The downloader runs when a thread is counted.
LEMMA SomeCounted ==
  ASSUME MgrAssumption, NEW S \in SUBSET (1..MaxThreads)
  PROVE  Cardinality(S) > 0 <=> S # {}
<1>1. IsFiniteSet(1..MaxThreads)
  BY FS_Interval DEF MgrAssumption
<1>2. IsFiniteSet(S)
  BY <1>1, FS_Subset
<1> QED
  BY <1>2, FS_EmptySet, FS_CardinalityType

\* IsRunning tells whether a thread is counted.
LEMMA Running ==
  ASSUME MgrAssumption, CountInv
  PROVE  RunningInv
BY SomeCounted DEF CountInv, RunningInv, DldrRunning, Counted, Thread

\* A launch counts a thread in, Leave counts it out.
LEMMA Count ==
  ASSUME MgrAssumption, PlacesOK, LockInv, csDone \in Thread \cup {None}, CountInv, Step
  PROVE  CountInv'
<1> USE DEF PlacesOK, Actor, Thread, ThreadPC, HandlerPC, CtlPC, AddPC, LoopPC,
    StartPC, CallerPC, MgrAssumption
<1>1. ASSUME NEW p \in Caller, StartCall(p) PROVE CountInv'
  <2>1. Counted' = Counted
    BY <1>1 DEF StartCall, Counted
  <2> QED
    BY <1>1, <2>1, CountSame DEF StartCall
<1>2. ASSUME NEW p \in Caller, Launch(p) PROVE CountInv'
  <2>1. PICK c \in Ctl : pc[c] = "none" /\ pc' = [pc EXCEPT ![p] = "idle",
  ![c] = "starting"]
    BY <1>2 DEF Launch
  <2>2. Counted' = Counted
    BY <1>2, <2>1 DEF Launch, Counted
  <2> QED
    BY <1>2, <2>2, CountSame DEF Launch
<1>3. ASSUME NEW p \in Caller, StopCall(p) PROVE CountInv'
  <2>1. Counted' = Counted
    BY <1>3 DEF StopCall, Counted
  <2> QED
    BY <1>3, <2>1, CountSame DEF StopCall
<1>4. ASSUME NEW p \in Caller, StopDldr(p) PROVE CountInv'
  <2>1. Counted' = Counted
    BY <1>4 DEF StopDldr, Counted
  <2> QED
    BY <1>4, <2>1, CountSame DEF StopDldr
<1>5. ASSUME NEW c \in Ctl, ThreadStarts(c) PROVE CountInv'
  <2>1. PICK l \in {"loop", "ending"} : pc' = [pc EXCEPT ![c] = l]
    BY <1>5 DEF ThreadStarts, PlacesOK
  <2>2. Counted' = Counted
    BY <1>5, <2>1 DEF ThreadStarts, Counted
  <2> QED
    BY <1>5, <2>2, CountSame DEF ThreadStarts
<1>6. ASSUME NEW c \in Ctl, LoopNeedStart(c) PROVE CountInv'
  <2>1. Counted' = Counted
    BY <1>6 DEF LoopNeedStart, Counted
  <2> QED
    BY <1>6, <2>1, CountSame DEF LoopNeedStart
<1>7. ASSUME NEW c \in Ctl, LoopRuns(c) PROVE CountInv'
  <2>1. Counted' = Counted
    BY <1>7 DEF LoopRuns, Counted
  <2> QED
    BY <1>7, <2>1, CountSame DEF LoopRuns
<1>8. ASSUME NEW c \in Ctl, StopCheck(c) PROVE CountInv'
  <2>1. PICK l \in {"stopwait", "work"} : pc' = [pc EXCEPT ![c] = l]
    BY <1>8 DEF StopCheck, PlacesOK
  <2>2. Counted' = Counted
    BY <1>8, <2>1 DEF StopCheck, Counted
  <2> QED
    BY <1>8, <2>2, CountSame DEF StopCheck
<1>9. ASSUME NEW c \in Ctl, WorkDone(c) PROVE CountInv'
  <2>1. Counted' = Counted
    BY <1>9 DEF WorkDone, Counted
  <2> QED
    BY <1>9, <2>1, CountSame DEF WorkDone
<1>10. ASSUME NEW c \in Ctl, Watchdog(c) PROVE CountInv'
  <2>1. Counted' = Counted
    BY <1>10 DEF Watchdog, Counted
  <2> QED
    BY <1>10, <2>1, CountSame DEF Watchdog
<1>11. ASSUME NEW c \in Ctl, WatchdogStopped(c) PROVE CountInv'
  <2>1. Counted' = Counted
    BY <1>11 DEF WatchdogStopped, Counted
  <2> QED
    BY <1>11, <2>1, CountSame DEF WatchdogStopped
<1>12. ASSUME NEW c \in Ctl, LaunchOneMoreSection(c) PROVE CountInv'
  <2>1. PICK t \in Thread : pc[t] = "none" /\ pc' = [pc EXCEPT ![t] = "begin",
  ![c] = "loop"]
    BY <1>12 DEF LaunchOneMoreSection, LaunchThread
  <2>2. t \notin Counted /\ Counted' = Counted \cup {t}
    BY <1>12, <2>1 DEF LaunchOneMoreSection, Counted, LockInv, MayAdd, Back
  <2> QED
    BY <1>12, <2>2, CountMore DEF LaunchOneMoreSection, LaunchThread
<1>13. ASSUME NEW c \in Ctl, StartDownload(c) PROVE CountInv'
  <2>1. PICK l \in {"main_open", "result", "start_sect"} : pc' = [pc EXCEPT ![c] = l]
    BY <1>13 DEF StartDownload, PlacesOK
  <2>2. Counted' = Counted
    BY <1>13, <2>1 DEF StartDownload, Counted
  <2> QED
    BY <1>13, <2>2, CountSame DEF StartDownload
<1>14. ASSUME NEW c \in Ctl, MainFails(c) PROVE CountInv'
  <2>1. Counted' = Counted
    BY <1>14 DEF MainFails, Counted
  <2> QED
    BY <1>14, <2>1, CountSame DEF MainFails
<1>15. ASSUME NEW c \in Ctl, MainNoFile(c) PROVE CountInv'
  <2>1. Counted' = Counted
    BY <1>15 DEF MainNoFile, Counted
  <2> QED
    BY <1>15, <2>1, CountSame DEF MainNoFile
<1>16. ASSUME NEW c \in Ctl, MainOpened(c) PROVE CountInv'
  <2>1. Counted' = Counted
    BY <1>16 DEF MainOpened, Counted
  <2> QED
    BY <1>16, <2>1, CountSame DEF MainOpened
<1>17. ASSUME NEW c \in Ctl, MainLaunch(c) PROVE CountInv'
  <2>1. PICK t \in Thread : pc[t] = "none" /\ pc' = [pc EXCEPT ![t] = "begin",
  ![c] = "result"]
    BY <1>17 DEF MainLaunch, LaunchThread
  <2>2. t \notin Counted /\ Counted' = Counted \cup {t}
    BY <1>17, <2>1 DEF MainLaunch, Counted, LockInv, MayAdd, Back
  <2> QED
    BY <1>17, <2>2, CountMore DEF MainLaunch, LaunchThread
<1>18. ASSUME NEW c \in Ctl, StartSkip(c) PROVE CountInv'
  <2>1. Counted' = Counted
    BY <1>18 DEF StartSkip, Counted
  <2> QED
    BY <1>18, <2>1, CountSame DEF StartSkip
<1>19. ASSUME NEW c \in Ctl, StartSection(c) PROVE CountInv'
  <2>1. PICK t \in Thread : pc[t] = "none" /\ pc' = [pc EXCEPT ![t] = "begin",
  ![c] = "start_sect"]
    BY <1>19 DEF StartSection, LaunchThread
  <2>2. t \notin Counted /\ Counted' = Counted \cup {t}
    BY <1>19, <2>1 DEF StartSection, Counted, LockInv, MayAdd, Back
  <2> QED
    BY <1>19, <2>2, CountMore DEF StartSection, LaunchThread
<1>20. ASSUME NEW c \in Ctl, StartNoFile(c) PROVE CountInv'
  <2>1. Counted' = Counted
    BY <1>20 DEF StartNoFile, Counted
  <2> QED
    BY <1>20, <2>1, CountSame DEF StartNoFile
<1>21. ASSUME NEW c \in Ctl, StartOpenFails(c) PROVE CountInv'
  <2>1. \A b \in Actor :
          pc'[b] = pc[b] \/ (b = c /\ pc[b] = "start_sect" /\ pc'[b] = "result")
    <3>1. pc[c] = "start_sect" /\ (pc' = pc \/ pc' = [pc EXCEPT ![c] = "result"])
      BY <1>21 DEF StartOpenFails
    <3> QED
      BY <3>1
  <2>2. Counted' = Counted
    BY <1>21, <2>1 DEF StartOpenFails, Counted
  <2> QED
    BY <1>21, <2>2, CountSame DEF StartOpenFails
<1>22. ASSUME NEW c \in Ctl, StartAfresh(c) PROVE CountInv'
  <2>1. Counted' = Counted
    BY <1>22 DEF StartAfresh, Counted
  <2> QED
    BY <1>22, <2>1, CountSame DEF StartAfresh
<1>23. ASSUME NEW c \in Ctl, StartReturns(c) PROVE CountInv'
  <2>1. Counted' = Counted
    BY <1>23 DEF StartReturns, Counted
  <2> QED
    BY <1>23, <2>1, CountSame DEF StartReturns
<1>24. ASSUME NEW c \in Ctl, StartResult(c) PROVE CountInv'
  <2>1. Counted' = Counted
    BY <1>24 DEF StartResult, Counted
  <2> QED
    BY <1>24, <2>1, CountSame DEF StartResult
<1>25. ASSUME NEW c \in Ctl, StartTests(c) PROVE CountInv'
  <2>1. Counted' = Counted
    BY <1>25 DEF StartTests, Counted
  <2> QED
    BY <1>25, <2>1, CountSame DEF StartTests
<1>26. ASSUME NEW c \in Ctl, SetDownloading(c) PROVE CountInv'
  <2>1. Counted' = Counted
    BY <1>26 DEF SetDownloading, Counted
  <2> QED
    BY <1>26, <2>1, CountSame DEF SetDownloading
<1>27. ASSUME NEW c \in Ctl, SleepInterval(c) PROVE CountInv'
  <2>1. PICK l \in {"after", "start"} : pc' = [pc EXCEPT ![c] = l]
    BY <1>27 DEF SleepInterval, PlacesOK
  <2>2. Counted' = Counted
    BY <1>27, <2>1 DEF SleepInterval, Counted
  <2> QED
    BY <1>27, <2>2, CountSame DEF SleepInterval
<1>28. ASSUME NEW c \in Ctl, AfterStart(c) PROVE CountInv'
  <2>1. Counted' = Counted
    BY <1>28 DEF AfterStart, Counted
  <2> QED
    BY <1>28, <2>1, CountSame DEF AfterStart
<1>29. ASSUME NEW c \in Ctl, LoopEnds(c) PROVE CountInv'
  <2>1. Counted' = Counted
    BY <1>29 DEF LoopEnds, Counted
  <2> QED
    BY <1>29, <2>1, CountSame DEF LoopEnds
<1>30. ASSUME NEW c \in Ctl, FatalError(c) PROVE CountInv'
  <2>1. Counted' = Counted
    BY <1>30 DEF FatalError, Counted
  <2> QED
    BY <1>30, <2>1, CountSame DEF FatalError
<1>31. ASSUME NEW c \in Ctl, Stopped(c) PROVE CountInv'
  <2>1. Counted' = Counted
    BY <1>31 DEF Stopped, Counted
  <2> QED
    BY <1>31, <2>1, CountSame DEF Stopped
<1>32. ASSUME NEW c \in Ctl, Close(c) PROVE CountInv'
  <2>1. Counted' = Counted
    BY <1>32 DEF Close, Counted
  <2> QED
    BY <1>32, <2>1, CountSame DEF Close
<1>33. ASSUME NEW c \in Ctl, ThreadEnds(c) PROVE CountInv'
  <2>1. Counted' = Counted
    BY <1>33 DEF ThreadEnds, Counted
  <2> QED
    BY <1>33, <2>1, CountSame DEF ThreadEnds
<1>34. ASSUME NEW c \in Ctl, StoppedOrDone(c) PROVE CountInv'
  <2>1. Counted' = Counted
    BY <1>34 DEF StoppedOrDone, Counted
  <2> QED
    BY <1>34, <2>1, CountSame DEF StoppedOrDone
<1>35. ASSUME NEW t \in Thread, ThreadBegin(t) PROVE CountInv'
  <2>1. Counted' = Counted
    BY <1>35 DEF ThreadBegin, Counted
  <2> QED
    BY <1>35, <2>1, CountSame DEF ThreadBegin
<1>36. ASSUME NEW t \in Thread, SectionEnds(t) PROVE CountInv'
  <2>1. Counted' = Counted
    BY <1>36 DEF SectionEnds, Counted
  <2> QED
    BY <1>36, <2>1, CountSame DEF SectionEnds
<1>37. ASSUME NEW t \in Thread, Leave(t) PROVE CountInv'
  <2>1. PICK l \in {"done_event", "stop_event"} : pc' = [pc EXCEPT ![t] = l]
    BY <1>37 DEF Leave
  <2>2. t \in Counted /\ Counted' = Counted \ {t}
    BY <1>37, <2>1 DEF Leave, Counted, LockInv
  <2> QED
    BY <1>37, <2>2, CountLess DEF Leave
<1>38. ASSUME NEW t \in Thread, SectionDone(t) PROVE CountInv'
  <2>1. Counted' = Counted
    BY <1>38 DEF SectionDone, Counted
  <2> QED
    BY <1>38, <2>1, CountSame DEF SectionDone
<1>39. ASSUME NEW t \in Thread, NotAdded(t) PROVE CountInv'
  <2>1. Counted' = Counted
    BY <1>39 DEF NotAdded, Counted
  <2> QED
    BY <1>39, <2>1, CountSame DEF NotAdded
<1>40. ASSUME NEW t \in Thread, OnDone(t) PROVE CountInv'
  <2>1. Counted' = Counted
    BY <1>40 DEF OnDone, Counted
  <2> QED
    BY <1>40, <2>1, CountSame DEF OnDone
<1>41. ASSUME NEW t \in Thread, SetDone(t) PROVE CountInv'
  <2>1. Counted' = Counted
    BY <1>41 DEF SetDone, Counted
  <2> QED
    BY <1>41, <2>1, CountSame DEF SetDone
<1>42. ASSUME NEW t \in Thread, OnSectionStopped(t) PROVE CountInv'
  <2>1. Counted' = Counted
    BY <1>42 DEF OnSectionStopped, Counted
  <2> QED
    BY <1>42, <2>1, CountSame DEF OnSectionStopped
<1>43. ASSUME NEW t \in Thread, ClearDownloading(t) PROVE CountInv'
  <2>1. Counted' = Counted
    BY <1>43 DEF ClearDownloading, Counted
  <2> QED
    BY <1>43, <2>1, CountSame DEF ClearDownloading
<1>44. ASSUME NEW t \in Thread, AnnounceRestart(t) PROVE CountInv'
  <2>1. Counted' = Counted
    BY <1>44 DEF AnnounceRestart, Counted
  <2> QED
    BY <1>44, <2>1, CountSame DEF AnnounceRestart
<1>45. ASSUME NEW t \in Thread, SetNeedStart(t) PROVE CountInv'
  <2>1. Counted' = Counted
    BY <1>45 DEF SetNeedStart, Counted
  <2> QED
    BY <1>45, <2>1, CountSame DEF SetNeedStart
<1>46. ASSUME NEW t \in Thread, SetNeedStop(t) PROVE CountInv'
  <2>1. Counted' = Counted
    BY <1>46 DEF SetNeedStop, Counted
  <2> QED
    BY <1>46, <2>1, CountSame DEF SetNeedStop
<1>47. ASSUME NEW t \in Thread, ThreadExit(t) PROVE CountInv'
  <2>1. Counted' = Counted
    BY <1>47 DEF ThreadExit, Counted, LockInv, MayAdd, Back
  <2> QED
    BY <1>47, <2>1, CountSame DEF ThreadExit
<1>48. ASSUME NEW a \in Thread \cup Ctl, AddRefused(a) PROVE CountInv'
  <2>1. Counted' = Counted
    BY <1>48 DEF AddRefused, Counted, LockInv, MayAdd, Back
  <2> QED
    BY <1>48, <2>1, CountSame DEF AddRefused
<1>49. ASSUME NEW a \in Thread \cup Ctl, AddSection(a) PROVE CountInv'
  <2>1. Counted' = Counted
    BY <1>49 DEF AddSection, Counted, LockInv, MayAdd, Back
  <2> QED
    BY <1>49, <2>1, CountSame DEF AddSection
<1>50. ASSUME NEW a \in Thread \cup Ctl, AddFails(a) PROVE CountInv'
  <2>1. Counted' = Counted
    BY <1>50 DEF AddFails, Counted, LockInv, MayAdd, Back
  <2> QED
    BY <1>50, <2>1, CountSame DEF AddFails
<1>51. ASSUME NEW a \in Thread \cup Ctl, AddOpened(a) PROVE CountInv'
  <2>1. Counted' = Counted
    BY <1>51 DEF AddOpened, Counted
  <2> QED
    BY <1>51, <2>1, CountSame DEF AddOpened
<1>52. ASSUME NEW a \in Thread \cup Ctl, AddInsert(a) PROVE CountInv'
  <2>1. Counted' = Counted
    BY <1>52 DEF AddInsert, Counted
  <2> QED
    BY <1>52, <2>1, CountSame DEF AddInsert
<1>53. ASSUME NEW a \in Thread \cup Ctl, AddLaunch(a) PROVE CountInv'
  <2>1. PICK t \in Thread : pc[t] = "none" /\ pc' = [pc EXCEPT ![t] = "begin",
  ![a] = Back(a)]
    BY <1>53 DEF AddLaunch, LaunchThread
  <2>2. t \notin Counted /\ Counted' = Counted \cup {t}
    BY <1>53, <2>1 DEF AddLaunch, Counted, LockInv, MayAdd, Back
  <2> QED
    BY <1>53, <2>2, CountMore DEF AddLaunch, LaunchThread
<1> QED
  BY <1>1, <1>2, <1>3, <1>4, <1>5, <1>6, <1>7, <1>8, <1>9, <1>10, <1>11, <1>12,
     <1>13, <1>14, <1>15, <1>16, <1>17, <1>18, <1>19, <1>20, <1>21, <1>22, <1>23,
     <1>24, <1>25, <1>26, <1>27, <1>28, <1>29, <1>30, <1>31, <1>32, <1>33, <1>34,
     <1>35, <1>36, <1>37, <1>38, <1>39, <1>40, <1>41, <1>42, <1>43, <1>44, <1>45,
     <1>46, <1>47, <1>48, <1>49, <1>50, <1>51, <1>52, <1>53
  DEF Step, CallerSteps, ControlSteps, StartSteps, EndSteps, SectionSteps, AddSteps
-----------------------------------------------------------------------------
(* Sections and their threads.                                             *)

\* What a launch of section s by actor a, which goes on at l, does.
Launched(a, s, l) ==
  /\ LaunchThread(a, s, l) /\ s \in 1..n /\ state[s] # "DONE"
  /\ pc[a] # "none" /\ l \notin {"none", "begin", "add_launch", "main_launch"}
  /\ UNCHANGED <<n, csDone, bSectDone>>
  /\ state' = state \/ state' = [state EXCEPT ![s] = "DOWNLOADING"]
  /\ a \in Thread => IF csDone = a THEN l = "end" ELSE l = "run" /\ pc[a] \in AddPC

\* The launches of the first section, of a section that starts again, of a
\* stopped one and of a new one.
LEMMA MainLaunched ==
  ASSUME Good, NewSection, NEW c \in Ctl, MainLaunch(c)
  PROVE  Launched(c, 1, "result")
<1>1. n = 1 /\ state[1] = "CREATING" /\ c \notin Thread
  BY DEF MainLaunch, Good, SlotInv, NewSection, MgrAssumption
<1> QED
  BY <1>1 DEF MainLaunch, Launched

\* StartSection launches the section at the loop index.
LEMMA SectionLaunched ==
  ASSUME Good, NEW c \in Ctl, StartSection(c)
  PROVE  Launched(c, i, "start_sect")
<1>1. i \in 1..n /\ c \notin Thread
  BY DEF StartSection, Good, ListTypeOK, MgrAssumption
<1> QED
  BY <1>1 DEF StartSection, Launched

\* LaunchOneMoreSection launches a section that has stopped.
LEMMA OneMoreLaunched ==
  ASSUME Good, NEW c \in Ctl, LaunchOneMoreSection(c)
  PROVE  \E s \in 1..n : state[s] = "STOPPED" /\ Launched(c, s, "loop")
<1>1. PICK s \in 1..n : state[s] = "STOPPED" /\ LaunchThread(c, s, "loop")
  BY DEF LaunchOneMoreSection
<1>2. c \notin Thread
  BY DEF Good, MgrAssumption
<1> QED
  BY <1>1, <1>2 DEF LaunchOneMoreSection, Launched

\* AddLaunch launches the section at the end of the list.
LEMMA AddLaunched ==
  ASSUME Good, NewSection, NEW a \in Thread \cup Ctl, AddLaunch(a)
  PROVE  Launched(a, n, Back(a))
<1>1. n \in 1..n /\ state[n] = "CREATING"
  BY DEF AddLaunch, NewSection, Good, ListTypeOK, Actor
<1>2. a \in Thread => Back(a) = IF csDone = a THEN "end" ELSE "run"
  BY DEF Back, Good, MgrAssumption
<1>3. Back(a) \in {"work", "end", "run"}
  BY DEF Back
<1> QED
  BY <1>1, <1>2, <1>3 DEF AddLaunch, Launched, AddPC

\* A launch moves the new thread and the actor that launches it.
LEMMA LaunchFrame ==
  ASSUME Good, NEW a \in Thread \cup Ctl, NEW s, NEW l, Launched(a, s, l)
  PROVE  \E t \in Thread \ {a} :
           /\ pc[t] = "none" /\ csDone # t /\ pc'[t] = "begin" /\ sect'[t] = s
           /\ pc'[a] = l
           /\ \A u \in Thread \ {t} : sect'[u] = sect[u]
           /\ \A b \in Actor \ {a, t} : pc'[b] = pc[b]
<1>1. PICK t \in Thread :
        /\ pc[t] = "none"
        /\ pc' = [pc EXCEPT ![t] = "begin", ![a] = l]
        /\ sect' = [sect EXCEPT ![t] = s]
  BY DEF Launched, LaunchThread
<1>2. t # a /\ csDone # t
  BY <1>1 DEF Launched, LockInv, Good, HandlerPC, AddPC
<1> QED
  BY <1>1, <1>2 DEF Good, PlacesOK, ListTypeOK, Actor

\* Launches preserve ThreadState.
LEMMA LaunchThreadState ==
  ASSUME Good, ThreadState, OwnSection', NEW a \in Thread \cup Ctl, NEW s, NEW l,
         Launched(a, s, l)
  PROVE  ThreadState'
<1>1. PICK t \in Thread \ {a} :
           /\ pc[t] = "none" /\ csDone # t /\ pc'[t] = "begin" /\ sect'[t] = s
           /\ pc'[a] = l
           /\ \A u \in Thread \ {t} : sect'[u] = sect[u]
           /\ \A b \in Actor \ {a, t} : pc'[b] = pc[b]
  BY LaunchFrame
<1>2. state'[s] # "DONE"
  BY DEF Launched, Good, ListTypeOK, SectId
<1>3. ASSUME NEW u \in Thread \ {t}, pc'[u] # "none"
      PROVE  sect'[u] = sect[u] /\ sect[u] # s /\ state'[sect[u]] = state[sect[u]]
  <2>1. sect'[u] # s
    BY <1>1, <1>3 DEF OwnSection
  <2>2. sect'[u] = sect[u] /\ sect[u] # s
    BY <1>1, <2>1
  <2>3. sect[u] \in SectId
    BY <1>3, <2>2 DEF OwnSection, Launched, Good, ListTypeOK, SectId
  <2>4. state'[sect[u]] = state[sect[u]]
    BY <2>2, <2>3 DEF Launched, Good, ListTypeOK
  <2> QED
    BY <2>2, <2>4
<1>4. \A u \in Thread \ {t, a} : pc'[u] = pc[u]
  BY <1>1 DEF Actor
<1>5. ASSUME NEW u \in Thread, pc'[u] \in {"begin", "run"}
      PROVE  state'[sect'[u]] # "DONE"
  <2>1. CASE u = t
    BY <1>1, <1>2, <2>1
  <2>2. CASE u = a
    <3>1. l = "run" /\ csDone # a /\ pc[a] \in AddPC
      BY <1>1, <1>5, <2>2 DEF Launched
    <3> QED
      BY <1>3, <1>5, <2>2, <3>1 DEF ThreadState
  <2>3. CASE u \notin {t, a}
    BY <1>3, <1>4, <1>5, <2>3 DEF ThreadState
  <2> QED
    BY <2>1, <2>2, <2>3
<1>6. ASSUME NEW u \in Thread, pc'[u] \in AddPC, csDone' # u
      PROVE  state'[sect'[u]] # "DONE"
  <2>1. u \notin {t, a}
    BY <1>1, <1>6 DEF Launched, AddPC
  <2> QED
    BY <1>3, <1>4, <1>6, <2>1 DEF Launched, ThreadState, AddPC
<1>7. ASSUME NEW u \in Thread, csDone' = u
      PROVE  bSectDone' <=> state'[sect'[u]] = "DONE"
  <2>1. u # t /\ csDone = u /\ pc[u] # "none" /\ pc'[u] # "none"
    BY <1>1, <1>4, <1>7 DEF Launched, Good, LockInv, HandlerPC, AddPC
  <2> QED
    BY <1>3, <2>1 DEF Launched, ThreadState
<1> QED
  BY <1>5, <1>6, <1>7 DEF ThreadState

\* Launches preserve NewSection: no section that waits for its thread gets
\* another one.
LEMMA LaunchNewSection ==
  ASSUME Good, NewSection, NEW a \in Thread \cup Ctl, NEW s, NEW l, Launched(a, s, l),
         \A b \in Actor \ {a} : pc[b] # "main_launch",
         \A b \in Actor \ {a} : pc[b] = "add_launch" => s # n
  PROVE  NewSection'
<1>1. PICK t \in Thread \ {a} :
           /\ pc[t] = "none" /\ csDone # t /\ pc'[t] = "begin" /\ sect'[t] = s
           /\ pc'[a] = l
           /\ \A u \in Thread \ {t} : sect'[u] = sect[u]
           /\ \A b \in Actor \ {a, t} : pc'[b] = pc[b]
  BY LaunchFrame
<1>2. ASSUME NEW b \in Actor, pc'[b] = "add_launch"
      PROVE  /\ n' > 0 /\ state'[n'] = "CREATING"
             /\ \A u \in Thread : pc'[u] # "none" => sect'[u] # n'
  <2>1. b \notin {a, t} /\ pc[b] = "add_launch"
    BY <1>1, <1>2 DEF Launched
  <2>2. s # n /\ n > 0 /\ state[n] = "CREATING"
    BY <2>1 DEF NewSection
  <2>3. n' = n /\ state'[n] = state[n]
    BY <2>2 DEF Launched, Good, ListTypeOK, SectId
  <2>4. ASSUME NEW u \in Thread, pc'[u] # "none" PROVE sect'[u] # n
    BY <1>1, <2>1, <2>2, <2>4 DEF NewSection, Launched, Actor
  <2> QED
    BY <2>2, <2>3, <2>4
<1>3. ASSUME NEW c \in Ctl PROVE pc'[c] # "main_launch"
  <2>1. c # t /\ c \in Actor
    BY DEF Actor, Good, MgrAssumption
  <2> QED
    BY <1>1, <2>1 DEF Launched
<1> QED
  BY <1>2, <1>3 DEF NewSection

\* Launches preserve LiveSections.
LEMMA LaunchLive ==
  ASSUME Good, LiveSections, NEW a \in Thread \cup Ctl, NEW s, NEW l, Launched(a, s, l)
  PROVE  LiveSections'
<1>1. PICK t \in Thread \ {a} :
           /\ pc[t] = "none" /\ csDone # t /\ pc'[t] = "begin" /\ sect'[t] = s
           /\ pc'[a] = l
           /\ \A u \in Thread \ {t} : sect'[u] = sect[u]
           /\ \A b \in Actor \ {a, t} : pc'[b] = pc[b]
  BY LaunchFrame
<1>2. ASSUME NEW r \in 1..n, state'[r] = "DOWNLOADING", r # s
      PROVE  \E u \in Thread : pc'[u] # "none" /\ sect'[u] = r
  <2>1. PICK u \in Thread : pc[u] # "none" /\ sect[u] = r
    BY <1>2 DEF Launched, LiveSections, Good, ListTypeOK, SectId
  <2> QED
    BY <1>1, <2>1 DEF Launched, Actor
<1> QED
  BY <1>1, <1>2 DEF LiveSections, Launched

\* A launch gives its thread a section of the list.
LEMMA LaunchHas ==
  ASSUME Good, HasSection, NEW a \in Thread \cup Ctl, NEW s, NEW l, Launched(a, s, l)
  PROVE  HasSection'
<1>1. PICK t \in Thread \ {a} :
           /\ pc[t] = "none" /\ csDone # t /\ pc'[t] = "begin" /\ sect'[t] = s
           /\ pc'[a] = l
           /\ \A u \in Thread \ {t} : sect'[u] = sect[u]
           /\ \A b \in Actor \ {a, t} : pc'[b] = pc[b]
  BY LaunchFrame
<1>2. s # 0 /\ pc[a] # "none"
  BY DEF Launched, Good, ListTypeOK
<1> QED
  BY <1>1, <1>2 DEF HasSection, Actor

\* A thread that is launched has a section.
LEMMA SectionOfThread ==
  ASSUME Good, HasSection, NewSection, Step
  PROVE  HasSection'
<1> USE DEF PlacesOK, FlagsOK, ListTypeOK, SectId, Actor, Thread, ThreadPC,
    HandlerPC, CtlPC, AddPC, LoopPC, StartPC, CallerPC, MgrAssumption, SectionState,
    Good
<1>1. ASSUME NEW p \in Caller, StartCall(p) PROVE HasSection'
  BY <1>1 DEF StartCall, HasSection
<1>2. ASSUME NEW p \in Caller, Launch(p) PROVE HasSection'
  <2>1. PICK c \in Ctl : pc[c] = "none" /\ pc' = [pc EXCEPT ![p] = "idle",
  ![c] = "starting"]
    BY <1>2 DEF Launch
  <2>2. UNCHANGED sect /\ \A t \in Thread : pc'[t] = pc[t]
    BY <1>2, <2>1 DEF Launch
  <2> QED
    BY <2>2 DEF HasSection
<1>3. ASSUME NEW p \in Caller, StopCall(p) PROVE HasSection'
  BY <1>3 DEF StopCall, HasSection
<1>4. ASSUME NEW p \in Caller, StopDldr(p) PROVE HasSection'
  BY <1>4 DEF StopDldr, HasSection
<1>5. ASSUME NEW c \in Ctl, ThreadStarts(c) PROVE HasSection'
  <2>1. PICK l \in {"loop", "ending"} : pc' = [pc EXCEPT ![c] = l]
    BY <1>5 DEF ThreadStarts, PlacesOK
  <2> QED
    BY <1>5, <2>1 DEF ThreadStarts, HasSection, MayAdd, Back
<1>6. ASSUME NEW c \in Ctl, LoopNeedStart(c) PROVE HasSection'
  BY <1>6 DEF LoopNeedStart, HasSection
<1>7. ASSUME NEW c \in Ctl, LoopRuns(c) PROVE HasSection'
  BY <1>7 DEF LoopRuns, HasSection
<1>8. ASSUME NEW c \in Ctl, StopCheck(c) PROVE HasSection'
  <2>1. PICK l \in {"stopwait", "work"} : pc' = [pc EXCEPT ![c] = l]
    BY <1>8 DEF StopCheck, PlacesOK
  <2> QED
    BY <1>8, <2>1 DEF StopCheck, HasSection, MayAdd, Back
<1>9. ASSUME NEW c \in Ctl, WorkDone(c) PROVE HasSection'
  BY <1>9 DEF WorkDone, HasSection
<1>10. ASSUME NEW c \in Ctl, Watchdog(c) PROVE HasSection'
  BY <1>10 DEF Watchdog, HasSection
<1>11. ASSUME NEW c \in Ctl, WatchdogStopped(c) PROVE HasSection'
  BY <1>11 DEF WatchdogStopped, HasSection
<1>12. ASSUME NEW c \in Ctl, LaunchOneMoreSection(c) PROVE HasSection'
  <2>1. PICK s \in 1..n : state[s] = "STOPPED" /\ Launched(c, s, "loop")
    BY <1>12, OneMoreLaunched
  <2> QED
    BY <2>1, LaunchHas
<1>13. ASSUME NEW c \in Ctl, StartDownload(c) PROVE HasSection'
  <2>1. PICK l \in {"main_open", "result", "start_sect"} : pc' = [pc EXCEPT ![c] = l]
    BY <1>13 DEF StartDownload, PlacesOK
  <2> QED
    BY <1>13, <2>1 DEF StartDownload, HasSection, MayAdd, Back
<1>14. ASSUME NEW c \in Ctl, MainFails(c) PROVE HasSection'
  BY <1>14 DEF MainFails, HasSection
<1>15. ASSUME NEW c \in Ctl, MainNoFile(c) PROVE HasSection'
  BY <1>15 DEF MainNoFile, HasSection
<1>16. ASSUME NEW c \in Ctl, MainOpened(c) PROVE HasSection'
  BY <1>16 DEF MainOpened, HasSection
<1>17. ASSUME NEW c \in Ctl, MainLaunch(c) PROVE HasSection'
  <2>1. Launched(c, 1, "result")
    BY <1>17, MainLaunched
  <2> QED
    BY <2>1, LaunchHas
<1>18. ASSUME NEW c \in Ctl, StartSkip(c) PROVE HasSection'
  BY <1>18 DEF StartSkip, HasSection
<1>19. ASSUME NEW c \in Ctl, StartSection(c) PROVE HasSection'
  <2>1. Launched(c, i, "start_sect")
    BY <1>19, SectionLaunched
  <2> QED
    BY <2>1, LaunchHas
<1>20. ASSUME NEW c \in Ctl, StartNoFile(c) PROVE HasSection'
  BY <1>20 DEF StartNoFile, HasSection
<1>21. ASSUME NEW c \in Ctl, StartOpenFails(c) PROVE HasSection'
  <2>1. \A b \in Actor :
          pc'[b] = pc[b] \/ (b = c /\ pc[b] = "start_sect" /\ pc'[b] = "result")
    <3>1. pc[c] = "start_sect" /\ (pc' = pc \/ pc' = [pc EXCEPT ![c] = "result"])
      BY <1>21 DEF StartOpenFails
    <3> QED
      BY <3>1
  <2> QED
    BY <1>21, <2>1 DEF StartOpenFails, HasSection, MayAdd, Back
<1>22. ASSUME NEW c \in Ctl, StartAfresh(c) PROVE HasSection'
  BY <1>22 DEF StartAfresh, HasSection
<1>23. ASSUME NEW c \in Ctl, StartReturns(c) PROVE HasSection'
  BY <1>23 DEF StartReturns, HasSection
<1>24. ASSUME NEW c \in Ctl, StartResult(c) PROVE HasSection'
  BY <1>24 DEF StartResult, HasSection
<1>25. ASSUME NEW c \in Ctl, StartTests(c) PROVE HasSection'
  BY <1>25 DEF StartTests, HasSection
<1>26. ASSUME NEW c \in Ctl, SetDownloading(c) PROVE HasSection'
  BY <1>26 DEF SetDownloading, HasSection
<1>27. ASSUME NEW c \in Ctl, SleepInterval(c) PROVE HasSection'
  <2>1. PICK l \in {"after", "start"} : pc' = [pc EXCEPT ![c] = l]
    BY <1>27 DEF SleepInterval, PlacesOK
  <2> QED
    BY <1>27, <2>1 DEF SleepInterval, HasSection, MayAdd, Back
<1>28. ASSUME NEW c \in Ctl, AfterStart(c) PROVE HasSection'
  BY <1>28 DEF AfterStart, HasSection
<1>29. ASSUME NEW c \in Ctl, LoopEnds(c) PROVE HasSection'
  BY <1>29 DEF LoopEnds, HasSection
<1>30. ASSUME NEW c \in Ctl, FatalError(c) PROVE HasSection'
  BY <1>30 DEF FatalError, HasSection
<1>31. ASSUME NEW c \in Ctl, Stopped(c) PROVE HasSection'
  BY <1>31 DEF Stopped, HasSection
<1>32. ASSUME NEW c \in Ctl, Close(c) PROVE HasSection'
  BY <1>32 DEF Close, HasSection
<1>33. ASSUME NEW c \in Ctl, ThreadEnds(c) PROVE HasSection'
  BY <1>33 DEF ThreadEnds, HasSection
<1>34. ASSUME NEW c \in Ctl, StoppedOrDone(c) PROVE HasSection'
  BY <1>34 DEF StoppedOrDone, HasSection
<1>35. ASSUME NEW t \in Thread, ThreadBegin(t) PROVE HasSection'
  BY <1>35 DEF ThreadBegin, HasSection
<1>36. ASSUME NEW t \in Thread, SectionEnds(t) PROVE HasSection'
  BY <1>36 DEF SectionEnds, HasSection
<1>37. ASSUME NEW t \in Thread, Leave(t) PROVE HasSection'
  BY <1>37 DEF Leave, HasSection
<1>38. ASSUME NEW t \in Thread, SectionDone(t) PROVE HasSection'
  BY <1>38 DEF SectionDone, HasSection
<1>39. ASSUME NEW t \in Thread, NotAdded(t) PROVE HasSection'
  BY <1>39 DEF NotAdded, HasSection
<1>40. ASSUME NEW t \in Thread, OnDone(t) PROVE HasSection'
  BY <1>40 DEF OnDone, HasSection
<1>41. ASSUME NEW t \in Thread, SetDone(t) PROVE HasSection'
  BY <1>41 DEF SetDone, HasSection
<1>42. ASSUME NEW t \in Thread, OnSectionStopped(t) PROVE HasSection'
  BY <1>42 DEF OnSectionStopped, HasSection
<1>43. ASSUME NEW t \in Thread, ClearDownloading(t) PROVE HasSection'
  BY <1>43 DEF ClearDownloading, HasSection
<1>44. ASSUME NEW t \in Thread, AnnounceRestart(t) PROVE HasSection'
  BY <1>44 DEF AnnounceRestart, HasSection
<1>45. ASSUME NEW t \in Thread, SetNeedStart(t) PROVE HasSection'
  BY <1>45 DEF SetNeedStart, HasSection
<1>46. ASSUME NEW t \in Thread, SetNeedStop(t) PROVE HasSection'
  BY <1>46 DEF SetNeedStop, HasSection
<1>47. ASSUME NEW t \in Thread, ThreadExit(t) PROVE HasSection'
  BY <1>47 DEF ThreadExit, HasSection
<1>48. ASSUME NEW a \in Thread \cup Ctl, AddRefused(a) PROVE HasSection'
  BY <1>48 DEF AddRefused, HasSection, MayAdd, Back
<1>49. ASSUME NEW a \in Thread \cup Ctl, AddSection(a) PROVE HasSection'
  BY <1>49 DEF AddSection, HasSection, MayAdd, Back
<1>50. ASSUME NEW a \in Thread \cup Ctl, AddFails(a) PROVE HasSection'
  BY <1>50 DEF AddFails, HasSection
<1>51. ASSUME NEW a \in Thread \cup Ctl, AddOpened(a) PROVE HasSection'
  BY <1>51 DEF AddOpened, HasSection
<1>52. ASSUME NEW a \in Thread \cup Ctl, AddInsert(a) PROVE HasSection'
  BY <1>52 DEF AddInsert, HasSection
<1>53. ASSUME NEW a \in Thread \cup Ctl, AddLaunch(a) PROVE HasSection'
  <2>1. Launched(a, n, Back(a))
    BY <1>53, AddLaunched
  <2> QED
    BY <2>1, LaunchHas
<1> QED
  BY <1>1, <1>2, <1>3, <1>4, <1>5, <1>6, <1>7, <1>8, <1>9, <1>10, <1>11, <1>12,
     <1>13, <1>14, <1>15, <1>16, <1>17, <1>18, <1>19, <1>20, <1>21, <1>22, <1>23,
     <1>24, <1>25, <1>26, <1>27, <1>28, <1>29, <1>30, <1>31, <1>32, <1>33, <1>34,
     <1>35, <1>36, <1>37, <1>38, <1>39, <1>40, <1>41, <1>42, <1>43, <1>44, <1>45,
     <1>46, <1>47, <1>48, <1>49, <1>50, <1>51, <1>52, <1>53
  DEF Step, CallerSteps, ControlSteps, StartSteps, EndSteps, SectionSteps, AddSteps

\* SectionEnds completes a section of its own thread; ThreadExit stops it
\* unless it is complete.
LEMMA ThreadStates ==
  ASSUME Good, Step, OwnSection', ThreadState, NewSection
  PROVE  ThreadState'
<1> USE DEF PlacesOK, FlagsOK, ListTypeOK, SectId, Actor, Thread, ThreadPC,
    HandlerPC, CtlPC, AddPC, LoopPC, StartPC, CallerPC, MgrAssumption, SectionState,
    Good
<1>1. ASSUME NEW p \in Caller, StartCall(p) PROVE ThreadState'
  BY <1>1 DEF StartCall, ThreadState
<1>2. ASSUME NEW p \in Caller, Launch(p) PROVE ThreadState'
  <2>1. PICK c \in Ctl : pc[c] = "none" /\ pc' = [pc EXCEPT ![p] = "idle",
  ![c] = "starting"]
    BY <1>2 DEF Launch
  <2> QED
    BY ZenonT(40), <1>2, <2>1 DEF Launch, ThreadState, NewSection, LockInv, OwnSection, MayAdd, Back
<1>3. ASSUME NEW p \in Caller, StopCall(p) PROVE ThreadState'
  BY <1>3 DEF StopCall, ThreadState
<1>4. ASSUME NEW p \in Caller, StopDldr(p) PROVE ThreadState'
  BY <1>4 DEF StopDldr, ThreadState
<1>5. ASSUME NEW c \in Ctl, ThreadStarts(c) PROVE ThreadState'
  <2>1. PICK l \in {"loop", "ending"} : pc' = [pc EXCEPT ![c] = l]
    BY <1>5 DEF ThreadStarts, PlacesOK
  <2> QED
    BY <1>5, <2>1 DEF ThreadStarts, ThreadState, NewSection, LockInv, OwnSection,
       MayAdd, Back
<1>6. ASSUME NEW c \in Ctl, LoopNeedStart(c) PROVE ThreadState'
  BY <1>6 DEF LoopNeedStart, ThreadState
<1>7. ASSUME NEW c \in Ctl, LoopRuns(c) PROVE ThreadState'
  BY <1>7 DEF LoopRuns, ThreadState
<1>8. ASSUME NEW c \in Ctl, StopCheck(c) PROVE ThreadState'
  <2>1. PICK l \in {"stopwait", "work"} : pc' = [pc EXCEPT ![c] = l]
    BY <1>8 DEF StopCheck, PlacesOK
  <2> QED
    BY <1>8, <2>1 DEF StopCheck, ThreadState, NewSection, LockInv, OwnSection,
       MayAdd, Back
<1>9. ASSUME NEW c \in Ctl, WorkDone(c) PROVE ThreadState'
  BY <1>9 DEF WorkDone, ThreadState
<1>10. ASSUME NEW c \in Ctl, Watchdog(c) PROVE ThreadState'
  BY <1>10 DEF Watchdog, ThreadState
<1>11. ASSUME NEW c \in Ctl, WatchdogStopped(c) PROVE ThreadState'
  BY <1>11 DEF WatchdogStopped, ThreadState
<1>12. ASSUME NEW c \in Ctl, LaunchOneMoreSection(c) PROVE ThreadState'
  <2>1. PICK s \in 1..n : state[s] = "STOPPED" /\ Launched(c, s, "loop")
    BY <1>12, OneMoreLaunched
  <2> QED
    BY <2>1, LaunchThreadState
<1>13. ASSUME NEW c \in Ctl, StartDownload(c) PROVE ThreadState'
  <2>1. PICK l \in {"main_open", "result", "start_sect"} : pc' = [pc EXCEPT ![c] = l]
    BY <1>13 DEF StartDownload, PlacesOK
  <2> QED
    BY <1>13, <2>1 DEF StartDownload, ThreadState, NewSection, LockInv, OwnSection,
       MayAdd, Back
<1>14. ASSUME NEW c \in Ctl, MainFails(c) PROVE ThreadState'
  BY <1>14 DEF MainFails, ThreadState
<1>15. ASSUME NEW c \in Ctl, MainNoFile(c) PROVE ThreadState'
  BY <1>15 DEF MainNoFile, ThreadState
<1>16. ASSUME NEW c \in Ctl, MainOpened(c) PROVE ThreadState'
  <2>1. \A t \in Thread : pc[t] = "none" /\ csDone # t
    BY <1>16 DEF MainOpened, SlotInv, OwnSection, LockInv
  <2>2. \A t \in Thread : pc'[t] = "none" /\ csDone' # t
    BY <1>16, <2>1 DEF MainOpened
  <2> QED
    BY <2>2 DEF ThreadState
<1>17. ASSUME NEW c \in Ctl, MainLaunch(c) PROVE ThreadState'
  <2>1. Launched(c, 1, "result")
    BY <1>17, MainLaunched
  <2> QED
    BY <2>1, LaunchThreadState
<1>18. ASSUME NEW c \in Ctl, StartSkip(c) PROVE ThreadState'
  BY <1>18 DEF StartSkip, ThreadState
<1>19. ASSUME NEW c \in Ctl, StartSection(c) PROVE ThreadState'
  <2>1. Launched(c, i, "start_sect")
    BY <1>19, SectionLaunched
  <2> QED
    BY <2>1, LaunchThreadState
<1>20. ASSUME NEW c \in Ctl, StartNoFile(c) PROVE ThreadState'
  BY <1>20 DEF StartNoFile, ThreadState
<1>21. ASSUME NEW c \in Ctl, StartOpenFails(c) PROVE ThreadState'
  <2>1. UNCHANGED <<state, sect, csDone, bSectDone>> /\ \A t \in Thread : pc'[t] = pc[t]
    BY <1>21 DEF StartOpenFails
  <2> QED
    BY <2>1 DEF ThreadState
<1>22. ASSUME NEW c \in Ctl, StartAfresh(c) PROVE ThreadState'
  BY <1>22 DEF StartAfresh, ThreadState, NewSection, LockInv, OwnSection, MayAdd, Back
<1>23. ASSUME NEW c \in Ctl, StartReturns(c) PROVE ThreadState'
  BY <1>23 DEF StartReturns, ThreadState
<1>24. ASSUME NEW c \in Ctl, StartResult(c) PROVE ThreadState'
  BY <1>24 DEF StartResult, ThreadState
<1>25. ASSUME NEW c \in Ctl, StartTests(c) PROVE ThreadState'
  BY <1>25 DEF StartTests, ThreadState
<1>26. ASSUME NEW c \in Ctl, SetDownloading(c) PROVE ThreadState'
  BY <1>26 DEF SetDownloading, ThreadState
<1>27. ASSUME NEW c \in Ctl, SleepInterval(c) PROVE ThreadState'
  <2>1. PICK l \in {"after", "start"} : pc' = [pc EXCEPT ![c] = l]
    BY <1>27 DEF SleepInterval, PlacesOK
  <2> QED
    BY <1>27, <2>1 DEF SleepInterval, ThreadState, NewSection, LockInv, OwnSection,
       MayAdd, Back
<1>28. ASSUME NEW c \in Ctl, AfterStart(c) PROVE ThreadState'
  BY <1>28 DEF AfterStart, ThreadState
<1>29. ASSUME NEW c \in Ctl, LoopEnds(c) PROVE ThreadState'
  BY <1>29 DEF LoopEnds, ThreadState
<1>30. ASSUME NEW c \in Ctl, FatalError(c) PROVE ThreadState'
  BY <1>30 DEF FatalError, ThreadState
<1>31. ASSUME NEW c \in Ctl, Stopped(c) PROVE ThreadState'
  BY <1>31 DEF Stopped, ThreadState
<1>32. ASSUME NEW c \in Ctl, Close(c) PROVE ThreadState'
  BY <1>32 DEF Close, ThreadState
<1>33. ASSUME NEW c \in Ctl, ThreadEnds(c) PROVE ThreadState'
  BY <1>33 DEF ThreadEnds, ThreadState
<1>34. ASSUME NEW c \in Ctl, StoppedOrDone(c) PROVE ThreadState'
  BY <1>34 DEF StoppedOrDone, ThreadState
<1>35. ASSUME NEW t \in Thread, ThreadBegin(t) PROVE ThreadState'
  BY <1>35 DEF ThreadBegin, ThreadState
<1>36. ASSUME NEW t \in Thread, SectionEnds(t) PROVE ThreadState'
  BY <1>36 DEF SectionEnds, ThreadState, NewSection, LockInv, OwnSection, MayAdd, Back
<1>37. ASSUME NEW t \in Thread, Leave(t) PROVE ThreadState'
  <2>1. bSectDone' <=> state[sect[t]] = "DONE"
    BY <1>37, Zenon DEF Leave
  <2>2. \A u \in Thread : pc'[u] = pc[u] \/ (u = t /\ pc'[u] \in HandlerPC)
    BY <1>37 DEF Leave
  <2>3. csDone' = t /\ UNCHANGED <<state, sect>>
    BY <1>37 DEF Leave
  <2> QED
    BY <1>37, <2>1, <2>2, <2>3 DEF Leave, ThreadState
<1>38. ASSUME NEW t \in Thread, SectionDone(t) PROVE ThreadState'
  BY <1>38 DEF SectionDone, ThreadState
<1>39. ASSUME NEW t \in Thread, NotAdded(t) PROVE ThreadState'
  BY <1>39 DEF NotAdded, ThreadState
<1>40. ASSUME NEW t \in Thread, OnDone(t) PROVE ThreadState'
  BY <1>40 DEF OnDone, ThreadState
<1>41. ASSUME NEW t \in Thread, SetDone(t) PROVE ThreadState'
  BY <1>41 DEF SetDone, ThreadState
<1>42. ASSUME NEW t \in Thread, OnSectionStopped(t) PROVE ThreadState'
  BY <1>42 DEF OnSectionStopped, ThreadState
<1>43. ASSUME NEW t \in Thread, ClearDownloading(t) PROVE ThreadState'
  BY <1>43 DEF ClearDownloading, ThreadState
<1>44. ASSUME NEW t \in Thread, AnnounceRestart(t) PROVE ThreadState'
  BY <1>44 DEF AnnounceRestart, ThreadState
<1>45. ASSUME NEW t \in Thread, SetNeedStart(t) PROVE ThreadState'
  BY <1>45 DEF SetNeedStart, ThreadState
<1>46. ASSUME NEW t \in Thread, SetNeedStop(t) PROVE ThreadState'
  BY <1>46 DEF SetNeedStop, ThreadState
<1>47. ASSUME NEW t \in Thread, ThreadExit(t) PROVE ThreadState'
  BY <1>47 DEF ThreadExit, ThreadState, NewSection, LockInv, OwnSection, MayAdd, Back
<1>48. ASSUME NEW a \in Thread \cup Ctl, AddRefused(a) PROVE ThreadState'
  BY <1>48 DEF AddRefused, ThreadState, NewSection, LockInv, OwnSection, MayAdd, Back
<1>49. ASSUME NEW a \in Thread \cup Ctl, AddSection(a) PROVE ThreadState'
  BY <1>49 DEF AddSection, ThreadState, NewSection, LockInv, OwnSection, MayAdd, Back
<1>50. ASSUME NEW a \in Thread \cup Ctl, AddFails(a) PROVE ThreadState'
  BY <1>50 DEF AddFails, ThreadState, NewSection, LockInv, OwnSection, MayAdd, Back
<1>51. ASSUME NEW a \in Thread \cup Ctl, AddOpened(a) PROVE ThreadState'
  BY <1>51 DEF AddOpened, ThreadState
<1>52. ASSUME NEW a \in Thread \cup Ctl, AddInsert(a) PROVE ThreadState'
  BY <1>52 DEF AddInsert, ThreadState, NewSection, LockInv, OwnSection, MayAdd, Back
<1>53. ASSUME NEW a \in Thread \cup Ctl, AddLaunch(a) PROVE ThreadState'
  <2>1. Launched(a, n, Back(a))
    BY <1>53, AddLaunched
  <2> QED
    BY <2>1, LaunchThreadState
<1> QED
  BY <1>1, <1>2, <1>3, <1>4, <1>5, <1>6, <1>7, <1>8, <1>9, <1>10, <1>11, <1>12,
     <1>13, <1>14, <1>15, <1>16, <1>17, <1>18, <1>19, <1>20, <1>21, <1>22, <1>23,
     <1>24, <1>25, <1>26, <1>27, <1>28, <1>29, <1>30, <1>31, <1>32, <1>33, <1>34,
     <1>35, <1>36, <1>37, <1>38, <1>39, <1>40, <1>41, <1>42, <1>43, <1>44, <1>45,
     <1>46, <1>47, <1>48, <1>49, <1>50, <1>51, <1>52, <1>53
  DEF Step, CallerSteps, ControlSteps, StartSteps, EndSteps, SectionSteps, AddSteps

\* While an inserted section waits for its thread, nobody launches another
\* for it: m_csAddSection is held, and the start of the sections has
\* m_bNoNewSections set.
LEMMA NewSections ==
  ASSUME Good, Step, OwnSection', ThreadState, NewSection, StartInv
  PROVE  NewSection'
<1> USE DEF PlacesOK, FlagsOK, ListTypeOK, SectId, Actor, Thread, ThreadPC,
    HandlerPC, CtlPC, AddPC, LoopPC, StartPC, CallerPC, MgrAssumption, SectionState,
    Good
<1>1. ASSUME NEW p \in Caller, StartCall(p) PROVE NewSection'
  BY <1>1 DEF StartCall, NewSection
<1>2. ASSUME NEW p \in Caller, Launch(p) PROVE NewSection'
  <2>1. PICK c \in Ctl : pc[c] = "none" /\ pc' = [pc EXCEPT ![p] = "idle",
  ![c] = "starting"]
    BY <1>2 DEF Launch
  <2>2. UNCHANGED <<n, state, sect>>
    BY <1>2 DEF Launch
  <2>3. /\ \A t \in Thread : pc'[t] = pc[t]
        /\ \A a \in Actor : pc'[a] = pc[a] \/ pc'[a] \in {"idle", "starting"}
    BY SMTT(30), <2>1
  <2> QED
    BY ZenonT(40), <2>2, <2>3 DEF NewSection
<1>3. ASSUME NEW p \in Caller, StopCall(p) PROVE NewSection'
  BY <1>3 DEF StopCall, NewSection
<1>4. ASSUME NEW p \in Caller, StopDldr(p) PROVE NewSection'
  BY <1>4 DEF StopDldr, NewSection
<1>5. ASSUME NEW c \in Ctl, ThreadStarts(c) PROVE NewSection'
  <2>1. PICK l \in {"loop", "ending"} : pc' = [pc EXCEPT ![c] = l]
    BY <1>5 DEF ThreadStarts, PlacesOK
  <2> QED
    BY <1>5, <2>1 DEF ThreadStarts, NewSection, StartInv, ThreadState, OneControl,
       Controls, LockInv, SlotInv, OwnSection, MayAdd, Back
<1>6. ASSUME NEW c \in Ctl, LoopNeedStart(c) PROVE NewSection'
  BY <1>6 DEF LoopNeedStart, NewSection
<1>7. ASSUME NEW c \in Ctl, LoopRuns(c) PROVE NewSection'
  BY <1>7 DEF LoopRuns, NewSection
<1>8. ASSUME NEW c \in Ctl, StopCheck(c) PROVE NewSection'
  <2>1. PICK l \in {"stopwait", "work"} : pc' = [pc EXCEPT ![c] = l]
    BY <1>8 DEF StopCheck, PlacesOK
  <2> QED
    BY <1>8, <2>1 DEF StopCheck, NewSection, StartInv, ThreadState, OneControl,
       Controls, LockInv, SlotInv, OwnSection, MayAdd, Back
<1>9. ASSUME NEW c \in Ctl, WorkDone(c) PROVE NewSection'
  BY <1>9 DEF WorkDone, NewSection
<1>10. ASSUME NEW c \in Ctl, Watchdog(c) PROVE NewSection'
  BY <1>10 DEF Watchdog, NewSection
<1>11. ASSUME NEW c \in Ctl, WatchdogStopped(c) PROVE NewSection'
  BY <1>11 DEF WatchdogStopped, NewSection
<1>12. ASSUME NEW c \in Ctl, LaunchOneMoreSection(c) PROVE NewSection'
  <2>1. PICK s \in 1..n : state[s] = "STOPPED" /\ Launched(c, s, "loop")
    BY <1>12, OneMoreLaunched
  <2>2. /\ \A b \in Actor \ {c} : pc[b] # "main_launch"
        /\ \A b \in Actor \ {c} : pc[b] = "add_launch" => s # n
    BY <1>12, <2>1 DEF LaunchOneMoreSection, NewSection, OneControl, Controls
  <2> QED
    BY <2>1, <2>2, LaunchNewSection
<1>13. ASSUME NEW c \in Ctl, StartDownload(c) PROVE NewSection'
  <2>1. PICK l \in {"main_open", "result", "start_sect"} : pc' = [pc EXCEPT ![c] = l]
    BY <1>13 DEF StartDownload, PlacesOK
  <2> QED
    BY <1>13, <2>1 DEF StartDownload, NewSection, StartInv, ThreadState, OneControl,
       Controls, LockInv, SlotInv, OwnSection, MayAdd, Back
<1>14. ASSUME NEW c \in Ctl, MainFails(c) PROVE NewSection'
  BY <1>14 DEF MainFails, NewSection
<1>15. ASSUME NEW c \in Ctl, MainNoFile(c) PROVE NewSection'
  BY <1>15 DEF MainNoFile, NewSection
<1>16. ASSUME NEW c \in Ctl, MainOpened(c) PROVE NewSection'
  BY <1>16 DEF MainOpened, NewSection, StartInv, ThreadState, OneControl, Controls,
     LockInv, SlotInv, OwnSection, MayAdd, Back
<1>17. ASSUME NEW c \in Ctl, MainLaunch(c) PROVE NewSection'
  <2>1. Launched(c, 1, "result")
    BY <1>17, MainLaunched
  <2>2. \A b \in Actor \ {c} : pc[b] \notin {"main_launch", "add_launch"}
    BY <1>17 DEF MainLaunch, LockInv
  <2> QED
    BY <2>1, <2>2, LaunchNewSection
<1>18. ASSUME NEW c \in Ctl, StartSkip(c) PROVE NewSection'
  BY <1>18 DEF StartSkip, NewSection
<1>19. ASSUME NEW c \in Ctl, StartSection(c) PROVE NewSection'
  <2>1. Launched(c, i, "start_sect")
    BY <1>19, SectionLaunched
  <2>2. \A b \in Actor \ {c} : pc[b] \notin {"main_launch", "add_launch"}
    BY <1>19 DEF StartSection, StartInv, OneControl, Controls
  <2> QED
    BY <2>1, <2>2, LaunchNewSection
<1>20. ASSUME NEW c \in Ctl, StartNoFile(c) PROVE NewSection'
  BY <1>20 DEF StartNoFile, NewSection
<1>21. ASSUME NEW c \in Ctl, StartOpenFails(c) PROVE NewSection'
  <2>1. UNCHANGED <<n, state, sect>>
    BY <1>21 DEF StartOpenFails
  <2>2. /\ \A t \in Thread : pc'[t] = pc[t]
        /\ \A a \in Actor : pc'[a] = pc[a] \/ pc'[a] = "result"
    BY <1>21 DEF StartOpenFails
  <2> QED
    BY <2>1, <2>2 DEF NewSection
<1>22. ASSUME NEW c \in Ctl, StartAfresh(c) PROVE NewSection'
  BY <1>22 DEF StartAfresh, NewSection, StartInv, ThreadState, OneControl, Controls,
     LockInv, SlotInv, OwnSection, MayAdd, Back
<1>23. ASSUME NEW c \in Ctl, StartReturns(c) PROVE NewSection'
  BY <1>23 DEF StartReturns, NewSection
<1>24. ASSUME NEW c \in Ctl, StartResult(c) PROVE NewSection'
  BY <1>24 DEF StartResult, NewSection
<1>25. ASSUME NEW c \in Ctl, StartTests(c) PROVE NewSection'
  BY <1>25 DEF StartTests, NewSection
<1>26. ASSUME NEW c \in Ctl, SetDownloading(c) PROVE NewSection'
  BY <1>26 DEF SetDownloading, NewSection
<1>27. ASSUME NEW c \in Ctl, SleepInterval(c) PROVE NewSection'
  <2>1. PICK l \in {"after", "start"} : pc' = [pc EXCEPT ![c] = l]
    BY <1>27 DEF SleepInterval, PlacesOK
  <2> QED
    BY <1>27, <2>1 DEF SleepInterval, NewSection, StartInv, ThreadState, OneControl,
       Controls, LockInv, SlotInv, OwnSection, MayAdd, Back
<1>28. ASSUME NEW c \in Ctl, AfterStart(c) PROVE NewSection'
  BY <1>28 DEF AfterStart, NewSection
<1>29. ASSUME NEW c \in Ctl, LoopEnds(c) PROVE NewSection'
  BY <1>29 DEF LoopEnds, NewSection
<1>30. ASSUME NEW c \in Ctl, FatalError(c) PROVE NewSection'
  BY <1>30 DEF FatalError, NewSection
<1>31. ASSUME NEW c \in Ctl, Stopped(c) PROVE NewSection'
  BY <1>31 DEF Stopped, NewSection
<1>32. ASSUME NEW c \in Ctl, Close(c) PROVE NewSection'
  BY <1>32 DEF Close, NewSection
<1>33. ASSUME NEW c \in Ctl, ThreadEnds(c) PROVE NewSection'
  BY <1>33 DEF ThreadEnds, NewSection
<1>34. ASSUME NEW c \in Ctl, StoppedOrDone(c) PROVE NewSection'
  BY <1>34 DEF StoppedOrDone, NewSection
<1>35. ASSUME NEW t \in Thread, ThreadBegin(t) PROVE NewSection'
  BY <1>35 DEF ThreadBegin, NewSection
<1>36. ASSUME NEW t \in Thread, SectionEnds(t) PROVE NewSection'
  BY <1>36 DEF SectionEnds, NewSection
<1>37. ASSUME NEW t \in Thread, Leave(t) PROVE NewSection'
  BY <1>37 DEF Leave, NewSection
<1>38. ASSUME NEW t \in Thread, SectionDone(t) PROVE NewSection'
  BY <1>38 DEF SectionDone, NewSection
<1>39. ASSUME NEW t \in Thread, NotAdded(t) PROVE NewSection'
  BY <1>39 DEF NotAdded, NewSection
<1>40. ASSUME NEW t \in Thread, OnDone(t) PROVE NewSection'
  BY <1>40 DEF OnDone, NewSection
<1>41. ASSUME NEW t \in Thread, SetDone(t) PROVE NewSection'
  BY <1>41 DEF SetDone, NewSection
<1>42. ASSUME NEW t \in Thread, OnSectionStopped(t) PROVE NewSection'
  BY <1>42 DEF OnSectionStopped, NewSection
<1>43. ASSUME NEW t \in Thread, ClearDownloading(t) PROVE NewSection'
  BY <1>43 DEF ClearDownloading, NewSection
<1>44. ASSUME NEW t \in Thread, AnnounceRestart(t) PROVE NewSection'
  BY <1>44 DEF AnnounceRestart, NewSection
<1>45. ASSUME NEW t \in Thread, SetNeedStart(t) PROVE NewSection'
  BY <1>45 DEF SetNeedStart, NewSection
<1>46. ASSUME NEW t \in Thread, SetNeedStop(t) PROVE NewSection'
  BY <1>46 DEF SetNeedStop, NewSection
<1>47. ASSUME NEW t \in Thread, ThreadExit(t) PROVE NewSection'
  BY <1>47 DEF ThreadExit, NewSection
<1>48. ASSUME NEW a \in Thread \cup Ctl, AddRefused(a) PROVE NewSection'
  BY <1>48 DEF AddRefused, NewSection, StartInv, ThreadState, OneControl, Controls,
     LockInv, SlotInv, OwnSection, MayAdd, Back
<1>49. ASSUME NEW a \in Thread \cup Ctl, AddSection(a) PROVE NewSection'
  BY <1>49 DEF AddSection, NewSection, StartInv, ThreadState, OneControl, Controls,
     LockInv, SlotInv, OwnSection, MayAdd, Back
<1>50. ASSUME NEW a \in Thread \cup Ctl, AddFails(a) PROVE NewSection'
  BY <1>50 DEF AddFails, NewSection, StartInv, ThreadState, OneControl, Controls,
     LockInv, SlotInv, OwnSection, MayAdd, Back
<1>51. ASSUME NEW a \in Thread \cup Ctl, AddOpened(a) PROVE NewSection'
  BY <1>51 DEF AddOpened, NewSection
<1>52. ASSUME NEW a \in Thread \cup Ctl, AddInsert(a) PROVE NewSection'
  BY <1>52 DEF AddInsert, NewSection, StartInv, ThreadState, OneControl, Controls,
     LockInv, SlotInv, OwnSection, MayAdd, Back
<1>53. ASSUME NEW a \in Thread \cup Ctl, AddLaunch(a) PROVE NewSection'
  <2>1. Launched(a, n, Back(a))
    BY <1>53, AddLaunched
  <2>2. \A b \in Actor \ {a} : pc[b] \notin {"main_launch", "add_launch"}
    BY <1>53 DEF AddLaunch, LockInv
  <2> QED
    BY <2>1, <2>2, LaunchNewSection
<1> QED
  BY <1>1, <1>2, <1>3, <1>4, <1>5, <1>6, <1>7, <1>8, <1>9, <1>10, <1>11, <1>12,
     <1>13, <1>14, <1>15, <1>16, <1>17, <1>18, <1>19, <1>20, <1>21, <1>22, <1>23,
     <1>24, <1>25, <1>26, <1>27, <1>28, <1>29, <1>30, <1>31, <1>32, <1>33, <1>34,
     <1>35, <1>36, <1>37, <1>38, <1>39, <1>40, <1>41, <1>42, <1>43, <1>44, <1>45,
     <1>46, <1>47, <1>48, <1>49, <1>50, <1>51, <1>52, <1>53
  DEF Step, CallerSteps, ControlSteps, StartSteps, EndSteps, SectionSteps, AddSteps

\* A section in SS_DOWNLOADING has a thread.
LEMMA Live ==
  ASSUME Good, Step, OwnSection', LiveSections, ThreadState, NewSection
  PROVE  LiveSections'
<1> USE DEF PlacesOK, FlagsOK, ListTypeOK, SectId, Actor, Thread, ThreadPC,
    HandlerPC, CtlPC, AddPC, LoopPC, StartPC, CallerPC, MgrAssumption, SectionState,
    Good
<1>1. ASSUME NEW p \in Caller, StartCall(p) PROVE LiveSections'
  BY <1>1 DEF StartCall, LiveSections
<1>2. ASSUME NEW p \in Caller, Launch(p) PROVE LiveSections'
  <2>1. PICK c \in Ctl : pc[c] = "none" /\ pc' = [pc EXCEPT ![p] = "idle",
  ![c] = "starting"]
    BY <1>2 DEF Launch
  <2> QED
    BY SMTT(30), <1>2, <2>1 DEF Launch, LiveSections, ThreadState, LockInv, OwnSection, MayAdd,
       Back
<1>3. ASSUME NEW p \in Caller, StopCall(p) PROVE LiveSections'
  BY <1>3 DEF StopCall, LiveSections
<1>4. ASSUME NEW p \in Caller, StopDldr(p) PROVE LiveSections'
  BY <1>4 DEF StopDldr, LiveSections
<1>5. ASSUME NEW c \in Ctl, ThreadStarts(c) PROVE LiveSections'
  <2>1. PICK l \in {"loop", "ending"} : pc' = [pc EXCEPT ![c] = l]
    BY <1>5 DEF ThreadStarts, PlacesOK
  <2> QED
    BY <1>5, <2>1 DEF ThreadStarts, LiveSections, ThreadState, LockInv, OwnSection,
       MayAdd, Back
<1>6. ASSUME NEW c \in Ctl, LoopNeedStart(c) PROVE LiveSections'
  BY <1>6 DEF LoopNeedStart, LiveSections
<1>7. ASSUME NEW c \in Ctl, LoopRuns(c) PROVE LiveSections'
  BY <1>7 DEF LoopRuns, LiveSections
<1>8. ASSUME NEW c \in Ctl, StopCheck(c) PROVE LiveSections'
  <2>1. PICK l \in {"stopwait", "work"} : pc' = [pc EXCEPT ![c] = l]
    BY <1>8 DEF StopCheck, PlacesOK
  <2> QED
    BY <1>8, <2>1 DEF StopCheck, LiveSections, ThreadState, LockInv, OwnSection,
       MayAdd, Back
<1>9. ASSUME NEW c \in Ctl, WorkDone(c) PROVE LiveSections'
  BY <1>9 DEF WorkDone, LiveSections
<1>10. ASSUME NEW c \in Ctl, Watchdog(c) PROVE LiveSections'
  BY <1>10 DEF Watchdog, LiveSections
<1>11. ASSUME NEW c \in Ctl, WatchdogStopped(c) PROVE LiveSections'
  BY <1>11 DEF WatchdogStopped, LiveSections
<1>12. ASSUME NEW c \in Ctl, LaunchOneMoreSection(c) PROVE LiveSections'
  <2>1. PICK s \in 1..n : state[s] = "STOPPED" /\ Launched(c, s, "loop")
    BY <1>12, OneMoreLaunched
  <2> QED
    BY <2>1, LaunchLive
<1>13. ASSUME NEW c \in Ctl, StartDownload(c) PROVE LiveSections'
  <2>1. PICK l \in {"main_open", "result", "start_sect"} : pc' = [pc EXCEPT ![c] = l]
    BY <1>13 DEF StartDownload, PlacesOK
  <2> QED
    BY <1>13, <2>1 DEF StartDownload, LiveSections, ThreadState, LockInv, OwnSection,
       MayAdd, Back
<1>14. ASSUME NEW c \in Ctl, MainFails(c) PROVE LiveSections'
  BY <1>14 DEF MainFails, LiveSections
<1>15. ASSUME NEW c \in Ctl, MainNoFile(c) PROVE LiveSections'
  BY <1>15 DEF MainNoFile, LiveSections
<1>16. ASSUME NEW c \in Ctl, MainOpened(c) PROVE LiveSections'
  BY <1>16 DEF MainOpened, LiveSections
<1>17. ASSUME NEW c \in Ctl, MainLaunch(c) PROVE LiveSections'
  <2>1. Launched(c, 1, "result")
    BY <1>17, MainLaunched
  <2> QED
    BY <2>1, LaunchLive
<1>18. ASSUME NEW c \in Ctl, StartSkip(c) PROVE LiveSections'
  BY <1>18 DEF StartSkip, LiveSections
<1>19. ASSUME NEW c \in Ctl, StartSection(c) PROVE LiveSections'
  <2>1. Launched(c, i, "start_sect")
    BY <1>19, SectionLaunched
  <2> QED
    BY <2>1, LaunchLive
<1>20. ASSUME NEW c \in Ctl, StartNoFile(c) PROVE LiveSections'
  BY <1>20 DEF StartNoFile, LiveSections
<1>21. ASSUME NEW c \in Ctl, StartOpenFails(c) PROVE LiveSections'
  <2>1. \A b \in Actor :
          pc'[b] = pc[b] \/ (b = c /\ pc[b] = "start_sect" /\ pc'[b] = "result")
    <3>1. pc[c] = "start_sect" /\ (pc' = pc \/ pc' = [pc EXCEPT ![c] = "result"])
      BY <1>21 DEF StartOpenFails
    <3> QED
      BY <3>1
  <2>2. UNCHANGED <<n, state, sect>>
    BY <1>21 DEF StartOpenFails
  <2> QED
    BY <2>1, <2>2 DEF LiveSections
<1>22. ASSUME NEW c \in Ctl, StartAfresh(c) PROVE LiveSections'
  BY <1>22 DEF StartAfresh, LiveSections
<1>23. ASSUME NEW c \in Ctl, StartReturns(c) PROVE LiveSections'
  BY <1>23 DEF StartReturns, LiveSections
<1>24. ASSUME NEW c \in Ctl, StartResult(c) PROVE LiveSections'
  BY <1>24 DEF StartResult, LiveSections
<1>25. ASSUME NEW c \in Ctl, StartTests(c) PROVE LiveSections'
  BY <1>25 DEF StartTests, LiveSections
<1>26. ASSUME NEW c \in Ctl, SetDownloading(c) PROVE LiveSections'
  BY <1>26 DEF SetDownloading, LiveSections
<1>27. ASSUME NEW c \in Ctl, SleepInterval(c) PROVE LiveSections'
  <2>1. PICK l \in {"after", "start"} : pc' = [pc EXCEPT ![c] = l]
    BY <1>27 DEF SleepInterval, PlacesOK
  <2> QED
    BY <1>27, <2>1 DEF SleepInterval, LiveSections, ThreadState, LockInv, OwnSection,
       MayAdd, Back
<1>28. ASSUME NEW c \in Ctl, AfterStart(c) PROVE LiveSections'
  BY <1>28 DEF AfterStart, LiveSections
<1>29. ASSUME NEW c \in Ctl, LoopEnds(c) PROVE LiveSections'
  BY <1>29 DEF LoopEnds, LiveSections
<1>30. ASSUME NEW c \in Ctl, FatalError(c) PROVE LiveSections'
  BY <1>30 DEF FatalError, LiveSections
<1>31. ASSUME NEW c \in Ctl, Stopped(c) PROVE LiveSections'
  BY <1>31 DEF Stopped, LiveSections
<1>32. ASSUME NEW c \in Ctl, Close(c) PROVE LiveSections'
  BY <1>32 DEF Close, LiveSections
<1>33. ASSUME NEW c \in Ctl, ThreadEnds(c) PROVE LiveSections'
  BY <1>33 DEF ThreadEnds, LiveSections
<1>34. ASSUME NEW c \in Ctl, StoppedOrDone(c) PROVE LiveSections'
  BY <1>34 DEF StoppedOrDone, LiveSections
<1>35. ASSUME NEW t \in Thread, ThreadBegin(t) PROVE LiveSections'
  BY <1>35 DEF ThreadBegin, LiveSections
<1>36. ASSUME NEW t \in Thread, SectionEnds(t) PROVE LiveSections'
  BY <1>36 DEF SectionEnds, LiveSections
<1>37. ASSUME NEW t \in Thread, Leave(t) PROVE LiveSections'
  BY <1>37 DEF Leave, LiveSections
<1>38. ASSUME NEW t \in Thread, SectionDone(t) PROVE LiveSections'
  BY <1>38 DEF SectionDone, LiveSections
<1>39. ASSUME NEW t \in Thread, NotAdded(t) PROVE LiveSections'
  BY <1>39 DEF NotAdded, LiveSections
<1>40. ASSUME NEW t \in Thread, OnDone(t) PROVE LiveSections'
  BY <1>40 DEF OnDone, LiveSections
<1>41. ASSUME NEW t \in Thread, SetDone(t) PROVE LiveSections'
  BY <1>41 DEF SetDone, LiveSections
<1>42. ASSUME NEW t \in Thread, OnSectionStopped(t) PROVE LiveSections'
  BY <1>42 DEF OnSectionStopped, LiveSections
<1>43. ASSUME NEW t \in Thread, ClearDownloading(t) PROVE LiveSections'
  BY <1>43 DEF ClearDownloading, LiveSections
<1>44. ASSUME NEW t \in Thread, AnnounceRestart(t) PROVE LiveSections'
  BY <1>44 DEF AnnounceRestart, LiveSections
<1>45. ASSUME NEW t \in Thread, SetNeedStart(t) PROVE LiveSections'
  BY <1>45 DEF SetNeedStart, LiveSections
<1>46. ASSUME NEW t \in Thread, SetNeedStop(t) PROVE LiveSections'
  BY <1>46 DEF SetNeedStop, LiveSections
<1>47. ASSUME NEW t \in Thread, ThreadExit(t) PROVE LiveSections'
  <2>1. csDone = t /\ n' = n
    BY <1>47 DEF ThreadExit, LockInv
  <2>2. /\ state'[sect[t]] # "DOWNLOADING"
        /\ \A s \in 1..n : s # sect[t] => state'[s] = state[s]
    BY <1>47, <2>1 DEF ThreadExit, ThreadState, OwnSection
  <2>3. \A u \in Thread \ {t} : pc'[u] = pc[u] /\ sect'[u] = sect[u]
    BY <1>47 DEF ThreadExit
  <2>4. ASSUME NEW s \in 1..n, state'[s] = "DOWNLOADING"
        PROVE  \E u \in Thread : pc'[u] # "none" /\ sect'[u] = s
    <3>1. s # sect[t] /\ state[s] = "DOWNLOADING"
      BY <2>2, <2>4
    <3>2. PICK u \in Thread : pc[u] # "none" /\ sect[u] = s
      BY <3>1 DEF LiveSections
    <3> QED
      BY <2>3, <3>1, <3>2
  <2> QED
    BY <2>1, <2>4 DEF LiveSections
<1>48. ASSUME NEW a \in Thread \cup Ctl, AddRefused(a) PROVE LiveSections'
  BY <1>48 DEF AddRefused, LiveSections, ThreadState, LockInv, OwnSection, MayAdd, Back
<1>49. ASSUME NEW a \in Thread \cup Ctl, AddSection(a) PROVE LiveSections'
  BY <1>49 DEF AddSection, LiveSections
<1>50. ASSUME NEW a \in Thread \cup Ctl, AddFails(a) PROVE LiveSections'
  BY <1>50 DEF AddFails, LiveSections, ThreadState, LockInv, OwnSection, MayAdd, Back
<1>51. ASSUME NEW a \in Thread \cup Ctl, AddOpened(a) PROVE LiveSections'
  BY <1>51 DEF AddOpened, LiveSections
<1>52. ASSUME NEW a \in Thread \cup Ctl, AddInsert(a) PROVE LiveSections'
  <2>1. /\ n + 1 \in SectId /\ n' = n + 1 /\ state'[n + 1] = "CREATING"
        /\ \A s \in 1..n : state'[s] = state[s]
    BY <1>52 DEF AddInsert, SlotInv
  <2>2. UNCHANGED sect /\ \A t \in Thread : pc[t] # "none" => pc'[t] # "none"
    BY <1>52 DEF AddInsert
  <2>3. ASSUME NEW s \in 1..n', state'[s] = "DOWNLOADING"
        PROVE  \E t \in Thread : pc'[t] # "none" /\ sect'[t] = s
    <3>1. s \in 1..n /\ state[s] = "DOWNLOADING"
      BY <2>1, <2>3
    <3>2. PICK t \in Thread : pc[t] # "none" /\ sect[t] = s
      BY <3>1 DEF LiveSections
    <3> QED
      BY <2>2, <3>2
  <2> QED
    BY <2>3 DEF LiveSections
<1>53. ASSUME NEW a \in Thread \cup Ctl, AddLaunch(a) PROVE LiveSections'
  <2>1. Launched(a, n, Back(a))
    BY <1>53, AddLaunched
  <2> QED
    BY <2>1, LaunchLive
<1> QED
  BY <1>1, <1>2, <1>3, <1>4, <1>5, <1>6, <1>7, <1>8, <1>9, <1>10, <1>11, <1>12,
     <1>13, <1>14, <1>15, <1>16, <1>17, <1>18, <1>19, <1>20, <1>21, <1>22, <1>23,
     <1>24, <1>25, <1>26, <1>27, <1>28, <1>29, <1>30, <1>31, <1>32, <1>33, <1>34,
     <1>35, <1>36, <1>37, <1>38, <1>39, <1>40, <1>41, <1>42, <1>43, <1>44, <1>45,
     <1>46, <1>47, <1>48, <1>49, <1>50, <1>51, <1>52, <1>53
  DEF Step, CallerSteps, ControlSteps, StartSteps, EndSteps, SectionSteps, AddSteps

\* The threads that run when a handler decides to add a section stay counted:
\* leaving takes the lock the handler holds.
LEMMA Handlers ==
  ASSUME Good, Step, OwnSection', RunningInv', ThreadState, NewSection, LiveSections,
         HandlerInv, StartInv
  PROVE  HandlerInv'
<1> USE DEF PlacesOK, FlagsOK, ListTypeOK, SectId, Actor, Thread, ThreadPC,
    HandlerPC, CtlPC, AddPC, LoopPC, StartPC, CallerPC, MgrAssumption, SectionState,
    Good
<1>1. ASSUME NEW p \in Caller, StartCall(p) PROVE HandlerInv'
  BY <1>1 DEF StartCall, HandlerInv, DldrRunning, IsDone
<1>2. ASSUME NEW p \in Caller, Launch(p) PROVE HandlerInv'
  <2>1. PICK c \in Ctl : pc[c] = "none" /\ pc' = [pc EXCEPT ![p] = "idle",
  ![c] = "starting"]
    BY <1>2 DEF Launch
  <2>2. UNCHANGED <<cRunning, n, state, csDone, bSectDone>>
    BY <1>2 DEF Launch
  <2>3. ASSUME NEW t \in Thread PROVE pc'[t] = pc[t]
    BY <2>1
  <2>4. ASSUME NEW d \in Ctl, pc[d] = "add_launch" PROVE pc'[d] = "add_launch"
    BY <2>1, <2>4
  <2> QED
    BY <2>2, <2>3, <2>4 DEF HandlerInv, DldrRunning, IsDone
<1>3. ASSUME NEW p \in Caller, StopCall(p) PROVE HandlerInv'
  BY <1>3 DEF StopCall, HandlerInv, DldrRunning, IsDone
<1>4. ASSUME NEW p \in Caller, StopDldr(p) PROVE HandlerInv'
  BY <1>4 DEF StopDldr, HandlerInv, DldrRunning, IsDone
<1>5. ASSUME NEW c \in Ctl, ThreadStarts(c) PROVE HandlerInv'
  <2>1. PICK l \in {"loop", "ending"} : pc' = [pc EXCEPT ![c] = l]
    BY <1>5 DEF ThreadStarts, PlacesOK
  <2> QED
    BY <1>5, <2>1 DEF ThreadStarts, HandlerInv, StartInv, NewSection, LiveSections,
       ThreadState, LockInv, SlotInv, OwnSection, RunningInv, Counted, DldrRunning,
       IsDone, IsAllSectionsOk, MayAdd, Back
<1>6. ASSUME NEW c \in Ctl, LoopNeedStart(c) PROVE HandlerInv'
  BY <1>6 DEF LoopNeedStart, HandlerInv, DldrRunning, IsDone
<1>7. ASSUME NEW c \in Ctl, LoopRuns(c) PROVE HandlerInv'
  BY <1>7 DEF LoopRuns, HandlerInv, DldrRunning, IsDone
<1>8. ASSUME NEW c \in Ctl, StopCheck(c) PROVE HandlerInv'
  <2>1. PICK l \in {"stopwait", "work"} : pc' = [pc EXCEPT ![c] = l]
    BY <1>8 DEF StopCheck, PlacesOK
  <2> QED
    BY <1>8, <2>1 DEF StopCheck, HandlerInv, StartInv, NewSection, LiveSections,
       ThreadState, LockInv, SlotInv, OwnSection, RunningInv, Counted, DldrRunning,
       IsDone, IsAllSectionsOk, MayAdd, Back
<1>9. ASSUME NEW c \in Ctl, WorkDone(c) PROVE HandlerInv'
  BY <1>9 DEF WorkDone, HandlerInv, DldrRunning, IsDone
<1>10. ASSUME NEW c \in Ctl, Watchdog(c) PROVE HandlerInv'
  BY <1>10 DEF Watchdog, HandlerInv, DldrRunning, IsDone
<1>11. ASSUME NEW c \in Ctl, WatchdogStopped(c) PROVE HandlerInv'
  BY <1>11 DEF WatchdogStopped, HandlerInv, DldrRunning, IsDone
<1>12. ASSUME NEW c \in Ctl, LaunchOneMoreSection(c) PROVE HandlerInv'
  <2>1. PICK s \in 1..n, t \in Thread :
            /\ state[s] = "STOPPED" /\ pc[t] = "none"
            /\ pc' = [pc EXCEPT ![t] = "begin", ![c] = "loop"]
            /\ sect' = [sect EXCEPT ![t] = s]
    BY <1>12 DEF LaunchOneMoreSection, LaunchThread
  <2>2. t # c /\ pc'[t] = "begin"
    BY ZenonT(40), <2>1
  <2>3. t \in Counted' /\ DldrRunning'
    BY <2>2 DEF Counted, RunningInv
  <2>4. UNCHANGED <<csDone, bSectDone>>
    BY <1>12 DEF LaunchOneMoreSection
  <2>5. \A u \in Thread : pc'[u] = pc[u] \/ pc'[u] = "begin"
    BY <2>1
  <2> QED
    BY <2>3, <2>4, <2>5 DEF HandlerInv
<1>13. ASSUME NEW c \in Ctl, StartDownload(c) PROVE HandlerInv'
  <2>1. PICK l \in {"main_open", "result", "start_sect"} : pc' = [pc EXCEPT ![c] = l]
    BY <1>13 DEF StartDownload, PlacesOK
  <2> QED
    BY <1>13, <2>1 DEF StartDownload, HandlerInv, StartInv, NewSection, LiveSections,
       ThreadState, LockInv, SlotInv, OwnSection, RunningInv, Counted, DldrRunning,
       IsDone, IsAllSectionsOk, MayAdd, Back
<1>14. ASSUME NEW c \in Ctl, MainFails(c) PROVE HandlerInv'
  BY <1>14 DEF MainFails, HandlerInv, DldrRunning, IsDone
<1>15. ASSUME NEW c \in Ctl, MainNoFile(c) PROVE HandlerInv'
  BY <1>15 DEF MainNoFile, HandlerInv, DldrRunning, IsDone
<1>16. ASSUME NEW c \in Ctl, MainOpened(c) PROVE HandlerInv'
  BY <1>16 DEF MainOpened, HandlerInv, StartInv, NewSection, LiveSections,
     ThreadState, LockInv, SlotInv, OwnSection, RunningInv, Counted, DldrRunning,
     IsDone, IsAllSectionsOk, MayAdd, Back
<1>17. ASSUME NEW c \in Ctl, MainLaunch(c) PROVE HandlerInv'
  <2>1. PICK t \in Thread :
            /\ pc[t] = "none"
            /\ pc' = [pc EXCEPT ![t] = "begin", ![c] = "result"]
            /\ sect' = [sect EXCEPT ![t] = 1]
    BY <1>17 DEF MainLaunch, LaunchThread
  <2>2. t # c /\ pc'[t] = "begin"
    BY SMTT(60), <2>1
  <2>3. t \in Counted' /\ DldrRunning'
    BY <2>2 DEF Counted, RunningInv
  <2>4. UNCHANGED <<csDone, bSectDone>>
    BY <1>17 DEF MainLaunch
  <2>5. \A u \in Thread : pc'[u] = pc[u] \/ pc'[u] = "begin"
    BY <2>1
  <2> QED
    BY <2>3, <2>4, <2>5 DEF HandlerInv
<1>18. ASSUME NEW c \in Ctl, StartSkip(c) PROVE HandlerInv'
  BY <1>18 DEF StartSkip, HandlerInv, DldrRunning, IsDone
<1>19. ASSUME NEW c \in Ctl, StartSection(c) PROVE HandlerInv'
  <2>1. PICK t \in Thread :
            /\ pc[t] = "none"
            /\ pc' = [pc EXCEPT ![t] = "begin", ![c] = "start_sect"]
            /\ sect' = [sect EXCEPT ![t] = i]
    BY <1>19 DEF StartSection, LaunchThread
  <2>2. t # c /\ pc'[t] = "begin"
    BY ZenonT(40), <2>1
  <2>3. t \in Counted' /\ DldrRunning'
    BY <2>2 DEF Counted, RunningInv
  <2>4. UNCHANGED <<csDone, bSectDone>>
    BY <1>19 DEF StartSection
  <2>5. \A u \in Thread : pc'[u] = pc[u] \/ pc'[u] = "begin"
    BY SMTT(30), <2>1
  <2> QED
    BY <2>3, <2>4, <2>5 DEF HandlerInv
<1>20. ASSUME NEW c \in Ctl, StartNoFile(c) PROVE HandlerInv'
  BY <1>20 DEF StartNoFile, HandlerInv, DldrRunning, IsDone
<1>21. ASSUME NEW c \in Ctl, StartOpenFails(c) PROVE HandlerInv'
  <2>1. UNCHANGED <<cRunning, n, state, csDone, bSectDone>>
    BY <1>21 DEF StartOpenFails
  <2>2. pc[c] = "start_sect" /\ (pc' = pc \/ pc' = [pc EXCEPT ![c] = "result"])
    BY <1>21 DEF StartOpenFails
  <2>3. /\ \A t \in Thread : pc'[t] = pc[t]
        /\ \A d \in Ctl : pc[d] = "add_launch" => pc'[d] = "add_launch"
    BY <2>2
  <2> QED
    BY <2>1, <2>3 DEF HandlerInv, DldrRunning, IsDone
<1>22. ASSUME NEW c \in Ctl, StartAfresh(c) PROVE HandlerInv'
  BY <1>22 DEF StartAfresh, HandlerInv, DldrRunning, IsDone
<1>23. ASSUME NEW c \in Ctl, StartReturns(c) PROVE HandlerInv'
  BY <1>23 DEF StartReturns, HandlerInv, DldrRunning, IsDone
<1>24. ASSUME NEW c \in Ctl, StartResult(c) PROVE HandlerInv'
  BY <1>24 DEF StartResult, HandlerInv, DldrRunning, IsDone
<1>25. ASSUME NEW c \in Ctl, StartTests(c) PROVE HandlerInv'
  BY <1>25 DEF StartTests, HandlerInv, DldrRunning, IsDone
<1>26. ASSUME NEW c \in Ctl, SetDownloading(c) PROVE HandlerInv'
  BY <1>26 DEF SetDownloading, HandlerInv, DldrRunning, IsDone
<1>27. ASSUME NEW c \in Ctl, SleepInterval(c) PROVE HandlerInv'
  <2>1. PICK l \in {"after", "start"} : pc' = [pc EXCEPT ![c] = l]
    BY <1>27 DEF SleepInterval, PlacesOK
  <2> QED
    BY <1>27, <2>1 DEF SleepInterval, HandlerInv, StartInv, NewSection, LiveSections,
       ThreadState, LockInv, SlotInv, OwnSection, RunningInv, Counted, DldrRunning,
       IsDone, IsAllSectionsOk, MayAdd, Back
<1>28. ASSUME NEW c \in Ctl, AfterStart(c) PROVE HandlerInv'
  BY <1>28 DEF AfterStart, HandlerInv, DldrRunning, IsDone
<1>29. ASSUME NEW c \in Ctl, LoopEnds(c) PROVE HandlerInv'
  BY <1>29 DEF LoopEnds, HandlerInv, DldrRunning, IsDone
<1>30. ASSUME NEW c \in Ctl, FatalError(c) PROVE HandlerInv'
  BY <1>30 DEF FatalError, HandlerInv, DldrRunning, IsDone
<1>31. ASSUME NEW c \in Ctl, Stopped(c) PROVE HandlerInv'
  BY <1>31 DEF Stopped, HandlerInv, DldrRunning, IsDone
<1>32. ASSUME NEW c \in Ctl, Close(c) PROVE HandlerInv'
  BY <1>32 DEF Close, HandlerInv, DldrRunning, IsDone
<1>33. ASSUME NEW c \in Ctl, ThreadEnds(c) PROVE HandlerInv'
  BY <1>33 DEF ThreadEnds, HandlerInv, DldrRunning, IsDone
<1>34. ASSUME NEW c \in Ctl, StoppedOrDone(c) PROVE HandlerInv'
  BY <1>34 DEF StoppedOrDone, HandlerInv, DldrRunning, IsDone
<1>35. ASSUME NEW t \in Thread, ThreadBegin(t) PROVE HandlerInv'
  BY <1>35 DEF ThreadBegin, HandlerInv, StartInv, NewSection, LiveSections,
     ThreadState, LockInv, SlotInv, OwnSection, RunningInv, Counted, DldrRunning,
     IsDone, IsAllSectionsOk, MayAdd, Back
<1>36. ASSUME NEW t \in Thread, SectionEnds(t) PROVE HandlerInv'
  BY <1>36 DEF SectionEnds, HandlerInv, StartInv, NewSection, LiveSections,
     ThreadState, LockInv, SlotInv, OwnSection, RunningInv, Counted, DldrRunning,
     IsDone, IsAllSectionsOk, MayAdd, Back
<1>37. ASSUME NEW t \in Thread, Leave(t) PROVE HandlerInv'
  BY <1>37 DEF Leave, HandlerInv, DldrRunning, IsDone
<1>38. ASSUME NEW t \in Thread, SectionDone(t) PROVE HandlerInv'
  <2>1. UNCHANGED <<cRunning, n, state, csDone, bSectDone>> /\ csDone = t
    BY <1>38 DEF SectionDone, LockInv
  <2>2. ASSUME pc'[t] = "done_add", ~IsDone PROVE DldrRunning
    <3>1. IsAllSectionsOk /\ sect[t] \in 1..n /\ state[sect[t]] = "DONE"
      BY <1>38, <2>1, <2>2 DEF SectionDone, OwnSection, HandlerInv, ThreadState
    <3>2. PICK s \in 1..n : state[s] = "DOWNLOADING"
      BY <2>2, <3>1 DEF IsDone, IsAllSectionsOk
    <3>3. PICK u \in Thread : pc[u] # "none" /\ sect[u] = s
      BY <3>2 DEF LiveSections
    <3>4. u # t /\ pc[u] \notin HandlerPC
      BY <2>1, <3>1, <3>2, <3>3 DEF LockInv
    <3>5. u \in Counted
      BY <2>1, <3>3, <3>4 DEF Counted
    <3> QED
      BY <3>5 DEF RunningInv
  <2>3. /\ pc'[t] \in {"done_close", "done_add", "stop_event"}
        /\ \A u \in Thread \ {t} : csDone # u
    BY <1>38, <2>1 DEF SectionDone
  <2> QED
    BY <2>1, <2>2, <2>3 DEF HandlerInv, DldrRunning, IsDone
<1>39. ASSUME NEW t \in Thread, NotAdded(t) PROVE HandlerInv'
  BY <1>39 DEF NotAdded, HandlerInv, DldrRunning, IsDone
<1>40. ASSUME NEW t \in Thread, OnDone(t) PROVE HandlerInv'
  BY <1>40 DEF OnDone, HandlerInv, DldrRunning, IsDone
<1>41. ASSUME NEW t \in Thread, SetDone(t) PROVE HandlerInv'
  BY <1>41 DEF SetDone, HandlerInv, DldrRunning, IsDone
<1>42. ASSUME NEW t \in Thread, OnSectionStopped(t) PROVE HandlerInv'
  BY <1>42 DEF OnSectionStopped, HandlerInv, DldrRunning, IsDone
<1>43. ASSUME NEW t \in Thread, ClearDownloading(t) PROVE HandlerInv'
  BY <1>43 DEF ClearDownloading, HandlerInv, DldrRunning, IsDone
<1>44. ASSUME NEW t \in Thread, AnnounceRestart(t) PROVE HandlerInv'
  BY <1>44 DEF AnnounceRestart, HandlerInv, DldrRunning, IsDone
<1>45. ASSUME NEW t \in Thread, SetNeedStart(t) PROVE HandlerInv'
  BY <1>45 DEF SetNeedStart, HandlerInv, DldrRunning, IsDone
<1>46. ASSUME NEW t \in Thread, SetNeedStop(t) PROVE HandlerInv'
  BY <1>46 DEF SetNeedStop, HandlerInv, DldrRunning, IsDone
<1>47. ASSUME NEW t \in Thread, ThreadExit(t) PROVE HandlerInv'
  BY <1>47 DEF ThreadExit, HandlerInv, DldrRunning, IsDone
<1>48. ASSUME NEW a \in Thread \cup Ctl, AddRefused(a) PROVE HandlerInv'
  BY <1>48 DEF AddRefused, HandlerInv, StartInv, NewSection, LiveSections,
     ThreadState, LockInv, SlotInv, OwnSection, RunningInv, Counted, DldrRunning,
     IsDone, IsAllSectionsOk, MayAdd, Back
<1>49. ASSUME NEW a \in Thread \cup Ctl, AddSection(a) PROVE HandlerInv'
  <2>1. UNCHANGED <<cRunning, n, state, csDone, bSectDone>>
    BY <1>49 DEF AddSection
  <2>2. pc'[a] = "add_open" /\ \A b \in Actor \ {a} : pc'[b] = pc[b]
    BY <1>49 DEF AddSection
  <2>3. \A b \in Actor : pc[b] # "add_launch"
    BY <1>49 DEF AddSection, LockInv
  <2>4. csDone = a /\ a \in Thread => DldrRunning \/ IsDone
    BY <1>49, <2>3 DEF AddSection, MayAdd, HandlerInv, LockInv
  <2> QED
    BY ZenonT(40), <2>1, <2>2, <2>3, <2>4 DEF HandlerInv, DldrRunning, IsDone
<1>50. ASSUME NEW a \in Thread \cup Ctl, AddFails(a) PROVE HandlerInv'
  BY <1>50 DEF AddFails, HandlerInv, StartInv, NewSection, LiveSections, ThreadState,
     LockInv, SlotInv, OwnSection, RunningInv, Counted, DldrRunning, IsDone,
     IsAllSectionsOk, MayAdd, Back
<1>51. ASSUME NEW a \in Thread \cup Ctl, AddOpened(a) PROVE HandlerInv'
  BY <1>51 DEF AddOpened, HandlerInv, DldrRunning, IsDone
<1>52. ASSUME NEW a \in Thread \cup Ctl, AddInsert(a) PROVE HandlerInv'
  <2>1. UNCHANGED <<cRunning, csDone, bSectDone>> /\ csAdd = a
    BY <1>52 DEF AddInsert, LockInv
  <2>2. /\ pc'[a] = "add_launch"
        /\ \A u \in Thread \ {a} : pc'[u] = pc[u] /\ pc[u] \notin AddPC
    BY <1>52, <2>1 DEF AddInsert, LockInv
  <2>3. a \in Thread => DldrRunning
    BY <1>52 DEF AddInsert, HandlerInv, RunningInv, Counted
  <2> QED
    BY <2>1, <2>2, <2>3 DEF HandlerInv, DldrRunning
<1>53. ASSUME NEW a \in Thread \cup Ctl, AddLaunch(a) PROVE HandlerInv'
  <2>1. PICK t \in Thread :
            /\ pc[t] = "none"
            /\ pc' = [pc EXCEPT ![t] = "begin", ![a] = Back(a)]
            /\ sect' = [sect EXCEPT ![t] = n]
    BY <1>53 DEF AddLaunch, LaunchThread
  <2> QED
    BY ZenonT(40), <1>53, <2>1 DEF AddLaunch, HandlerInv, StartInv, NewSection, LiveSections,
       ThreadState, LockInv, SlotInv, OwnSection, RunningInv, Counted, DldrRunning,
       IsDone, IsAllSectionsOk, MayAdd, Back
<1> QED
  BY <1>1, <1>2, <1>3, <1>4, <1>5, <1>6, <1>7, <1>8, <1>9, <1>10, <1>11, <1>12,
     <1>13, <1>14, <1>15, <1>16, <1>17, <1>18, <1>19, <1>20, <1>21, <1>22, <1>23,
     <1>24, <1>25, <1>26, <1>27, <1>28, <1>29, <1>30, <1>31, <1>32, <1>33, <1>34,
     <1>35, <1>36, <1>37, <1>38, <1>39, <1>40, <1>41, <1>42, <1>43, <1>44, <1>45,
     <1>46, <1>47, <1>48, <1>49, <1>50, <1>51, <1>52, <1>53
  DEF Step, CallerSteps, ControlSteps, StartSteps, EndSteps, SectionSteps, AddSteps

\* The start of the sections begins when no thread is counted, and forbids
\* new sections until its end.
LEMMA Starts ==
  ASSUME Good, Step, OwnSection', HandlerInv, StartInv
  PROVE  StartInv'
<1> USE DEF PlacesOK, FlagsOK, ListTypeOK, SectId, Actor, Thread, ThreadPC,
    HandlerPC, CtlPC, AddPC, LoopPC, StartPC, CallerPC, MgrAssumption, SectionState,
    Good
<1>1. ASSUME NEW p \in Caller, StartCall(p) PROVE StartInv'
  BY <1>1 DEF StartCall, StartInv, OneControl, Controls
<1>2. ASSUME NEW p \in Caller, Launch(p) PROVE StartInv'
  <2>1. PICK c \in Ctl : pc[c] = "none" /\ pc' = [pc EXCEPT ![p] = "idle",
  ![c] = "starting"]
    BY <1>2 DEF Launch
  <2> QED
    BY ZenonT(40), <1>2, <2>1 DEF Launch, StartInv, HandlerInv, RunningInv, OneControl, Controls,
       Counted, LockInv, MayAdd, Back
<1>3. ASSUME NEW p \in Caller, StopCall(p) PROVE StartInv'
  BY <1>3 DEF StopCall, StartInv, OneControl, Controls
<1>4. ASSUME NEW p \in Caller, StopDldr(p) PROVE StartInv'
  BY <1>4 DEF StopDldr, StartInv, OneControl, Controls
<1>5. ASSUME NEW c \in Ctl, ThreadStarts(c) PROVE StartInv'
  <2>1. PICK l \in {"loop", "ending"} : pc' = [pc EXCEPT ![c] = l]
    BY <1>5 DEF ThreadStarts, PlacesOK
  <2> QED
    BY <1>5, <2>1 DEF ThreadStarts, StartInv, HandlerInv, RunningInv, OneControl,
       Controls, Counted, LockInv, MayAdd, Back
<1>6. ASSUME NEW c \in Ctl, LoopNeedStart(c) PROVE StartInv'
  BY <1>6 DEF LoopNeedStart, StartInv, OneControl, Controls
<1>7. ASSUME NEW c \in Ctl, LoopRuns(c) PROVE StartInv'
  BY <1>7 DEF LoopRuns, StartInv, OneControl, Controls
<1>8. ASSUME NEW c \in Ctl, StopCheck(c) PROVE StartInv'
  <2>1. PICK l \in {"stopwait", "work"} : pc' = [pc EXCEPT ![c] = l]
    BY <1>8 DEF StopCheck, PlacesOK
  <2> QED
    BY <1>8, <2>1 DEF StopCheck, StartInv, HandlerInv, RunningInv, OneControl,
       Controls, Counted, LockInv, MayAdd, Back
<1>9. ASSUME NEW c \in Ctl, WorkDone(c) PROVE StartInv'
  BY <1>9 DEF WorkDone, StartInv, OneControl, Controls
<1>10. ASSUME NEW c \in Ctl, Watchdog(c) PROVE StartInv'
  BY <1>10 DEF Watchdog, StartInv, OneControl, Controls
<1>11. ASSUME NEW c \in Ctl, WatchdogStopped(c) PROVE StartInv'
  BY <1>11 DEF WatchdogStopped, StartInv, OneControl, Controls
<1>12. ASSUME NEW c \in Ctl, LaunchOneMoreSection(c) PROVE StartInv'
  <2>1. PICK s \in 1..n, t \in Thread :
            /\ state[s] = "STOPPED" /\ pc[t] = "none"
            /\ pc' = [pc EXCEPT ![t] = "begin", ![c] = "loop"]
            /\ sect' = [sect EXCEPT ![t] = s]
    BY <1>12 DEF LaunchOneMoreSection, LaunchThread
  <2> QED
    BY ZenonT(40), <1>12, <2>1 DEF LaunchOneMoreSection, StartInv, HandlerInv, RunningInv,
       OneControl, Controls, Counted, LockInv, MayAdd, Back
<1>13. ASSUME NEW c \in Ctl, StartDownload(c) PROVE StartInv'
  <2>1. PICK l \in {"main_open", "result", "start_sect"} : pc' = [pc EXCEPT ![c] = l]
    BY <1>13 DEF StartDownload
  <2>2. \A a \in Actor \ {c} : pc'[a] = pc[a]
    BY <2>1
  <2>3. \A a \in Ctl : pc[a] \in LoopPC => a = c
    BY <1>13 DEF StartDownload, OneControl, Controls
  <2>4. CASE l = "start_sect"
    <3>1. ~DldrRunning /\ ~IsDone /\ bNoNew'
      BY <1>13, <2>1, <2>4 DEF StartDownload
    <3>2. \A a \in Thread : pc[a] \notin AddPC
      BY <3>1 DEF HandlerInv, RunningInv, Counted
    <3>3. \A a \in Actor \ {c} : pc[a] \notin AddPC \cup {"start_sect"}
      BY <2>3, <3>2
    <3> QED
      BY <2>1, <2>2, <2>4, <3>1, <3>3 DEF StartInv
  <2>5. CASE l # "start_sect"
    BY <2>1, <2>2, <2>3, <2>5 DEF StartInv
  <2> QED
    BY <2>1, <2>4, <2>5
<1>14. ASSUME NEW c \in Ctl, MainFails(c) PROVE StartInv'
  BY <1>14 DEF MainFails, StartInv, OneControl, Controls
<1>15. ASSUME NEW c \in Ctl, MainNoFile(c) PROVE StartInv'
  BY <1>15 DEF MainNoFile, StartInv, OneControl, Controls
<1>16. ASSUME NEW c \in Ctl, MainOpened(c) PROVE StartInv'
  BY <1>16 DEF MainOpened, StartInv, OneControl, Controls
<1>17. ASSUME NEW c \in Ctl, MainLaunch(c) PROVE StartInv'
  <2>1. PICK t \in Thread :
            /\ pc[t] = "none"
            /\ pc' = [pc EXCEPT ![t] = "begin", ![c] = "result"]
            /\ sect' = [sect EXCEPT ![t] = 1]
    BY <1>17 DEF MainLaunch, LaunchThread
  <2> QED
    BY <1>17, <2>1 DEF MainLaunch, StartInv, HandlerInv, RunningInv, OneControl,
       Controls, Counted, LockInv, MayAdd, Back
<1>18. ASSUME NEW c \in Ctl, StartSkip(c) PROVE StartInv'
  BY <1>18 DEF StartSkip, StartInv, OneControl, Controls
<1>19. ASSUME NEW c \in Ctl, StartSection(c) PROVE StartInv'
  <2>1. PICK t \in Thread :
            /\ pc[t] = "none"
            /\ pc' = [pc EXCEPT ![t] = "begin", ![c] = "start_sect"]
            /\ sect' = [sect EXCEPT ![t] = i]
    BY <1>19 DEF StartSection, LaunchThread
  <2> QED
    BY <1>19, <2>1 DEF StartSection, StartInv, HandlerInv, RunningInv, OneControl,
       Controls, Counted, LockInv, MayAdd, Back
<1>20. ASSUME NEW c \in Ctl, StartNoFile(c) PROVE StartInv'
  BY <1>20 DEF StartNoFile, StartInv, OneControl, Controls
<1>21. ASSUME NEW c \in Ctl, StartOpenFails(c) PROVE StartInv'
  <2>1. \A b \in Actor :
          pc'[b] = pc[b] \/ (b = c /\ pc[b] = "start_sect" /\ pc'[b] = "result")
    <3>1. pc[c] = "start_sect" /\ (pc' = pc \/ pc' = [pc EXCEPT ![c] = "result"])
      BY <1>21 DEF StartOpenFails
    <3> QED
      BY <3>1
  <2> QED
    BY <1>21, <2>1 DEF StartOpenFails, StartInv, HandlerInv, RunningInv, OneControl,
       Controls, Counted, LockInv, MayAdd, Back
<1>22. ASSUME NEW c \in Ctl, StartAfresh(c) PROVE StartInv'
  BY <1>22 DEF StartAfresh, StartInv, OneControl, Controls
<1>23. ASSUME NEW c \in Ctl, StartReturns(c) PROVE StartInv'
  BY <1>23 DEF StartReturns, StartInv, OneControl, Controls
<1>24. ASSUME NEW c \in Ctl, StartResult(c) PROVE StartInv'
  BY <1>24 DEF StartResult, StartInv, OneControl, Controls
<1>25. ASSUME NEW c \in Ctl, StartTests(c) PROVE StartInv'
  BY <1>25 DEF StartTests, StartInv, OneControl, Controls
<1>26. ASSUME NEW c \in Ctl, SetDownloading(c) PROVE StartInv'
  BY <1>26 DEF SetDownloading, StartInv, OneControl, Controls
<1>27. ASSUME NEW c \in Ctl, SleepInterval(c) PROVE StartInv'
  <2>1. PICK l \in {"after", "start"} : pc' = [pc EXCEPT ![c] = l]
    BY <1>27 DEF SleepInterval, PlacesOK
  <2> QED
    BY <1>27, <2>1 DEF SleepInterval, StartInv, HandlerInv, RunningInv, OneControl,
       Controls, Counted, LockInv, MayAdd, Back
<1>28. ASSUME NEW c \in Ctl, AfterStart(c) PROVE StartInv'
  BY <1>28 DEF AfterStart, StartInv, OneControl, Controls
<1>29. ASSUME NEW c \in Ctl, LoopEnds(c) PROVE StartInv'
  BY <1>29 DEF LoopEnds, StartInv, OneControl, Controls
<1>30. ASSUME NEW c \in Ctl, FatalError(c) PROVE StartInv'
  BY <1>30 DEF FatalError, StartInv, OneControl, Controls
<1>31. ASSUME NEW c \in Ctl, Stopped(c) PROVE StartInv'
  BY <1>31 DEF Stopped, StartInv, OneControl, Controls
<1>32. ASSUME NEW c \in Ctl, Close(c) PROVE StartInv'
  BY <1>32 DEF Close, StartInv, OneControl, Controls
<1>33. ASSUME NEW c \in Ctl, ThreadEnds(c) PROVE StartInv'
  BY <1>33 DEF ThreadEnds, StartInv, OneControl, Controls
<1>34. ASSUME NEW c \in Ctl, StoppedOrDone(c) PROVE StartInv'
  BY <1>34 DEF StoppedOrDone, StartInv, OneControl, Controls
<1>35. ASSUME NEW t \in Thread, ThreadBegin(t) PROVE StartInv'
  BY <1>35 DEF ThreadBegin, StartInv, OneControl, Controls
<1>36. ASSUME NEW t \in Thread, SectionEnds(t) PROVE StartInv'
  BY <1>36 DEF SectionEnds, StartInv, OneControl, Controls
<1>37. ASSUME NEW t \in Thread, Leave(t) PROVE StartInv'
  BY <1>37 DEF Leave, StartInv, OneControl, Controls
<1>38. ASSUME NEW t \in Thread, SectionDone(t) PROVE StartInv'
  BY <1>38 DEF SectionDone, StartInv, OneControl, Controls
<1>39. ASSUME NEW t \in Thread, NotAdded(t) PROVE StartInv'
  BY <1>39 DEF NotAdded, StartInv, OneControl, Controls
<1>40. ASSUME NEW t \in Thread, OnDone(t) PROVE StartInv'
  BY <1>40 DEF OnDone, StartInv, OneControl, Controls
<1>41. ASSUME NEW t \in Thread, SetDone(t) PROVE StartInv'
  BY <1>41 DEF SetDone, StartInv, OneControl, Controls
<1>42. ASSUME NEW t \in Thread, OnSectionStopped(t) PROVE StartInv'
  BY <1>42 DEF OnSectionStopped, StartInv, OneControl, Controls
<1>43. ASSUME NEW t \in Thread, ClearDownloading(t) PROVE StartInv'
  BY <1>43 DEF ClearDownloading, StartInv, OneControl, Controls
<1>44. ASSUME NEW t \in Thread, AnnounceRestart(t) PROVE StartInv'
  BY <1>44 DEF AnnounceRestart, StartInv, OneControl, Controls
<1>45. ASSUME NEW t \in Thread, SetNeedStart(t) PROVE StartInv'
  BY <1>45 DEF SetNeedStart, StartInv, OneControl, Controls
<1>46. ASSUME NEW t \in Thread, SetNeedStop(t) PROVE StartInv'
  BY <1>46 DEF SetNeedStop, StartInv, OneControl, Controls
<1>47. ASSUME NEW t \in Thread, ThreadExit(t) PROVE StartInv'
  BY <1>47 DEF ThreadExit, StartInv, OneControl, Controls
<1>48. ASSUME NEW a \in Thread \cup Ctl, AddRefused(a) PROVE StartInv'
  BY <1>48 DEF AddRefused, StartInv, HandlerInv, RunningInv, OneControl, Controls,
     Counted, LockInv, MayAdd, Back
<1>49. ASSUME NEW a \in Thread \cup Ctl, AddSection(a) PROVE StartInv'
  BY <1>49 DEF AddSection, StartInv, OneControl, Controls
<1>50. ASSUME NEW a \in Thread \cup Ctl, AddFails(a) PROVE StartInv'
  BY <1>50 DEF AddFails, StartInv, HandlerInv, RunningInv, OneControl, Controls,
     Counted, LockInv, MayAdd, Back
<1>51. ASSUME NEW a \in Thread \cup Ctl, AddOpened(a) PROVE StartInv'
  BY <1>51 DEF AddOpened, StartInv, OneControl, Controls
<1>52. ASSUME NEW a \in Thread \cup Ctl, AddInsert(a) PROVE StartInv'
  BY <1>52 DEF AddInsert, StartInv, OneControl, Controls
<1>53. ASSUME NEW a \in Thread \cup Ctl, AddLaunch(a) PROVE StartInv'
  <2>1. PICK t \in Thread :
            /\ pc[t] = "none"
            /\ pc' = [pc EXCEPT ![t] = "begin", ![a] = Back(a)]
            /\ sect' = [sect EXCEPT ![t] = n]
    BY <1>53 DEF AddLaunch, LaunchThread
  <2>2. \A c \in Ctl : pc[c] # "start_sect" BY <1>53 DEF AddLaunch, StartInv
  <2>3. \A c \in Ctl : pc'[c] # "start_sect" BY <2>1, <2>2 DEF Back
  <2> QED BY <2>3 DEF StartInv
<1> QED
  BY <1>1, <1>2, <1>3, <1>4, <1>5, <1>6, <1>7, <1>8, <1>9, <1>10, <1>11, <1>12,
     <1>13, <1>14, <1>15, <1>16, <1>17, <1>18, <1>19, <1>20, <1>21, <1>22, <1>23,
     <1>24, <1>25, <1>26, <1>27, <1>28, <1>29, <1>30, <1>31, <1>32, <1>33, <1>34,
     <1>35, <1>36, <1>37, <1>38, <1>39, <1>40, <1>41, <1>42, <1>43, <1>44, <1>45,
     <1>46, <1>47, <1>48, <1>49, <1>50, <1>51, <1>52, <1>53
  DEF Step, CallerSteps, ControlSteps, StartSteps, EndSteps, SectionSteps, AddSteps

\* No step undoes a complete section: threads write to their own sections,
\* which are not complete.
LEMMA DoneStep ==
  ASSUME Good, ThreadState, Step
  PROVE  DoneKept
<1> USE DEF PlacesOK, FlagsOK, ListTypeOK, SectId, Actor, Thread, ThreadPC,
    HandlerPC, CtlPC, AddPC, LoopPC, StartPC, CallerPC, MgrAssumption, SectionState,
    Good
<1>1. ASSUME NEW p \in Caller, StartCall(p) PROVE DoneKept
  BY <1>1 DEF StartCall, DoneKept
<1>2. ASSUME NEW p \in Caller, Launch(p) PROVE DoneKept
  BY <1>2 DEF Launch, DoneKept
<1>3. ASSUME NEW p \in Caller, StopCall(p) PROVE DoneKept
  BY <1>3 DEF StopCall, DoneKept
<1>4. ASSUME NEW p \in Caller, StopDldr(p) PROVE DoneKept
  BY <1>4 DEF StopDldr, DoneKept
<1>5. ASSUME NEW c \in Ctl, ThreadStarts(c) PROVE DoneKept
  BY <1>5 DEF ThreadStarts, DoneKept
<1>6. ASSUME NEW c \in Ctl, LoopNeedStart(c) PROVE DoneKept
  BY <1>6 DEF LoopNeedStart, DoneKept
<1>7. ASSUME NEW c \in Ctl, LoopRuns(c) PROVE DoneKept
  BY <1>7 DEF LoopRuns, DoneKept
<1>8. ASSUME NEW c \in Ctl, StopCheck(c) PROVE DoneKept
  BY <1>8 DEF StopCheck, DoneKept
<1>9. ASSUME NEW c \in Ctl, WorkDone(c) PROVE DoneKept
  BY <1>9 DEF WorkDone, DoneKept
<1>10. ASSUME NEW c \in Ctl, Watchdog(c) PROVE DoneKept
  BY <1>10 DEF Watchdog, DoneKept
<1>11. ASSUME NEW c \in Ctl, WatchdogStopped(c) PROVE DoneKept
  BY <1>11 DEF WatchdogStopped, DoneKept
<1>12. ASSUME NEW c \in Ctl, LaunchOneMoreSection(c) PROVE DoneKept
  BY <1>12 DEF LaunchOneMoreSection, DoneKept
<1>13. ASSUME NEW c \in Ctl, StartDownload(c) PROVE DoneKept
  BY <1>13 DEF StartDownload, DoneKept
<1>14. ASSUME NEW c \in Ctl, MainFails(c) PROVE DoneKept
  BY <1>14 DEF MainFails, DoneKept
<1>15. ASSUME NEW c \in Ctl, MainNoFile(c) PROVE DoneKept
  BY <1>15 DEF MainNoFile, DoneKept
<1>16. ASSUME NEW c \in Ctl, MainOpened(c) PROVE DoneKept
  BY <1>16 DEF MainOpened, DoneKept, ThreadState, SlotInv, LockInv, OwnSection
<1>17. ASSUME NEW c \in Ctl, MainLaunch(c) PROVE DoneKept
  BY <1>17 DEF MainLaunch, DoneKept
<1>18. ASSUME NEW c \in Ctl, StartSkip(c) PROVE DoneKept
  BY <1>18 DEF StartSkip, DoneKept
<1>19. ASSUME NEW c \in Ctl, StartSection(c) PROVE DoneKept
  BY <1>19 DEF StartSection, DoneKept
<1>20. ASSUME NEW c \in Ctl, StartNoFile(c) PROVE DoneKept
  BY <1>20 DEF StartNoFile, DoneKept
<1>21. ASSUME NEW c \in Ctl, StartOpenFails(c) PROVE DoneKept
  BY <1>21 DEF StartOpenFails, DoneKept
<1>22. ASSUME NEW c \in Ctl, StartAfresh(c) PROVE DoneKept
  BY <1>22 DEF StartAfresh, DoneKept
<1>23. ASSUME NEW c \in Ctl, StartReturns(c) PROVE DoneKept
  BY <1>23 DEF StartReturns, DoneKept
<1>24. ASSUME NEW c \in Ctl, StartResult(c) PROVE DoneKept
  BY <1>24 DEF StartResult, DoneKept
<1>25. ASSUME NEW c \in Ctl, StartTests(c) PROVE DoneKept
  BY <1>25 DEF StartTests, DoneKept
<1>26. ASSUME NEW c \in Ctl, SetDownloading(c) PROVE DoneKept
  BY <1>26 DEF SetDownloading, DoneKept
<1>27. ASSUME NEW c \in Ctl, SleepInterval(c) PROVE DoneKept
  BY <1>27 DEF SleepInterval, DoneKept
<1>28. ASSUME NEW c \in Ctl, AfterStart(c) PROVE DoneKept
  BY <1>28 DEF AfterStart, DoneKept
<1>29. ASSUME NEW c \in Ctl, LoopEnds(c) PROVE DoneKept
  BY <1>29 DEF LoopEnds, DoneKept
<1>30. ASSUME NEW c \in Ctl, FatalError(c) PROVE DoneKept
  BY <1>30 DEF FatalError, DoneKept
<1>31. ASSUME NEW c \in Ctl, Stopped(c) PROVE DoneKept
  BY <1>31 DEF Stopped, DoneKept
<1>32. ASSUME NEW c \in Ctl, Close(c) PROVE DoneKept
  BY <1>32 DEF Close, DoneKept
<1>33. ASSUME NEW c \in Ctl, ThreadEnds(c) PROVE DoneKept
  BY <1>33 DEF ThreadEnds, DoneKept
<1>34. ASSUME NEW c \in Ctl, StoppedOrDone(c) PROVE DoneKept
  BY <1>34 DEF StoppedOrDone, DoneKept
<1>35. ASSUME NEW t \in Thread, ThreadBegin(t) PROVE DoneKept
  BY <1>35 DEF ThreadBegin, DoneKept, ThreadState, SlotInv, LockInv, OwnSection
<1>36. ASSUME NEW t \in Thread, SectionEnds(t) PROVE DoneKept
  BY <1>36 DEF SectionEnds, DoneKept, ThreadState, SlotInv, LockInv, OwnSection
<1>37. ASSUME NEW t \in Thread, Leave(t) PROVE DoneKept
  BY <1>37 DEF Leave, DoneKept
<1>38. ASSUME NEW t \in Thread, SectionDone(t) PROVE DoneKept
  BY <1>38 DEF SectionDone, DoneKept
<1>39. ASSUME NEW t \in Thread, NotAdded(t) PROVE DoneKept
  BY <1>39 DEF NotAdded, DoneKept
<1>40. ASSUME NEW t \in Thread, OnDone(t) PROVE DoneKept
  BY <1>40 DEF OnDone, DoneKept
<1>41. ASSUME NEW t \in Thread, SetDone(t) PROVE DoneKept
  BY <1>41 DEF SetDone, DoneKept
<1>42. ASSUME NEW t \in Thread, OnSectionStopped(t) PROVE DoneKept
  BY <1>42 DEF OnSectionStopped, DoneKept
<1>43. ASSUME NEW t \in Thread, ClearDownloading(t) PROVE DoneKept
  BY <1>43 DEF ClearDownloading, DoneKept
<1>44. ASSUME NEW t \in Thread, AnnounceRestart(t) PROVE DoneKept
  BY <1>44 DEF AnnounceRestart, DoneKept
<1>45. ASSUME NEW t \in Thread, SetNeedStart(t) PROVE DoneKept
  BY <1>45 DEF SetNeedStart, DoneKept
<1>46. ASSUME NEW t \in Thread, SetNeedStop(t) PROVE DoneKept
  BY <1>46 DEF SetNeedStop, DoneKept
<1>47. ASSUME NEW t \in Thread, ThreadExit(t) PROVE DoneKept
  BY <1>47 DEF ThreadExit, DoneKept, ThreadState, SlotInv, LockInv, OwnSection
<1>48. ASSUME NEW a \in Thread \cup Ctl, AddRefused(a) PROVE DoneKept
  BY <1>48 DEF AddRefused, DoneKept
<1>49. ASSUME NEW a \in Thread \cup Ctl, AddSection(a) PROVE DoneKept
  BY <1>49 DEF AddSection, DoneKept
<1>50. ASSUME NEW a \in Thread \cup Ctl, AddFails(a) PROVE DoneKept
  BY <1>50 DEF AddFails, DoneKept
<1>51. ASSUME NEW a \in Thread \cup Ctl, AddOpened(a) PROVE DoneKept
  BY <1>51 DEF AddOpened, DoneKept
<1>52. ASSUME NEW a \in Thread \cup Ctl, AddInsert(a) PROVE DoneKept
  BY <1>52 DEF AddInsert, DoneKept
<1>53. ASSUME NEW a \in Thread \cup Ctl, AddLaunch(a) PROVE DoneKept
  BY <1>53 DEF AddLaunch, DoneKept
<1> QED
  BY <1>1, <1>2, <1>3, <1>4, <1>5, <1>6, <1>7, <1>8, <1>9, <1>10, <1>11, <1>12,
     <1>13, <1>14, <1>15, <1>16, <1>17, <1>18, <1>19, <1>20, <1>21, <1>22, <1>23,
     <1>24, <1>25, <1>26, <1>27, <1>28, <1>29, <1>30, <1>31, <1>32, <1>33, <1>34,
     <1>35, <1>36, <1>37, <1>38, <1>39, <1>40, <1>41, <1>42, <1>43, <1>44, <1>45,
     <1>46, <1>47, <1>48, <1>49, <1>50, <1>51, <1>52, <1>53
  DEF Step, CallerSteps, ControlSteps, StartSteps, EndSteps, SectionSteps, AddSteps
-----------------------------------------------------------------------------
(* The theorems.                                                           *)

\* The invariant holds when the program starts.
LEMMA InitInv == Init => MgrInv
<1> SUFFICES ASSUME Init PROVE MgrInv
  OBVIOUS
<1> USE MgrAssumption
<1>1. /\ pc \in [Actor -> {"idle", "none"}]
      /\ \A a \in Actor : pc[a] = "idle" <=> a \in Caller
  BY DEF Init
<1>2. (\A t \in Thread : pc[t] = "none") /\ (\A c \in Ctl : pc[c] = "none")
  BY <1>1 DEF Actor, MgrAssumption
<1>3. PlacesOK
  BY <1>1, <1>2 DEF PlacesOK, ThreadPC, CtlPC, CallerPC, Actor
<1>4. TypeOK
  <2>1. FlagsOK
    BY DEF Init, FlagsOK
  <2>2. DataOK
    BY DEF Init, DataOK, Flag, Result, SectionState, SectId, MgrAssumption
  <2> QED
    BY <1>3, <2>1, <2>2 DEF Init, TypeOK, DataOK
<1>5. ControlInv
  BY <1>1, <1>2 DEF Init, ControlInv, OneControl, Controls, LoopPC, StartPC, AddPC, Actor
<1>6. LockInv /\ SlotInv
  BY <1>1, <1>2 DEF Init, LockInv, SlotInv, AddPC, HandlerPC, MgrAssumption, Actor
<1>7. Counted = {}
  BY <1>2 DEF Counted, AddPC
<1>8. CountInv
  BY <1>7, FS_EmptySet DEF Init, CountInv
<1>9. Overlap \subseteq odd
  <2>1. ~Two /\ ~Late /\ ~Gone /\ ~Twice
    BY <1>1, <1>2 DEF Two, Late, Gone, Twice, Actor, Init
  <2>2. ~Early /\ ~Again /\ ~Stopping /\ ~AddedDone
    BY <1>2 DEF Early, Again, Stopping, AddedDone, IsDone, Init, StartPC
  <2> QED
    BY <2>1, <2>2 DEF Overlap
<1>10. SectInv
  <2>1. \A t \in Thread : pc[t] = "none" /\ csDone # t
    BY <1>2 DEF Init, MgrAssumption, Actor
  <2>2. HasSection /\ ThreadState /\ HandlerInv
    BY <2>1 DEF HasSection, ThreadState, HandlerInv, AddPC
  <2>3. NewSection /\ StartInv
    BY <1>1, <1>2 DEF NewSection, StartInv
  <2>4. LiveSections
    BY DEF Init, LiveSections
  <2> QED
    BY <2>2, <2>3, <2>4 DEF SectInv
<1> QED
  BY <1>4, <1>5, <1>6, <1>8, <1>9, <1>10 DEF MgrInv

\* What the lemmas start from follows from the invariant.
LEMMA GoodState ==
  ASSUME MgrInv, NoGhost
  PROVE  Good /\ SectInv
<1> USE MgrAssumption
<1>1. RunningInv
  BY Running DEF MgrInv
<1>2. ~Gone /\ ~Twice
  BY DEF MgrInv, NoGhost, Overlap, OverlapKind
<1>3. OwnSection
  BY <1>2 DEF MgrInv, SectInv, HasSection, TypeOK, OwnSection, Gone, Twice, SectId
<1> QED
  BY <1>1, <1>3 DEF MgrInv, TypeOK, ControlInv, Good, ListTypeOK

\* Every step preserves the invariant, and so does stuttering.
LEMMA NextInv == MgrInv /\ [Next]_vars => MgrInv'
<1> SUFFICES ASSUME MgrInv, [Next]_vars PROVE MgrInv'
  OBVIOUS
<1> USE MgrAssumption
<1>1. CASE Next
  <2>1. Step /\ odd' = odd \cup Overlap' /\ "two" \notin odd
    BY <1>1 DEF Next, GoesOn, MgrAssumption
  <2>2. Overlap' \subseteq odd' /\ odd \subseteq odd' /\ Overlap' \subseteq OverlapKind
    BY <2>1 DEF Overlap
  <2>3. PlacesOK /\ FlagsOK /\ DataOK
    BY DEF MgrInv, TypeOK, DataOK
  <2>4. PlacesOK' /\ FlagsOK' /\ DataOK'
    BY <2>1, <2>3, Places, Flags, Data DEF MgrInv
  <2>5. TypeOK'
    BY <2>1, <2>2, <2>4 DEF MgrInv, TypeOK, DataOK
  <2>6. "two" \notin odd' => ~Two'
    BY <2>2 DEF Overlap, OverlapKind
  <2>7. ControlInv'
    BY <2>1, <2>3, <2>6, Control DEF MgrInv
  <2>8. LockInv'
    BY <2>1, <2>3, Locks DEF MgrInv, DataOK
  <2>9. SlotInv'
    BY <2>1, <2>3, Slots DEF MgrInv, DataOK, ControlInv
  <2>10. CountInv'
    BY <2>1, <2>3, Count DEF MgrInv, DataOK
  <2>11. ASSUME NoGhost' PROVE SectInv'
    <3>1. NoGhost
      BY <2>2, <2>11 DEF NoGhost
    <3>2. Good /\ SectInv
      BY <3>1, GoodState
    <3>3. HasSection'
      BY <2>1, <3>2, SectionOfThread DEF SectInv
    <3>4. ~Gone' /\ ~Twice'
      BY <2>2, <2>11 DEF NoGhost, Overlap, OverlapKind
    <3>5. OwnSection'
      BY <2>4, <3>3, <3>4 DEF HasSection, DataOK, OwnSection, Gone, Twice, SectId
    <3>6. RunningInv'
      BY <2>10, SomeCounted DEF CountInv, RunningInv, DldrRunning, Counted, Thread
    <3>7. ThreadState' /\ NewSection' /\ LiveSections' /\ HandlerInv' /\ StartInv'
      BY <2>1, <3>2, <3>5, <3>6, ThreadStates, NewSections, Live, Handlers, Starts
         DEF SectInv
    <3> QED
      BY <3>3, <3>7 DEF SectInv
  <2> QED
    BY <2>2, <2>5, <2>7, <2>8, <2>9, <2>10, <2>11 DEF MgrInv
<1>2. CASE UNCHANGED vars
  <2>1. /\ TypeOK' /\ ControlInv' /\ LockInv' /\ SlotInv' /\ CountInv'
        /\ Overlap' = Overlap /\ odd' = odd
    BY <1>2 DEF MgrInv, vars, stepV, dldrV, TypeOK, PlacesOK, FlagsOK, ControlInv,
         OneControl, Controls, LockInv, SlotInv, CountInv, Counted, Overlap, Two, Early,
         Again, Stopping, Late, Gone, AddedDone, Twice, Acting, IsDone, DldrRunning
  <2>2. NoGhost' => SectInv'
    BY <1>2 DEF MgrInv, vars, stepV, NoGhost, SectInv, HasSection, ThreadState,
         NewSection, LiveSections, HandlerInv, StartInv, IsDone, DldrRunning
  <2> QED
    BY <2>1, <2>2 DEF MgrInv
<1> QED
  BY <1>1, <1>2 DEF Next

\* The inductive invariant holds in every state.
THEOREM MgrInvariant == Spec => []MgrInv
<1>1. Init => MgrInv
  BY InitInv
<1>2. MgrInv /\ [Next]_vars => MgrInv'
  BY NextInv
<1> QED
  BY <1>1, <1>2, PTL DEF Spec

\* Every variable has its type: no attempt beyond MaxAttempts, no section
\* beyond the list, whatever the callers, handlers and servers do.
THEOREM TypeCorrect == Spec => []TypeOK
<1>1. MgrInv => TypeOK
  BY DEF MgrInv
<1> QED
  BY <1>1, MgrInvariant, PTL

\* m_bThreadRunning tells whether there is a control thread, and there is one
\* at most, when callers do not test it at the same time.
THEOREM RunningKnown == Spec => []RunningIsKnown
<1>1. MgrInv => RunningIsKnown
  BY DEF MgrInv, ControlInv, OneControl, RunningIsKnown
<1> QED
  BY <1>1, MgrInvariant, PTL

\* A complete section is neither started nor stopped again.
THEOREM DoneStays == Spec => DoneSectionStays
<1>1. ASSUME MgrInv, [Next]_vars
      PROVE  [odd' \cap {"gone", "twice"} = {} =>
                \A s \in 1..n : state[s] = "DONE" /\ s <= n' => state'[s] = "DONE"]_vars
  <2>1. CASE UNCHANGED vars
    BY <2>1
  <2>2. CASE Next
    <3> SUFFICES ASSUME odd' \cap {"gone", "twice"} = {}
                 PROVE  \A s \in 1..n : state[s] = "DONE" /\ s <= n' => state'[s] = "DONE"
      OBVIOUS
    <3>1. NoGhost /\ Step
      BY <2>2 DEF Next, NoGhost
    <3>2. Good /\ ThreadState
      BY <1>1, <3>1, GoodState DEF SectInv
    <3> QED
      BY <3>1, <3>2, DoneStep DEF DoneKept
  <2> QED
    BY <1>1, <2>1, <2>2
<1> QED
  BY <1>1, MgrInvariant, PTL DEF Spec, DoneSectionStays
=============================================================================
