----------------------- MODULE DownloadMgrMeaningProofs ----------------------
(***************************************************************************)
(* What m_dwState, m_lastError, the file and the history of a download     *)
(* mean: MeaningInv holds in every state, and with it CompletedOnce,       *)
(* ThreadsAttended, FatalIsReal and ToldTheTruth, for any number of        *)
(* sections, threads, starts and stops.                                    *)
(*                                                                         *)
(* The proof rests on MgrInv (DownloadMgrProofs).  The steps are sorted    *)
(* into kinds by what they do to the sections and their threads; the parts *)
(* about those are proved kind by kind.  The parts about the flags, the    *)
(* file and the outcome of a start are proved action by action, for        *)
(* behaviours in which nothing has overlapped that they cannot stand.      *)
(***************************************************************************)
EXTENDS DownloadMgrProofs

USE DEF flagV, startV, listV, dldrV, lockV, histV, Goto
-----------------------------------------------------------------------------
(* The kinds of steps.                                                     *)

\* What every step starts from, and what is known of the state it ends in.
Ground ==
  /\ MgrAssumption /\ PlacesOK /\ FlagsOK /\ DataOK /\ OneControl
  /\ LockInv /\ SlotInv /\ RunningInv

ListKept == UNCHANGED <<n, state, sect, cRunning, csDone, bSectDone>>

\* The places the parts about the sections speak of.
Special == {"go", "main_launch", "start_sect"} \cup AddPC

\* A step that leaves the sections and their threads as they are.
Calm ==
  /\ ListKept /\ completions' = completions /\ dw' \cap {"DONE"} \subseteq dw
  /\ \A t \in Thread : pc'[t] = pc[t]
  /\ \A a \in Actor : pc'[a] \in Special => pc'[a] = pc[a]
  /\ \A c \in Ctl : pc[c] \in {"main_launch", "add_launch"} => pc'[c] = pc[c]
  /\ \A c \in Ctl : pc'[c] = "start_sect" => UNCHANGED <<bNoNew, bOneStarted>>

\* StartDownload finds the list empty, a reason not to start, or sections to
\* start.
StartsDownloader(c) ==
  /\ ListKept /\ UNCHANGED <<completions, dw>> /\ pc[c] = "start"
  /\ \A a \in Actor \ {c} : pc'[a] = pc[a]
  /\ \/ pc'[c] = "main_open" /\ n = 0
     \/ pc'[c] = "result"
     \/ pc'[c] = "start_sect" /\ n # 0 /\ ~DldrRunning /\ ~IsDone
        /\ bNoNew' /\ ~bOneStarted'

\* A thread goes on in its handler.
Handles(t) ==
  /\ ListKept /\ UNCHANGED <<bNoNew, bOneStarted>>
  /\ \A a \in Actor \ {t} : pc'[a] = pc[a]
  /\ \/ pc[t] = "done_event" /\ pc'[t] = "done_close" /\ IsDone /\ ~DldrRunning
     \/ pc[t] = "done_event" /\ pc'[t] = "done_add" /\ IsAllSectionsOk
     \/ pc[t] = "done_event" /\ pc'[t] = "stop_event"
     \/ pc[t] = "done_close" /\ pc'[t] = "done_set"
     \/ pc[t] \in {"stop_event", "stop_clear", "stop_test", "stop_again"}
        /\ pc'[t] \in {"stop_clear", "stop_test", "stop_again", "end"}
     \/ pc[t] \in {"done_add", "done_set"} /\ pc'[t] = "end"
  /\ IF pc[t] = "done_set" THEN dw' = {"DONE"} /\ completions' = completions + 1
     ELSE completions' = completions /\ dw' \cap {"DONE"} \subseteq dw
  /\ pc[t] = "done_event" /\ IsDone /\ ~DldrRunning /\ "DONE" \notin dw =>
       pc'[t] = "done_close"

\* Actor a launches thread t for section s.
Launches(a, s, t) ==
  /\ t # a /\ pc[t] = "none" /\ csDone # t /\ pc'[t] = "begin"
  /\ sect' = [sect EXCEPT ![t] = s] /\ cRunning' = cRunning + 1
  /\ \A b \in Actor \ {a, t} : pc'[b] = pc[b]
  /\ \/ a \in Ctl /\ pc[a] = "main_launch" /\ s = 1 /\ pc'[a] = "result"
     \/ a \in Ctl /\ pc[a] = "start_sect" /\ pc'[a] = "start_sect" /\ bOneStarted'
        /\ state[s] # "DONE"
     \/ a \in Ctl /\ pc[a] = "work" /\ pc'[a] = "loop" /\ state[s] = "STOPPED"
     \/ a \in Ctl /\ pc[a] = "add_launch" /\ s = n /\ pc'[a] = "work"
     \/ a \in Thread /\ csDone = a /\ pc[a] = "add_launch" /\ s = n /\ pc'[a] = "end"
     \/ a \in Thread /\ csDone # a /\ pc[a] = "add_launch" /\ s = n /\ pc'[a] = "run"
  /\ state' = state \/ state' = [state EXCEPT ![s] = "DOWNLOADING"]
  /\ UNCHANGED <<n, csDone, bSectDone, bNoNew, completions, dw>>

\* An actor that is not at a place of AddPC adds no section.
AddRoom == \A a \in Actor : pc[a] \in AddPC => n > 0

KindOfStep ==
  \/ Calm
  \/ \E p \in Caller : StartCall(p)
  \/ \E c \in Ctl : StartsDownloader(c) \/ MainOpened(c) \/ StartAfresh(c)
  \/ \E t \in Thread : \/ ThreadBegin(t) \/ SectionEnds(t) \/ Leave(t)
                       \/ Handles(t) \/ ThreadExit(t)
  \/ \E a \in Thread \cup Ctl :
       \/ AddSection(a) \/ AddFails(a) \/ AddOpened(a) \/ AddInsert(a)
       \/ \E s \in 1..n : \E t \in Thread : Launches(a, s, t)

\* Every step is of one of these kinds.
LEMMA Kinds ==
  ASSUME Ground, AddRoom, Step
  PROVE  KindOfStep
<1> USE DEF Ground, PlacesOK, DataOK, Actor, Thread, ThreadPC, HandlerPC, CtlPC,
            AddPC, LoopPC, StartPC, CallerPC, MgrAssumption
<1>1. ASSUME NEW p \in Caller, Launch(p) PROVE Calm
  <2>1. PICK c \in Ctl :
          pc[c] = "none" /\ pc' = [pc EXCEPT ![p] = "idle", ![c] = "starting"]
    BY <1>1 DEF Launch
  <2> QED
    BY ZenonT(30), <1>1, <2>1 DEF Launch, Calm, Special, ListKept
<1>2. ASSUME NEW p \in Caller, StopCall(p) PROVE Calm
  BY <1>2 DEF StopCall, Calm, Special, ListKept
<1>3. ASSUME NEW p \in Caller, StopDldr(p) PROVE Calm
  BY <1>3 DEF StopDldr, Calm, Special, ListKept
<1>4. ASSUME NEW c \in Ctl, ThreadStarts(c) PROVE Calm
  <2>1. PICK l \in {"loop", "ending"} : pc' = [pc EXCEPT ![c] = l]
    BY <1>4 DEF ThreadStarts, Fault
  <2> QED
    BY <1>4, <2>1 DEF ThreadStarts, Calm, Special, ListKept, OneControl, Controls
<1>5. ASSUME NEW c \in Ctl, LoopNeedStart(c) PROVE Calm
  BY <1>5 DEF LoopNeedStart, Calm, Special, ListKept
<1>6. ASSUME NEW c \in Ctl, LoopRuns(c) PROVE Calm
  BY <1>6 DEF LoopRuns, Calm, Special, ListKept
<1>7. ASSUME NEW c \in Ctl, StopCheck(c) PROVE Calm
  <2>1. PICK l \in {"stopwait", "work"} : pc' = [pc EXCEPT ![c] = l]
    BY <1>7 DEF StopCheck
  <2> QED
    BY <1>7, <2>1 DEF StopCheck, Calm, Special, ListKept, OneControl, Controls
<1>8. ASSUME NEW c \in Ctl, WorkDone(c) PROVE Calm
  BY <1>8 DEF WorkDone, Calm, Special, ListKept
<1>9. ASSUME NEW c \in Ctl, Watchdog(c) PROVE Calm
  BY <1>9 DEF Watchdog, Fault, Calm, Special, ListKept
<1>10. ASSUME NEW c \in Ctl, WatchdogStopped(c) PROVE Calm
  BY <1>10 DEF WatchdogStopped, Calm, Special, ListKept
<1>11. ASSUME NEW c \in Ctl, LaunchOneMoreSection(c)
       PROVE  \E s \in 1..n : \E t \in Thread : Launches(c, s, t)
  <2>1. PICK s \in 1..n : state[s] = "STOPPED" /\ LaunchThread(c, s, "loop")
    BY <1>11 DEF LaunchOneMoreSection
  <2>2. PICK t \in Thread : /\ pc[t] = "none"
                            /\ pc' = [pc EXCEPT ![t] = "begin", ![c] = "loop"]
                            /\ sect' = [sect EXCEPT ![t] = s]
                            /\ cRunning' = cRunning + 1
    BY <1>11, <2>1 DEF LaunchOneMoreSection, LaunchThread
  <2>3. s \in 1..n
    BY <1>11 DEF LaunchOneMoreSection, SlotInv
  <2>4. Launches(c, s, t)
    BY <1>11, <2>1, <2>2, <2>3 DEF LaunchOneMoreSection, Launches, LockInv
  <2> QED
    BY <2>3, <2>4
<1>12. ASSUME NEW c \in Ctl, StartDownload(c) PROVE StartsDownloader(c)
  <2>1. CASE n = 0
    BY <1>12, <2>1 DEF StartDownload, StartsDownloader, ListKept
  <2>2. CASE n # 0 /\ (DldrRunning \/ IsDone)
    BY <1>12, <2>2 DEF StartDownload, StartsDownloader, ListKept
  <2>3. CASE n # 0 /\ ~(DldrRunning \/ IsDone)
    BY <1>12, <2>3 DEF StartDownload, StartsDownloader, ListKept
  <2> QED
    BY <2>1, <2>2, <2>3
<1>13. ASSUME NEW c \in Ctl, MainFails(c) PROVE Calm
  BY <1>13 DEF MainFails, OpenError, Calm, Special, ListKept
<1>14. ASSUME NEW c \in Ctl, MainNoFile(c) PROVE Calm
  BY <1>14 DEF MainNoFile, FileRefused, Fault, Calm, Special, ListKept
<1>15. ASSUME NEW c \in Ctl, MainLaunch(c)
       PROVE  \E s \in 1..n : \E t \in Thread : Launches(c, s, t)
  <2>2. PICK t \in Thread : /\ pc[t] = "none"
                            /\ pc' = [pc EXCEPT ![t] = "begin", ![c] = "result"]
                            /\ sect' = [sect EXCEPT ![t] = 1]
                            /\ cRunning' = cRunning + 1
    BY <1>15 DEF MainLaunch, LaunchThread
  <2>3. 1 \in 1..n
    BY <1>15 DEF MainLaunch, SlotInv
  <2>4. Launches(c, 1, t)
    BY <1>15, <2>2, <2>3 DEF MainLaunch, Launches, LockInv
  <2> QED
    BY <2>3, <2>4
<1>16. ASSUME NEW c \in Ctl, StartSkip(c) PROVE Calm
  BY <1>16 DEF StartSkip, Calm, Special, ListKept
<1>17. ASSUME NEW c \in Ctl, StartSection(c)
       PROVE  \E s \in 1..n : \E t \in Thread : Launches(c, s, t)
  <2>2. PICK t \in Thread : /\ pc[t] = "none"
                            /\ pc' = [pc EXCEPT ![t] = "begin", ![c] = "start_sect"]
                            /\ sect' = [sect EXCEPT ![t] = i]
                            /\ cRunning' = cRunning + 1
    BY <1>17 DEF StartSection, LaunchThread
  <2>3. i \in 1..n
    BY <1>17 DEF StartSection, SlotInv
  <2>4. Launches(c, i, t)
    BY <1>17, <2>2, <2>3 DEF StartSection, Launches, LockInv
  <2> QED
    BY <2>3, <2>4
<1>18. ASSUME NEW c \in Ctl, StartNoFile(c) PROVE Calm
  BY <1>18 DEF StartNoFile, FileRefused, Fault, Calm, Special, ListKept
<1>19. ASSUME NEW c \in Ctl, StartOpenFails(c) PROVE Calm
  <2>1. pc[c] = "start_sect" /\ (pc' = pc \/ pc' = [pc EXCEPT ![c] = "result"])
    BY <1>19 DEF StartOpenFails
  <2>2. CASE pc' = pc
    BY <1>19, <2>2 DEF StartOpenFails, Calm, Special, ListKept
  <2>3. CASE pc' = [pc EXCEPT ![c] = "result"]
    BY <1>19, <2>1, <2>3 DEF StartOpenFails, Calm, Special, ListKept
  <2> QED
    BY <2>1, <2>2, <2>3
<1>20. ASSUME NEW c \in Ctl, StartReturns(c) PROVE Calm
  BY <1>20 DEF StartReturns, Calm, Special, ListKept, OneControl, Controls
<1>21. ASSUME NEW c \in Ctl, StartResult(c) PROVE Calm
  BY <1>21 DEF StartResult, Calm, Special, ListKept
<1>22. ASSUME NEW c \in Ctl, StartTests(c) PROVE Calm
  <2>1. PICK l \in {"after", "set_downloading", "sleep"} : pc' = [pc EXCEPT ![c] = l]
    BY <1>22 DEF StartTests
  <2> QED
    BY <1>22, <2>1 DEF StartTests, Calm, Special, ListKept, OneControl, Controls
<1>23. ASSUME NEW c \in Ctl, SetDownloading(c) PROVE Calm
  BY <1>23 DEF SetDownloading, Calm, Special, ListKept
<1>24. ASSUME NEW c \in Ctl, SleepInterval(c) PROVE Calm
  <2>1. PICK l \in {"after", "start"} : pc' = [pc EXCEPT ![c] = l]
    BY <1>24 DEF SleepInterval
  <2> QED
    BY <1>24, <2>1 DEF SleepInterval, Calm, Special, ListKept, OneControl, Controls
<1>25. ASSUME NEW c \in Ctl, AfterStart(c) PROVE Calm
  <2>1. PICK l \in {"fatal", "stopcheck"} : pc' = [pc EXCEPT ![c] = l]
    BY <1>25 DEF AfterStart
  <2> QED
    BY <1>25, <2>1 DEF AfterStart, Calm, Special, ListKept, OneControl, Controls
<1>26. ASSUME NEW c \in Ctl, LoopEnds(c) PROVE Calm
  BY <1>26 DEF LoopEnds, Calm, Special, ListKept
<1>27. ASSUME NEW c \in Ctl, FatalError(c) PROVE Calm
  BY <1>27 DEF FatalError, Calm, Special, ListKept
<1>28. ASSUME NEW c \in Ctl, Stopped(c) PROVE Calm
  BY <1>28 DEF Stopped, Calm, Special, ListKept
<1>29. ASSUME NEW c \in Ctl, Close(c) PROVE Calm
  BY <1>29 DEF Close, Calm, Special, ListKept
<1>30. ASSUME NEW c \in Ctl, ThreadEnds(c) PROVE Calm
  BY <1>30 DEF ThreadEnds, Calm, Special, ListKept
<1>31. ASSUME NEW c \in Ctl, StoppedOrDone(c) PROVE Calm
  BY <1>31 DEF StoppedOrDone, Calm, Special, ListKept
<1>32. ASSUME NEW t \in Thread, SectionDone(t) PROVE Handles(t)
  BY <1>32 DEF SectionDone, Handles, ListKept, LockInv
<1>33. ASSUME NEW t \in Thread, NotAdded(t) PROVE Handles(t)
  BY <1>33 DEF NotAdded, Handles, ListKept, LockInv
<1>34. ASSUME NEW t \in Thread, OnDone(t) PROVE Handles(t)
  BY <1>34 DEF OnDone, Handles, ListKept, LockInv
<1>35. ASSUME NEW t \in Thread, SetDone(t) PROVE Handles(t)
  BY <1>35 DEF SetDone, Handles, ListKept, LockInv
<1>36. ASSUME NEW t \in Thread, OnSectionStopped(t) PROVE Handles(t)
  BY <1>36 DEF OnSectionStopped, Handles, ListKept, LockInv
<1>37. ASSUME NEW t \in Thread, ClearDownloading(t) PROVE Handles(t)
  BY <1>37 DEF ClearDownloading, Handles, ListKept, LockInv
<1>38. ASSUME NEW t \in Thread, AnnounceRestart(t) PROVE Handles(t)
  BY <1>38 DEF AnnounceRestart, Handles, ListKept, LockInv
<1>39. ASSUME NEW t \in Thread, SetNeedStart(t) PROVE Handles(t)
  BY <1>39 DEF SetNeedStart, Handles, ListKept, LockInv
<1>40. ASSUME NEW t \in Thread, SetNeedStop(t) PROVE Handles(t)
  BY <1>40 DEF SetNeedStop, Handles, ListKept, LockInv
<1>41. ASSUME NEW a \in Thread \cup Ctl, AddRefused(a)
       PROVE  Calm \/ (a \in Thread /\ Handles(a))
  <2>1. CASE a \in Ctl
    BY <1>41, <2>1 DEF AddRefused, MayAdd, Back, Calm, Special, ListKept
  <2>2. CASE a \in Thread /\ pc[a] = "run"
    BY <1>41, <2>2 DEF AddRefused, MayAdd, Back, Calm, Special, ListKept, LockInv
  <2>3. CASE a \in Thread /\ pc[a] = "done_add"
    BY <1>41, <2>3 DEF AddRefused, MayAdd, Back, Handles, ListKept, LockInv
  <2> QED
    BY <1>41, <2>1, <2>2, <2>3 DEF AddRefused, MayAdd
<1>42. ASSUME NEW a \in Thread \cup Ctl, AddLaunch(a)
       PROVE  \E s \in 1..n : \E t \in Thread : Launches(a, s, t)
  <2>1. n \in 1..n
    BY <1>42 DEF AddLaunch, AddRoom
  <2>2. PICK t \in Thread : /\ pc[t] = "none"
                            /\ pc' = [pc EXCEPT ![t] = "begin", ![a] = Back(a)]
                            /\ sect' = [sect EXCEPT ![t] = n]
                            /\ cRunning' = cRunning + 1
    BY <1>42 DEF AddLaunch, LaunchThread
  <2>3. Launches(a, n, t)
    BY <1>42, <2>2 DEF AddLaunch, Launches, LockInv, Back
  <2> QED
    BY <2>1, <2>3
<1>43. ASSUME NEW a \in Thread \cup Ctl, AddSteps(a) PROVE KindOfStep
  BY <1>43, <1>41, <1>42
  DEF AddSteps, KindOfStep
<1>44. ASSUME NEW p \in Caller, CallerSteps(p) PROVE KindOfStep
  BY <1>44, <1>1, <1>2, <1>3
  DEF CallerSteps, KindOfStep
<1>45. ASSUME NEW c \in Ctl, StartSteps(c) PROVE KindOfStep
  BY <1>45, <1>12, <1>13, <1>14, <1>15, <1>16, <1>17, <1>18, <1>19, <1>20, <1>21,
     <1>22, <1>23, <1>24, <1>25
  DEF StartSteps, KindOfStep
<1>46. ASSUME NEW c \in Ctl, EndSteps(c) PROVE KindOfStep
  BY <1>46, <1>26, <1>27, <1>28, <1>29, <1>30, <1>31
  DEF EndSteps, KindOfStep
<1>47. ASSUME NEW c \in Ctl, ControlSteps(c) PROVE KindOfStep
  BY <1>47, <1>4, <1>5, <1>6, <1>7, <1>8, <1>9, <1>10, <1>11, <1>45, <1>46, <1>43
  DEF ControlSteps, KindOfStep
<1>48. ASSUME NEW t \in Thread, SectionSteps(t) PROVE KindOfStep
  BY <1>48, <1>32, <1>33, <1>34, <1>35, <1>36, <1>37, <1>38, <1>39, <1>40, <1>43
  DEF SectionSteps, KindOfStep
<1> QED
  BY <1>44, <1>47, <1>48 DEF Step

-----------------------------------------------------------------------------
(* The sections and their threads.                                         *)

\* The threads counted, in the steps that are not those of one thread.
LEMMA CalmCounts ==
  ASSUME Ground, Calm
  PROVE  Counted' = Counted
BY DEF Ground, Calm, ListKept, Counted

\* A handler is not counted.
LEMMA HandlerCounts ==
  ASSUME Ground, NEW t \in Thread, Handles(t)
  PROVE  Counted' = Counted
BY DEF Ground, Handles, ListKept, Counted, Actor, AddPC, LockInv, HandlerPC

\* A launch counts one more thread.
LEMMA LaunchCounts ==
  ASSUME Ground, NEW a \in Thread \cup Ctl, NEW s \in 1..n, NEW t \in Thread,
         Launches(a, s, t)
  PROVE  Counted' = Counted \cup {t} /\ t \notin Counted
<1>1. csDone' = csDone /\ csDone # t /\ pc[t] = "none" /\ pc'[t] = "begin" /\ a # t
  BY DEF Launches
<1>2. \A u \in Thread \ {a, t} : pc'[u] = pc[u]
  BY DEF Launches, Actor
<1>3. a \in Thread => (a \in Counted' <=> a \in Counted)
  BY DEF Launches, Counted, AddPC, Ground, MgrAssumption, PlacesOK
<1>4. \A u \in Thread \ {a, t} : u \in Counted' <=> u \in Counted
  BY <1>1, <1>2 DEF Counted
<1>5. t \in Counted' /\ t \notin Counted
  BY <1>1 DEF Counted, AddPC
<1>6. Counted \subseteq Thread /\ Counted' \subseteq Thread
  BY DEF Counted
<1>7. \A u \in Thread : u \in Counted' <=> u \in Counted \/ u = t
  BY <1>3, <1>4, <1>5
<1> QED
  BY <1>5, <1>6, <1>7

\* With no thread counted and a section to complete, nobody adds a section in
\* a handler.
LEMMA NoAdders ==
  ASSUME Ground, HandlerKeeps, ~DldrRunning, ~IsDone
  PROVE  \A t \in Thread : pc[t] \notin AddPC \cup {"begin", "run", "leave"}
<1>1. \A t \in Thread : t \notin Counted
  BY DEF Ground, RunningInv
<1>2. \A t \in Thread : pc[t] \in AddPC => csDone = t
  BY <1>1 DEF Counted
<1> QED
  BY <1>1, <1>2 DEF HandlerKeeps, Counted, AddPC

\* A thread is launched for a section of the list, and leaves it final.
LEMMA InWorkStep ==
  ASSUME Ground, Ground', InWork, StartKeeps, KindOfStep
  PROVE  InWork'
<1> USE DEF Ground, PlacesOK, DataOK, Actor, Thread, SectId, ThreadPC, HandlerPC,
            CtlPC, AddPC, LoopPC, StartPC, CallerPC, MgrAssumption, InWork,
            LockInv, SlotInv, StartKeeps
<1>1. CASE Calm
  BY <1>1 DEF Calm, ListKept, Special, Counted, Working
<1>2. ASSUME NEW p \in Caller, StartCall(p) PROVE InWork'
  BY <1>2 DEF StartCall, Counted, Working
<1>3. ASSUME NEW c \in Ctl, StartsDownloader(c) PROVE InWork'
  BY SMTT(30), <1>3 DEF StartsDownloader, ListKept, Special, Counted, Working
<1>4. ASSUME NEW c \in Ctl, MainOpened(c) PROVE InWork'
  BY <1>4 DEF MainOpened, Counted, Working
<1>5. ASSUME NEW c \in Ctl, StartAfresh(c) PROVE InWork'
  <2>1. n' = 0 /\ cRunning' = cRunning /\ ~DldrRunning
    BY <1>5 DEF StartAfresh
  <2>2. Counted' = {}
    BY <2>1 DEF RunningInv, DldrRunning
  <2> QED
    BY <2>1, <2>2
<1>6. ASSUME NEW t \in Thread, ThreadBegin(t) PROVE InWork'
  BY <1>6 DEF ThreadBegin, Counted, Working
<1>7. ASSUME NEW t \in Thread, SectionEnds(t) PROVE InWork'
  BY <1>7 DEF SectionEnds, Counted, Working
<1>8. ASSUME NEW t \in Thread, Leave(t) PROVE InWork'
  BY <1>8 DEF Leave, Counted, Working
<1>9. ASSUME NEW t \in Thread, Handles(t) PROVE InWork'
  <2>1. Counted' = Counted /\ Working' = Working
    BY SMTT(30), <1>9 DEF Handles, ListKept, Counted, Working
  <2>2. UNCHANGED <<n, state, sect>>
    BY <1>9 DEF Handles, ListKept
  <2> QED
    BY <2>1, <2>2
<1>10. ASSUME NEW t \in Thread, ThreadExit(t) PROVE InWork'
  <2>1. Counted' = Counted /\ Working' = Working /\ t \notin Counted
    BY <1>10 DEF ThreadExit, Counted, Working
  <2>2. n' = n /\ sect' = [sect EXCEPT ![t] = 0]
        /\ (state' = state \/ state' = [state EXCEPT ![sect[t]] = "STOPPED"])
    BY <1>10 DEF ThreadExit
  <2>3. Working \subseteq Counted /\ Counted \subseteq Thread
    BY DEF Working, Counted
  <2>4. \A u \in Counted : sect'[u] = sect[u]
    BY <2>1, <2>2, <2>3
  <2>5. \A r \in 1..n : state'[r] = "DOWNLOADING" => state[r] = "DOWNLOADING"
    BY SMTT(30), <2>2
  <2>6. (\A u \in Counted : sect[u] \in 1..n)
        /\ \A r \in 1..n : state[r] = "DOWNLOADING" => \E u \in Working : sect[u] = r
    OBVIOUS
  <2> HIDE DEF Ground, PlacesOK, DataOK, Actor, Thread, SectId, ThreadPC, HandlerPC,
               CtlPC, AddPC, LoopPC, StartPC, CallerPC, MgrAssumption, LockInv,
               SlotInv, StartKeeps, InWork
  <2>7. \A u \in Counted' : sect'[u] \in 1..n'
    BY <2>1, <2>2, <2>4, <2>6
  <2>8. \A r \in 1..n' : state'[r] = "DOWNLOADING" => \E u \in Working' : sect'[u] = r
    BY <2>1, <2>2, <2>3, <2>4, <2>5, <2>6
  <2> QED
    BY <2>7, <2>8 DEF InWork
<1>11. ASSUME NEW a \in Thread \cup Ctl, AddSection(a) PROVE InWork'
  BY <1>11 DEF AddSection, MayAdd, Counted, Working
<1>12. ASSUME NEW a \in Thread \cup Ctl, AddFails(a) PROVE InWork'
  BY <1>12 DEF AddFails, Back, Counted, Working
<1>13. ASSUME NEW a \in Thread \cup Ctl, AddOpened(a) PROVE InWork'
  BY <1>13 DEF AddOpened, Counted, Working
<1>14. ASSUME NEW a \in Thread \cup Ctl, AddInsert(a) PROVE InWork'
  <2>1. n \in Nat /\ n + 1 \in SectId /\ n' = n + 1 /\ sect' = sect
        /\ state' = [state EXCEPT ![n + 1] = "CREATING"]
    BY <1>14 DEF AddInsert
  <2>2. Counted' = Counted /\ Working' = Working
    BY <1>14 DEF AddInsert, Counted, Working
  <2> QED
    BY SMTT(30), <2>1, <2>2
<1>15. ASSUME NEW a \in Thread \cup Ctl, NEW s \in 1..n, NEW t \in Thread,
             Launches(a, s, t)
      PROVE  InWork'
  <2>1. Counted' = Counted \cup {t} /\ t \notin Counted
    BY <1>15, LaunchCounts
  <2>2. Working' = Working \cup {t}
    BY <1>15 DEF Launches, Counted, Working
  <2>3. n' = n /\ sect' = [sect EXCEPT ![t] = s]
        /\ (state' = state \/ state' = [state EXCEPT ![s] = "DOWNLOADING"])
    BY <1>15 DEF Launches
  <2>4. Working \subseteq Counted /\ Counted \subseteq Thread
    BY DEF Working, Counted
  <2>5. \A u \in Counted : sect'[u] = sect[u]
    BY <2>1, <2>3, <2>4
  <2>6. sect'[t] = s
    BY <2>3
  <2>7. \A u \in Counted' : sect'[u] \in 1..n'
    BY SMTT(30), <2>1, <2>3, <2>5, <2>6
  <2>8. \A r \in 1..n : state'[r] = "DOWNLOADING" => r = s \/ state[r] = "DOWNLOADING"
    BY <2>3
  <2> QED
    BY SMTT(30), <2>2, <2>3, <2>4, <2>5, <2>6, <2>7, <2>8
<1> QED
  BY <1>1, <1>2, <1>3, <1>4, <1>5, <1>6, <1>7, <1>8, <1>9, <1>10, <1>11, <1>12,
     <1>13, <1>14, <1>15
  DEF KindOfStep

\* What a handler has found of the others stays true.
LEMMA HandlerStep ==
  ASSUME Ground, Ground', InWork, HandlerKeeps, StartKeeps, KindOfStep
  PROVE  HandlerKeeps'
<1> USE DEF Ground, PlacesOK, DataOK, Actor, Thread, SectId, ThreadPC, HandlerPC,
            CtlPC, AddPC, LoopPC, StartPC, CallerPC, MgrAssumption, FlagsOK,
            HandlerKeeps, LockInv
<1>1. CASE Calm
  BY <1>1 DEF Calm, ListKept, Special, SlotInv, RunningInv, Counted, IsDone, DldrRunning
<1>2. ASSUME NEW p \in Caller, StartCall(p) PROVE HandlerKeeps'
  BY <1>2 DEF StartCall, SlotInv, RunningInv, Counted, IsDone, DldrRunning
<1>3. ASSUME NEW c \in Ctl, StartsDownloader(c) PROVE HandlerKeeps'
  BY ZenonT(60), <1>3
     DEF StartsDownloader, ListKept, Special, SlotInv, RunningInv, Counted, IsDone,
          DldrRunning
<1>4. ASSUME NEW c \in Ctl, MainOpened(c) PROVE HandlerKeeps'
  BY <1>4 DEF MainOpened, SlotInv, RunningInv, Counted, IsDone, DldrRunning
<1>5. ASSUME NEW c \in Ctl, StartAfresh(c) PROVE HandlerKeeps'
  BY <1>5 DEF StartAfresh, SlotInv, RunningInv, Counted, IsDone, DldrRunning
<1>6. ASSUME NEW t \in Thread, ThreadBegin(t) PROVE HandlerKeeps'
  BY <1>6 DEF ThreadBegin, SlotInv, RunningInv, Counted, IsDone, DldrRunning
<1>7. ASSUME NEW t \in Thread, SectionEnds(t) PROVE HandlerKeeps'
  BY <1>7 DEF SectionEnds, SlotInv, RunningInv, Counted, IsDone, DldrRunning
<1>8. ASSUME NEW t \in Thread, Leave(t) PROVE HandlerKeeps'
  BY ZenonT(30), <1>8 DEF Leave, SlotInv, RunningInv, Counted, IsDone, DldrRunning
<1>9. ASSUME NEW t \in Thread, Handles(t) PROVE HandlerKeeps'
  <2>1. cRunning' = cRunning /\ n' = n /\ state' = state /\ csDone' = csDone
        /\ bSectDone' = bSectDone /\ csDone = t
    BY <1>9 DEF Handles, ListKept
  <2>2. ASSUME pc'[t] = "done_add" PROVE DldrRunning \/ IsDone \/ n = 0
    <3>1. pc[t] = "done_event" /\ IsAllSectionsOk
      BY <1>9, <2>2 DEF Handles
    <3>2. ASSUME ~IsDone, n # 0 PROVE DldrRunning
      <4>1. PICK s \in 1..n : state[s] = "DOWNLOADING"
        BY SMTT(30), <3>1, <3>2 DEF IsAllSectionsOk, IsDone
      <4> QED
        BY <4>1 DEF InWork, Working, RunningInv
    <3> QED
      BY <3>2
  <2>3. pc'[t] \in {"done_close", "done_set", "done_add"} =>
          pc[t] \in {"done_event", "done_close"}
    BY <1>9 DEF Handles
  <2>4. pc'[t] \notin AddPC \cup {"done_event"}
    BY <1>9 DEF Handles
  <2> QED
    BY <2>1, <2>2, <2>3, <2>4 DEF DldrRunning, IsDone
<1>10. ASSUME NEW t \in Thread, ThreadExit(t) PROVE HandlerKeeps'
  BY <1>10 DEF ThreadExit, SlotInv, RunningInv, Counted, IsDone, DldrRunning
<1>11. ASSUME NEW a \in Thread \cup Ctl, AddSection(a) PROVE HandlerKeeps'
  <2>1. pc[a] \in {"work", "run", "done_add"} /\ pc' = [pc EXCEPT ![a] = "add_open"]
        /\ csAdd = None /\ n > 0
        /\ UNCHANGED <<n, state, cRunning, csDone, bSectDone>>
    BY <1>11 DEF AddSection, MayAdd
  <2>2. \A b \in Actor : pc[b] \notin {"main_launch", "add_launch"}
    BY <2>1
  <2>3. csDone = a => pc[a] = "done_add"
    BY <2>1
  <2>4. ASSUME csDone = a PROVE DldrRunning \/ IsDone
    <3>1. a \in Thread /\ pc[a] = "done_add"
      BY <2>3, <2>4
    <3>2. n # 0
      BY <2>1
    <3>3. \A c \in Ctl : pc[c] \notin {"main_launch", "add_launch"}
      BY <2>2
    <3> QED
      BY <2>4, <3>1, <3>2, <3>3
  <2>5. (DldrRunning' <=> DldrRunning) /\ (IsDone' <=> IsDone)
    BY <2>1 DEF DldrRunning, IsDone
  <2> QED
    BY <2>1, <2>2, <2>3, <2>4, <2>5
<1>12. ASSUME NEW a \in Thread \cup Ctl, AddFails(a) PROVE HandlerKeeps'
  BY <1>12 DEF AddFails, Back, SlotInv, RunningInv, Counted, IsDone, DldrRunning
<1>13. ASSUME NEW a \in Thread \cup Ctl, AddOpened(a) PROVE HandlerKeeps'
  BY <1>13 DEF AddOpened, SlotInv, RunningInv, Counted, IsDone, DldrRunning
<1>14. ASSUME NEW a \in Thread \cup Ctl, AddInsert(a) PROVE HandlerKeeps'
  BY <1>14 DEF AddInsert, SlotInv, RunningInv, Counted, IsDone, DldrRunning
<1>15. ASSUME NEW a \in Thread \cup Ctl, NEW s \in 1..n, NEW t \in Thread,
             Launches(a, s, t)
      PROVE  HandlerKeeps'
  BY ZenonT(30), <1>15
     DEF Launches, Special, SlotInv, RunningInv, Counted, IsDone, DldrRunning
<1> QED
  BY <1>1, <1>2, <1>3, <1>4, <1>5, <1>6, <1>7, <1>8, <1>9, <1>10, <1>11, <1>12,
     <1>13, <1>14, <1>15
  DEF KindOfStep

\* The control thread starts the sections when no thread adds one, and none can.
LEMMA StartStep ==
  ASSUME Ground, Ground', HandlerKeeps, StartKeeps, KindOfStep
  PROVE  StartKeeps'
<1> USE DEF Ground, PlacesOK, DataOK, Actor, Thread, SectId, ThreadPC, HandlerPC,
            CtlPC, AddPC, LoopPC, StartPC, CallerPC, MgrAssumption, FlagsOK,
            LockInv, StartKeeps
<1>1. CASE Calm
  BY ZenonT(30), <1>1
     DEF Calm, ListKept, Special, SlotInv, RunningInv, Counted, DldrRunning,
          OneControl, Controls
<1>2. ASSUME NEW p \in Caller, StartCall(p) PROVE StartKeeps'
  BY <1>2 DEF StartCall, SlotInv, RunningInv, Counted, DldrRunning, OneControl, Controls
<1>3. ASSUME NEW c \in Ctl, StartsDownloader(c) PROVE StartKeeps'
  <2>1. CASE pc'[c] # "start_sect"
    BY <1>3, <2>1 DEF StartsDownloader, ListKept, OneControl, Controls
  <2>2. CASE pc'[c] = "start_sect"
    <3>1. \A t \in Thread : pc[t] \notin AddPC
      BY <1>3, <2>2, NoAdders DEF StartsDownloader
    <3>2. \A d \in Ctl : d # c => pc[d] \notin LoopPC
      BY <1>3 DEF StartsDownloader, OneControl, Controls
    <3> QED
      BY <1>3, <2>2, <3>1, <3>2 DEF StartsDownloader, ListKept, DldrRunning
  <2> QED
    BY <2>1, <2>2
<1>4. ASSUME NEW c \in Ctl, MainOpened(c) PROVE StartKeeps'
  BY <1>4
     DEF MainOpened, SlotInv, RunningInv, Counted, DldrRunning, OneControl, Controls
<1>5. ASSUME NEW c \in Ctl, StartAfresh(c) PROVE StartKeeps'
  BY <1>5
     DEF StartAfresh, SlotInv, RunningInv, Counted, DldrRunning, OneControl, Controls
<1>6. ASSUME NEW t \in Thread, ThreadBegin(t) PROVE StartKeeps'
  BY <1>6
     DEF ThreadBegin, SlotInv, RunningInv, Counted, DldrRunning, OneControl, Controls
<1>7. ASSUME NEW t \in Thread, SectionEnds(t) PROVE StartKeeps'
  BY <1>7
     DEF SectionEnds, SlotInv, RunningInv, Counted, DldrRunning, OneControl, Controls
<1>8. ASSUME NEW t \in Thread, Leave(t) PROVE StartKeeps'
  BY <1>8 DEF Leave, SlotInv, RunningInv, Counted, DldrRunning, OneControl, Controls
<1>9. ASSUME NEW t \in Thread, Handles(t) PROVE StartKeeps'
  <2>1. \A a \in Actor : pc'[a] \in AddPC => pc'[a] = pc[a]
    BY <1>9 DEF Handles
  <2>2. \A c \in Ctl : pc'[c] = pc[c]
    BY <1>9 DEF Handles
  <2>3. UNCHANGED <<n, cRunning, bNoNew, bOneStarted>>
    BY <1>9 DEF Handles, ListKept
  <2> QED
    BY <2>1, <2>2, <2>3 DEF DldrRunning
<1>10. ASSUME NEW t \in Thread, ThreadExit(t) PROVE StartKeeps'
  BY <1>10
     DEF ThreadExit, SlotInv, RunningInv, Counted, DldrRunning, OneControl, Controls
<1>11. ASSUME NEW a \in Thread \cup Ctl, AddSection(a) PROVE StartKeeps'
  BY <1>11
     DEF AddSection, MayAdd, SlotInv, RunningInv, Counted, DldrRunning, OneControl,
          Controls
<1>12. ASSUME NEW a \in Thread \cup Ctl, AddFails(a) PROVE StartKeeps'
  BY <1>12
     DEF AddFails, Back, SlotInv, RunningInv, Counted, DldrRunning, OneControl, Controls
<1>13. ASSUME NEW a \in Thread \cup Ctl, AddOpened(a) PROVE StartKeeps'
  BY <1>13
     DEF AddOpened, SlotInv, RunningInv, Counted, DldrRunning, OneControl, Controls
<1>14. ASSUME NEW a \in Thread \cup Ctl, AddInsert(a) PROVE StartKeeps'
  BY <1>14
     DEF AddInsert, SlotInv, RunningInv, Counted, DldrRunning, OneControl, Controls
<1>15. ASSUME NEW a \in Thread \cup Ctl, NEW s \in 1..n, NEW t \in Thread,
             Launches(a, s, t)
      PROVE  StartKeeps'
  <2>1. \A b \in Actor : pc'[b] \in AddPC => pc'[b] = pc[b]
    BY <1>15 DEF Launches
  <2>2. n' = n /\ bNoNew' = bNoNew
    BY <1>15 DEF Launches
  <2>3. ASSUME NEW c \in Ctl, pc'[c] = "start_sect" PROVE pc[c] = "start_sect" /\ c = a
    <3>1. pc[c] = "start_sect"
      BY <1>15, <2>3 DEF Launches
    <3>2. pc[a] \notin AddPC
      BY <3>1
    <3>3. a \in Ctl /\ pc[a] \in LoopPC
      BY <1>15, <3>2 DEF Launches
    <3> QED
      BY SMTT(30), <3>1, <3>3 DEF OneControl, Controls
  <2>4. ASSUME NEW c \in Ctl, pc'[c] = "start_sect" PROVE bOneStarted'
    BY <1>15, <2>3, <2>4 DEF Launches
  <2> QED
    BY <2>1, <2>2, <2>3, <2>4
<1> QED
  BY <1>1, <1>2, <1>3, <1>4, <1>5, <1>6, <1>7, <1>8, <1>9, <1>10, <1>11, <1>12,
     <1>13, <1>14, <1>15
  DEF KindOfStep

\* Nobody else gets a section that is being inserted.
LEMMA FreshStep ==
  ASSUME Ground, Ground', InWork, StartKeeps, Fresh, KindOfStep
  PROVE  Fresh'
<1> USE DEF Ground, PlacesOK, DataOK, Actor, Thread, SectId, ThreadPC, HandlerPC,
            CtlPC, AddPC, LoopPC, StartPC, CallerPC, MgrAssumption, FlagsOK,
            LockInv, StartKeeps, InWork, Fresh
<1>1. CASE Calm
  <2>1. Counted' = Counted
    BY <1>1, CalmCounts
  <2> QED
    BY <1>1, <2>1 DEF Calm, ListKept, Special, DldrRunning
<1>2. ASSUME NEW p \in Caller, StartCall(p) PROVE Fresh'
  BY <1>2 DEF StartCall, SlotInv, RunningInv, Counted, DldrRunning, OneControl, Controls
<1>3. ASSUME NEW c \in Ctl, StartsDownloader(c) PROVE Fresh'
  BY <1>3
     DEF StartsDownloader, ListKept, Special, SlotInv, RunningInv, Counted,
          DldrRunning, OneControl, Controls
<1>4. ASSUME NEW c \in Ctl, MainOpened(c) PROVE Fresh'
  BY <1>4
     DEF MainOpened, SlotInv, RunningInv, Counted, DldrRunning, OneControl, Controls
<1>5. ASSUME NEW c \in Ctl, StartAfresh(c) PROVE Fresh'
  BY <1>5
     DEF StartAfresh, SlotInv, RunningInv, Counted, DldrRunning, OneControl, Controls
<1>6. ASSUME NEW t \in Thread, ThreadBegin(t) PROVE Fresh'
  BY SMTT(30), <1>6
     DEF ThreadBegin, SlotInv, RunningInv, Counted, DldrRunning, OneControl, Controls
<1>7. ASSUME NEW t \in Thread, SectionEnds(t) PROVE Fresh'
  <2>1. t \in Counted /\ DldrRunning
    BY <1>7 DEF SectionEnds, Counted, RunningInv
  <2>2. Counted' = Counted /\ \A c \in Ctl : pc'[c] = pc[c]
    BY <1>7 DEF SectionEnds, Counted
  <2>3. \A r \in SectId : r # sect[t] => state'[r] = state[r]
    BY <1>7 DEF SectionEnds
  <2>4. n' = n /\ cRunning' = cRunning /\ sect' = sect
    BY <1>7 DEF SectionEnds
  <2> QED
    BY <2>1, <2>2, <2>3, <2>4 DEF DldrRunning
<1>8. ASSUME NEW t \in Thread, Leave(t) PROVE Fresh'
  BY <1>8 DEF Leave, SlotInv, RunningInv, Counted, DldrRunning, OneControl, Controls
<1>9. ASSUME NEW t \in Thread, Handles(t) PROVE Fresh'
  <2>1. Counted' = Counted
    BY <1>9, HandlerCounts
  <2>2. \A c \in Ctl : pc'[c] = pc[c]
    BY ZenonT(30), <1>9 DEF Handles
  <2> QED
    BY <1>9, <2>1, <2>2 DEF Handles, ListKept, DldrRunning
<1>10. ASSUME NEW t \in Thread, ThreadExit(t) PROVE Fresh'
  BY <1>10
     DEF ThreadExit, SlotInv, RunningInv, Counted, DldrRunning, OneControl, Controls
<1>11. ASSUME NEW a \in Thread \cup Ctl, AddSection(a) PROVE Fresh'
  BY <1>11
     DEF AddSection, MayAdd, SlotInv, RunningInv, Counted, DldrRunning, OneControl,
          Controls
<1>12. ASSUME NEW a \in Thread \cup Ctl, AddFails(a) PROVE Fresh'
  BY <1>12
     DEF AddFails, Back, SlotInv, RunningInv, Counted, DldrRunning, OneControl, Controls
<1>13. ASSUME NEW a \in Thread \cup Ctl, AddOpened(a) PROVE Fresh'
  BY <1>13
     DEF AddOpened, SlotInv, RunningInv, Counted, DldrRunning, OneControl, Controls
<1>14. ASSUME NEW a \in Thread \cup Ctl, AddInsert(a) PROVE Fresh'
  BY <1>14
     DEF AddInsert, SlotInv, RunningInv, Counted, DldrRunning, OneControl, Controls
<1>15. ASSUME NEW a \in Thread \cup Ctl, NEW s \in 1..n, NEW t \in Thread,
             Launches(a, s, t)
      PROVE  Fresh'
  <2>1. Counted' = Counted \cup {t}
    BY ZenonT(30), <1>15, LaunchCounts
  <2>2. ASSUME NEW c \in Ctl, pc'[c] \in {"main_launch", "add_launch"}
        PROVE  FALSE
    <3>1. pc[c] = pc'[c] /\ c # a
      BY <1>15, <2>2 DEF Launches
    <3>2. a \in Ctl => pc[a] \in LoopPC
      BY <1>15 DEF Launches
    <3>3. a \in Thread => csAdd = a
      BY <1>15 DEF Launches
    <3>4. csAdd = c /\ pc[c] \in LoopPC
      BY <2>2, <3>1
    <3>5. a \in Ctl
      BY <3>1, <3>3, <3>4
    <3> QED
      BY SMTT(30), <3>1, <3>2, <3>4, <3>5 DEF OneControl, Controls
  <2> QED
    BY <2>2
<1> QED
  BY <1>1, <1>2, <1>3, <1>4, <1>5, <1>6, <1>7, <1>8, <1>9, <1>10, <1>11, <1>12,
     <1>13, <1>14, <1>15
  DEF KindOfStep

\* Without a control thread nothing is launched, and the list stays as it is.
LEMMA GoStep ==
  ASSUME Ground, Ground', InWork, HandlerKeeps, ControlInv, "two" \notin odd,
         GoInv, KindOfStep
  PROVE  GoInv'
<1> USE DEF Ground, PlacesOK, DataOK, Actor, Thread, SectId, ThreadPC, HandlerPC,
            CtlPC, AddPC, LoopPC, StartPC, CallerPC, MgrAssumption, FlagsOK,
            LockInv, GoInv
<1> DEFINE Alone ==
  /\ \A c \in Ctl : pc[c] \in {"none", "event"}
  /\ \A t \in Thread : pc[t] \notin AddPC \cup {"begin", "run", "leave"}
  /\ ~DldrRunning /\ ~IsDone
<1>0. ASSUME NEW q \in Caller, pc[q] = "go" PROVE Alone
  <2>1. \A c \in Ctl : pc[c] \in {"none", "event"}
    BY <1>0 DEF ControlInv, Controls
  <2> QED
    BY <1>0, <2>1, NoAdders
<1>1. CASE Calm
  BY ZenonT(30), <1>1, <1>0
     DEF Calm, ListKept, Special, DldrRunning, IsDone, MayAdd, IsRunning
<1>2. ASSUME NEW p \in Caller, StartCall(p) PROVE GoInv'
  BY <1>2, <1>0
     DEF StartCall, DldrRunning, IsDone, MayAdd, IsRunning
<1>3. ASSUME NEW c \in Ctl, StartsDownloader(c) PROVE GoInv'
  <2> SUFFICES ASSUME NEW q \in Caller, pc'[q] = "go" PROVE ~DldrRunning' /\ ~IsDone'
    OBVIOUS
  <2>1. pc[q] = "go"
    BY <1>3 DEF StartsDownloader
  <2>2. Alone
    BY <1>0, <2>1
  <2> QED
    BY <1>3, <2>2 DEF StartsDownloader
<1>4. ASSUME NEW c \in Ctl, MainOpened(c) PROVE GoInv'
  BY <1>4, <1>0
     DEF MainOpened, DldrRunning, IsDone, MayAdd, IsRunning
<1>5. ASSUME NEW c \in Ctl, StartAfresh(c) PROVE GoInv'
  BY <1>5, <1>0
     DEF StartAfresh, DldrRunning, IsDone, MayAdd, IsRunning
<1>6. ASSUME NEW t \in Thread, ThreadBegin(t) PROVE GoInv'
  BY <1>6, <1>0
     DEF ThreadBegin, DldrRunning, IsDone, MayAdd, IsRunning
<1>7. ASSUME NEW t \in Thread, SectionEnds(t) PROVE GoInv'
  BY <1>7, <1>0
     DEF SectionEnds, DldrRunning, IsDone, MayAdd, IsRunning
<1>8. ASSUME NEW t \in Thread, Leave(t) PROVE GoInv'
  BY <1>8, <1>0 DEF Leave, DldrRunning, IsDone, DldrRunning, IsDone, MayAdd, IsRunning
<1>9. ASSUME NEW t \in Thread, Handles(t) PROVE GoInv'
  <2> SUFFICES ASSUME NEW q \in Caller, pc'[q] = "go" PROVE ~DldrRunning' /\ ~IsDone'
    OBVIOUS
  <2>1. pc[q] = "go"
    BY <1>9 DEF Handles
  <2> QED
    BY <1>9, <2>1 DEF Handles, ListKept, DldrRunning, IsDone
<1>10. ASSUME NEW t \in Thread, ThreadExit(t) PROVE GoInv'
  BY SMTT(30), <1>10, <1>0
     DEF ThreadExit, DldrRunning, IsDone, MayAdd, IsRunning
<1>11. ASSUME NEW a \in Thread \cup Ctl, AddSection(a) PROVE GoInv'
  BY <1>11, <1>0
     DEF AddSection, MayAdd, DldrRunning, IsDone, IsRunning
<1>12. ASSUME NEW a \in Thread \cup Ctl, AddFails(a) PROVE GoInv'
  BY <1>12, <1>0
     DEF AddFails, Back, DldrRunning, IsDone, MayAdd, IsRunning
<1>13. ASSUME NEW a \in Thread \cup Ctl, AddOpened(a) PROVE GoInv'
  BY <1>13, <1>0
     DEF AddOpened, DldrRunning, IsDone, MayAdd, IsRunning
<1>14. ASSUME NEW a \in Thread \cup Ctl, AddInsert(a) PROVE GoInv'
  BY <1>14, <1>0
     DEF AddInsert, DldrRunning, IsDone, MayAdd, IsRunning
<1>15. ASSUME NEW a \in Thread \cup Ctl, NEW s \in 1..n, NEW t \in Thread,
             Launches(a, s, t)
      PROVE  GoInv'
  <2> SUFFICES ASSUME NEW q \in Caller, pc'[q] = "go" PROVE ~DldrRunning' /\ ~IsDone'
    OBVIOUS
  <2>1. pc[q] = "go"
    BY <1>15 DEF Launches
  <2>2. Alone
    BY <1>0, <2>1
  <2> QED
    BY <1>15, <2>2 DEF Launches
<1> QED
  BY <1>1, <1>2, <1>3, <1>4, <1>5, <1>6, <1>7, <1>8, <1>9, <1>10, <1>11, <1>12,
     <1>13, <1>14, <1>15
  DEF KindOfStep

\* The last thread is counted out with its section, and so finds all complete.
LEMMA LastStep ==
  ASSUME Ground, Ground', InWork, LastDecides, KindOfStep
  PROVE  LastDecides'
<1> USE DEF Ground, PlacesOK, DataOK, Actor, Thread, SectId, ThreadPC, HandlerPC,
            CtlPC, AddPC, LoopPC, StartPC, CallerPC, MgrAssumption, LockInv,
            LastDecides
<1>1. CASE Calm
  BY <1>1 DEF Calm, ListKept, Special, DldrRunning, IsDone
<1>2. ASSUME NEW p \in Caller, StartCall(p) PROVE LastDecides'
  BY <1>2 DEF StartCall, DldrRunning, IsDone
<1>3. ASSUME NEW c \in Ctl, StartsDownloader(c) PROVE LastDecides'
  BY <1>3 DEF StartsDownloader, ListKept, Special, DldrRunning, IsDone
<1>4. ASSUME NEW c \in Ctl, MainOpened(c) PROVE LastDecides'
  BY <1>4 DEF MainOpened, DldrRunning, IsDone
<1>5. ASSUME NEW c \in Ctl, StartAfresh(c) PROVE LastDecides'
  BY <1>5 DEF StartAfresh, DldrRunning, IsDone
<1>6. ASSUME NEW t \in Thread, ThreadBegin(t) PROVE LastDecides'
  <2>1. t \in Counted /\ Counted' = Counted
    BY <1>6 DEF ThreadBegin, Counted
  <2>2. DldrRunning' /\ UNCHANGED <<dw, completions>>
    BY <1>6, <2>1 DEF ThreadBegin, RunningInv
  <2> QED
    BY <2>2
<1>7. ASSUME NEW t \in Thread, SectionEnds(t) PROVE LastDecides'
  <2>1. t \in Counted /\ Counted' = Counted
    BY <1>7 DEF SectionEnds, Counted
  <2>2. DldrRunning' /\ UNCHANGED <<dw, completions>>
    BY <1>7, <2>1 DEF SectionEnds, RunningInv
  <2> QED
    BY <2>2
<1>8. ASSUME NEW t \in Thread, Leave(t) PROVE LastDecides'
  <2>1. t \in Counted
    BY <1>8 DEF Leave, Counted
  <2>2. sect[t] \in 1..n /\ UNCHANGED <<n, state, dw, completions>>
    BY <1>8, <2>1 DEF Leave, InWork
  <2>3. IsDone' => pc'[t] = "done_event"
    BY <1>8, <2>2 DEF Leave, IsDone
  <2>4. /\ csDone = None
        /\ \A u \in Thread : pc[u] \notin {"done_event", "done_close", "done_set"}
    BY <1>8 DEF Leave
  <2> QED
    BY <2>2, <2>3
<1>9. ASSUME NEW t \in Thread, Handles(t) PROVE LastDecides'
  <2>1. (IsDone' <=> IsDone) /\ (DldrRunning' <=> DldrRunning)
    BY <1>9 DEF Handles, ListKept, IsDone, DldrRunning
  <2>2. CASE pc[t] = "done_set"
    BY <1>9, <2>2 DEF Handles
  <2>3. CASE pc[t] # "done_set"
    <3>1. completions' = completions /\ ("DONE" \in dw' => "DONE" \in dw)
      BY <1>9, <2>3 DEF Handles
    <3>2. \A u \in Thread \ {t} : pc'[u] = pc[u]
      BY <1>9 DEF Handles
    <3>3. IsDone /\ ~DldrRunning /\ "DONE" \notin dw
          /\ pc[t] \in {"done_event", "done_close"}
            => pc'[t] \in {"done_close", "done_set"}
      BY <1>9 DEF Handles
    <3>4. pc[t] \in {"done_event", "done_close", "done_set"}
            => pc[t] \in {"done_event", "done_close"}
      BY <2>3
    <3> QED
      BY <2>1, <3>1, <3>2, <3>3, <3>4
  <2> QED
    BY <2>2, <2>3
<1>10. ASSUME NEW t \in Thread, ThreadExit(t) PROVE LastDecides'
  <2>1. IsDone' => IsDone
    BY <1>10 DEF ThreadExit, IsDone
  <2>2. \A u \in Thread \ {t} : pc'[u] = pc[u]
    BY <1>10 DEF ThreadExit
  <2> QED
    BY <1>10, <2>1, <2>2 DEF ThreadExit, DldrRunning
<1>11. ASSUME NEW a \in Thread \cup Ctl, AddSection(a) PROVE LastDecides'
  BY <1>11 DEF AddSection, MayAdd, DldrRunning, IsDone
<1>12. ASSUME NEW a \in Thread \cup Ctl, AddFails(a) PROVE LastDecides'
  BY <1>12 DEF AddFails, Back, DldrRunning, IsDone
<1>13. ASSUME NEW a \in Thread \cup Ctl, AddOpened(a) PROVE LastDecides'
  BY <1>13 DEF AddOpened, DldrRunning, IsDone
<1>14. ASSUME NEW a \in Thread \cup Ctl, AddInsert(a) PROVE LastDecides'
  BY <1>14 DEF AddInsert, DldrRunning, IsDone
<1>15. ASSUME NEW a \in Thread \cup Ctl, NEW s \in 1..n, NEW t \in Thread,
             Launches(a, s, t)
      PROVE  LastDecides'
  <2>1. Counted' = Counted \cup {t}
    BY ZenonT(30), <1>15, LaunchCounts
  <2>2. DldrRunning'
    <3>1. Counted' # {}
      BY <2>1
    <3> QED
      BY <3>1 DEF RunningInv
  <2> QED
    BY <1>15, <2>2 DEF Launches
<1> QED
  BY <1>1, <1>2, <1>3, <1>4, <1>5, <1>6, <1>7, <1>8, <1>9, <1>10, <1>11, <1>12,
     <1>13, <1>14, <1>15
  DEF KindOfStep

\* When the download is over nothing is launched, added or reset.
LEMMA DeclaredStep ==
  ASSUME Ground, Ground', StartKeeps, HandlerKeeps, Fresh, ~AddedDone, Declared,
         KindOfStep
  PROVE  Declared'
<1> USE DEF Ground, PlacesOK, DataOK, Actor, Thread, SectId, ThreadPC, HandlerPC,
            CtlPC, AddPC, LoopPC, StartPC, CallerPC, MgrAssumption, LockInv,
            Declared, Completing
<1>1. CASE Calm
  BY <1>1 DEF Calm, ListKept, Special, DldrRunning, IsDone, Over
<1>2. ASSUME NEW p \in Caller, StartCall(p) PROVE Declared'
  BY <1>2 DEF StartCall, DldrRunning, IsDone, Over
<1>3. ASSUME NEW c \in Ctl, StartsDownloader(c) PROVE Declared'
  BY <1>3 DEF StartsDownloader, ListKept, Special, DldrRunning, IsDone, Over
<1>4. ASSUME NEW c \in Ctl, MainOpened(c) PROVE Declared'
  <2>1. n = 0 /\ completions' = completions /\ \A t \in Thread : pc'[t] = pc[t]
    BY <1>4 DEF MainOpened, SlotInv
  <2>2. ~Over
    BY <2>1 DEF Over, IsDone
  <2> QED
    BY <2>1, <2>2
<1>5. ASSUME NEW c \in Ctl, StartAfresh(c) PROVE Declared'
  BY <1>5 DEF StartAfresh, DldrRunning, IsDone, Over
<1>6. ASSUME NEW t \in Thread, ThreadBegin(t) PROVE Declared'
  BY <1>6 DEF ThreadBegin, DldrRunning, IsDone, Over
<1>7. ASSUME NEW t \in Thread, SectionEnds(t) PROVE Declared'
  BY <1>7 DEF SectionEnds, DldrRunning, IsDone, Over
<1>8. ASSUME NEW t \in Thread, Leave(t) PROVE Declared'
  BY <1>8 DEF Leave, DldrRunning, IsDone, Over
<1>9. ASSUME NEW t \in Thread, Handles(t) PROVE Declared'
  <2>1. csDone = t /\ UNCHANGED <<n, state, cRunning, csDone, bSectDone>>
        /\ \A a \in Actor \ {t} : pc'[a] = pc[a]
    BY <1>9 DEF Handles, ListKept
  <2>2. (IsDone' <=> IsDone) /\ (DldrRunning' <=> DldrRunning)
    BY <2>1 DEF IsDone, DldrRunning
  <2>3. pc'[t] \notin AddPC /\ pc[t] \in HandlerPC
    BY <1>9 DEF Handles
  <2>4. ASSUME Over, pc'[t] \in {"done_close", "done_set", "end"} PROVE Over'
    <3>1. \A a \in Actor : pc'[a] \notin {"add_insert", "add_launch", "main_launch"}
      BY <2>1, <2>4 DEF Over
    <3>2. \A u \in Thread : pc'[u] \in {"none", "done_close", "done_set", "end"}
      BY <2>1, <2>4 DEF Over
    <3>3. \A u \in Thread : csDone' = u => bSectDone'
      BY <2>1, <2>4 DEF Over
    <3>4. IsDone' /\ ~DldrRunning'
      BY <2>2, <2>4 DEF Over
    <3> QED
      BY <3>1, <3>2, <3>3, <3>4 DEF Over
  <2>5. CASE pc[t] = "done_event" /\ pc'[t] = "done_close"
    <3>1. IsDone /\ ~DldrRunning /\ completions' = completions
      BY <1>9, <2>5 DEF Handles
    <3>2. completions = 0
      BY SMTT(30), <2>5 DEF Over
    <3>3. \A u \in Thread : u \notin Counted
      BY <3>1 DEF RunningInv
    <3>4. \A u \in Thread : u # t => pc[u] \in {"none", "done_close", "done_set", "end"}
      BY <2>1, <3>3 DEF Counted, HandlerKeeps
    <3>5. \A a \in Actor : pc[a] \notin {"add_insert", "add_launch", "main_launch"}
      <4>1. \A u \in Thread : pc[u] \notin {"add_insert", "add_launch", "main_launch"}
        BY <2>5, <3>4
      <4>2. \A c \in Ctl : pc[c] \notin {"add_insert", "add_launch", "main_launch"}
        <5> TAKE c \in Ctl
        <5>1. c \in Actor
          OBVIOUS
        <5>2. pc[c] # "add_insert"
          BY <3>1, <5>1 DEF AddedDone
        <5>3. pc[c] # "main_launch"
          BY SMTT(30), <3>1 DEF Fresh, IsDone, SlotInv
        <5>4. ASSUME pc[c] = "add_launch" PROVE FALSE
          <6>1. n > 0 /\ n \in Nat
            BY <5>1, <5>4 DEF StartKeeps
          <6>2. state[n] = "DONE"
            BY <3>1, <6>1 DEF IsDone
          <6> QED
            BY <5>4, <6>2 DEF Fresh
        <5> QED
          BY <5>2, <5>3, <5>4
      <4> QED
        BY <4>1, <4>2
    <3>6. bSectDone
      BY <2>1, <2>5 DEF HandlerKeeps
    <3>7. Over'
      BY <2>1, <2>2, <2>5, <3>1, <3>4, <3>5, <3>6 DEF Over
    <3> QED
      BY <3>1, <3>2, <3>7
  <2>6. CASE pc[t] = "done_close"
    <3>1. Over /\ completions = 0 /\ completions' = completions /\ pc'[t] = "done_set"
      BY <1>9, <2>6 DEF Handles
    <3> QED
      BY <2>4, <3>1
  <2>7. CASE pc[t] = "done_set"
    <3>1. Over /\ completions = 0 /\ completions' = 1 /\ pc'[t] = "end"
      BY <1>9, <2>7 DEF Handles
    <3>2. \A u \in Thread \ {t} : pc'[u] \notin {"done_close", "done_set"}
      BY <2>1
    <3> QED
      BY <2>4, <3>1, <3>2
  <2>8. CASE pc[t] \notin {"done_close", "done_set"}
             /\ ~(pc[t] = "done_event" /\ pc'[t] = "done_close")
    <3>1. pc'[t] \notin {"done_close", "done_set"} /\ completions' = completions
      BY <1>9, <2>8 DEF Handles
    <3>2. Completing' => Completing
      BY <2>1, <3>1
    <3>3. completions' > 0 \/ Completing' => Over
      BY <3>1, <3>2
    <3>4. Over => pc[t] = "end"
      BY <2>3, <2>8 DEF Over
    <3>5. pc[t] # "end"
      BY <1>9 DEF Handles
    <3> QED
      BY <3>1, <3>2, <3>3, <3>4, <3>5
  <2> QED
    BY <2>5, <2>6, <2>7, <2>8
<1>10. ASSUME NEW t \in Thread, ThreadExit(t) PROVE Declared'
  BY <1>10 DEF ThreadExit, DldrRunning, IsDone, Over
<1>11. ASSUME NEW a \in Thread \cup Ctl, AddSection(a) PROVE Declared'
  BY <1>11 DEF AddSection, MayAdd, DldrRunning, IsDone, Over
<1>12. ASSUME NEW a \in Thread \cup Ctl, AddFails(a) PROVE Declared'
  BY <1>12 DEF AddFails, Back, DldrRunning, IsDone, Over
<1>13. ASSUME NEW a \in Thread \cup Ctl, AddOpened(a) PROVE Declared'
  BY <1>13 DEF AddOpened, DldrRunning, IsDone, Over
<1>14. ASSUME NEW a \in Thread \cup Ctl, AddInsert(a) PROVE Declared'
  BY <1>14 DEF AddInsert, DldrRunning, IsDone, Over
<1>15. ASSUME NEW a \in Thread \cup Ctl, NEW s \in 1..n, NEW t \in Thread,
             Launches(a, s, t)
      PROVE  Declared'
  BY <1>15 DEF Launches, Special, DldrRunning, IsDone, Over
<1> QED
  BY <1>1, <1>2, <1>3, <1>4, <1>5, <1>6, <1>7, <1>8, <1>9, <1>10, <1>11, <1>12,
     <1>13, <1>14, <1>15
  DEF KindOfStep
-----------------------------------------------------------------------------
(* The flags, the file and what the manager is told.                       *)

\* A thread that adds a section leaves others running, or does it in vain.
AddersWork ==
  \A t \in Thread : pc[t] \in AddPC =>
    DldrRunning \/ (csDone = t /\ pc[t] = "add_open" /\ IsDone)

\* So it is in every state in which HandlerKeeps holds.
LEMMA Adders ==
  ASSUME Ground, HandlerKeeps
  PROVE  AddersWork
<1> SUFFICES ASSUME NEW t \in Thread, pc[t] \in AddPC, ~DldrRunning
             PROVE  csDone = t /\ pc[t] = "add_open" /\ IsDone
  BY DEF AddersWork
<1>1. t \notin Counted
  BY DEF Ground, RunningInv
<1>2. csDone = t
  BY <1>1 DEF Counted
<1> QED
  BY <1>2 DEF HandlerKeeps, AddPC

\* A thread that is counted runs, one that begins to run is counted.
LEMMA Runs ==
  ASSUME Ground, NEW t \in Thread, pc[t] \in {"begin", "run", "leave"}
  PROVE  DldrRunning
BY DEF Ground, RunningInv, Counted

\* A section thread is no control thread.
LEMMA Apart ==
  ASSUME MgrAssumption
  PROVE  \A t \in Thread : \A d \in Ctl : t # d
BY DEF MgrAssumption

\* A control thread that takes a step leaves the others where they are.
LEMMA Busy ==
  ASSUME MgrAssumption, PlacesOK, NEW c \in Ctl, NEW d \in Ctl, c # d,
         \/ ThreadStarts(c) \/ StopCheck(c) \/ LaunchOneMoreSection(c)
         \/ StartDownload(c) \/ MainFails(c) \/ MainLaunch(c) \/ StartSection(c)
         \/ StartOpenFails(c) \/ StartResult(c) \/ SleepInterval(c) \/ AfterStart(c)
  PROVE  pc'[d] = pc[d] /\ pc[c] \notin {"none", "event"}
<1>0. c \in Actor /\ d \in Actor /\ pc \in [Actor -> ThreadPC \cup CtlPC \cup CallerPC]
  BY DEF Actor, PlacesOK
<1>l. ASSUME NEW s, NEW l, LaunchThread(c, s, l) PROVE pc'[d] = pc[d]
  <2>1. PICK t \in Thread : pc' = [pc EXCEPT ![t] = "begin", ![c] = l]
    BY <1>l DEF LaunchThread
  <2>2. t # d
    BY DEF MgrAssumption
  <2> QED
    BY <1>0, <2>1, <2>2
<1>1. CASE ThreadStarts(c)
  <2>1. /\ pc[c] \notin {"none", "event"}
        /\ pc' = pc \/ \E l \in CtlPC : pc' = [pc EXCEPT ![c] = l]
    BY <1>0, <1>1 DEF ThreadStarts, CtlPC, LoopPC, StartPC
  <2>2. CASE pc' = pc
    BY <2>1, <2>2
  <2>3. CASE \E l \in CtlPC : pc' = [pc EXCEPT ![c] = l]
    BY <1>0, <2>1, <2>3
  <2> QED
    BY <2>1, <2>2, <2>3
<1>2. CASE StopCheck(c)
  <2>1. /\ pc[c] \notin {"none", "event"}
        /\ pc' = pc \/ \E l \in CtlPC : pc' = [pc EXCEPT ![c] = l]
    BY <1>0, <1>2 DEF StopCheck, CtlPC, LoopPC, StartPC
  <2>2. CASE pc' = pc
    BY <2>1, <2>2
  <2>3. CASE \E l \in CtlPC : pc' = [pc EXCEPT ![c] = l]
    BY <1>0, <2>1, <2>3
  <2> QED
    BY <2>1, <2>2, <2>3
<1>3. CASE LaunchOneMoreSection(c)
  BY <1>0, <1>3, <1>l DEF LaunchOneMoreSection
<1>4. CASE StartDownload(c)
  <2>1. /\ pc[c] \notin {"none", "event"}
        /\ pc' = pc \/ \E l \in CtlPC : pc' = [pc EXCEPT ![c] = l]
    BY <1>0, <1>4 DEF StartDownload, CtlPC, LoopPC, StartPC
  <2>2. CASE pc' = pc
    BY <2>1, <2>2
  <2>3. CASE \E l \in CtlPC : pc' = [pc EXCEPT ![c] = l]
    BY <1>0, <2>1, <2>3
  <2> QED
    BY <2>1, <2>2, <2>3
<1>5. CASE MainFails(c)
  BY <1>0, <1>5 DEF MainFails
<1>6. CASE MainLaunch(c)
  BY <1>0, <1>6, <1>l DEF MainLaunch
<1>7. CASE StartSection(c)
  BY <1>0, <1>7, <1>l DEF StartSection
<1>8. CASE StartOpenFails(c)
  <2>1. /\ pc[c] \notin {"none", "event"}
        /\ pc' = pc \/ \E l \in CtlPC : pc' = [pc EXCEPT ![c] = l]
    BY <1>0, <1>8 DEF StartOpenFails, CtlPC, LoopPC, StartPC
  <2>2. CASE pc' = pc
    BY <2>1, <2>2
  <2>3. CASE \E l \in CtlPC : pc' = [pc EXCEPT ![c] = l]
    BY <1>0, <2>1, <2>3
  <2> QED
    BY <2>1, <2>2, <2>3
<1>9. CASE StartResult(c)
  BY <1>0, <1>9 DEF StartResult
<1>10. CASE SleepInterval(c)
  <2>1. /\ pc[c] \notin {"none", "event"}
        /\ pc' = pc \/ \E l \in CtlPC : pc' = [pc EXCEPT ![c] = l]
    BY <1>0, <1>10 DEF SleepInterval, CtlPC, LoopPC, StartPC
  <2>2. CASE pc' = pc
    BY <2>1, <2>2
  <2>3. CASE \E l \in CtlPC : pc' = [pc EXCEPT ![c] = l]
    BY <1>0, <2>1, <2>3
  <2> QED
    BY <2>1, <2>2, <2>3
<1>11. CASE AfterStart(c)
  <2>1. pc[c] \notin {"none", "event"} /\ \E l \in CtlPC : pc' = [pc EXCEPT ![c] = l]
    BY <1>0, <1>11 DEF AfterStart, CtlPC, LoopPC, StartPC
  <2> QED
    BY <1>0, <2>1
<1> QED
  BY <1>1, <1>2, <1>3, <1>4, <1>5, <1>6, <1>7, <1>8, <1>9, <1>10, <1>11

\* DS_DOWNLOADING is not taken away while a thread adds a section.
LEMMA AddFlagStep ==
  ASSUME Ground, InWork, HandlerKeeps, StartKeeps, GoInv, Outcome, AddFlag,
         ~Again, Step
  PROVE  AddFlag'
<1> USE DEF Ground, PlacesOK, DataOK, Actor, Thread, SectId, HandlerPC, CtlPC,
            AddPC, LoopPC, StartPC, CallerPC, MgrAssumption, ThreadPC, FlagsOK,
            LockInv, AddFlag
<1>a. AddersWork
  BY Adders
<1>1. ASSUME NEW p \in Caller, StartCall(p) PROVE AddFlag'
  BY <1>1 DEF StartCall
<1>2. ASSUME NEW p \in Caller, Launch(p) PROVE AddFlag'
  <2>1. ~DldrRunning /\ ~IsDone
    BY <1>2 DEF Launch, GoInv
  <2>2. \A t \in Thread : pc[t] \notin AddPC
    BY <2>1, NoAdders
  <2> QED
    BY <1>2, <2>2 DEF Launch
<1>3. ASSUME NEW p \in Caller, StopCall(p) PROVE AddFlag'
  BY <1>3 DEF StopCall, DldrRunning, IsDone
<1>4. ASSUME NEW p \in Caller, StopDldr(p) PROVE AddFlag'
  BY <1>4 DEF StopDldr, DldrRunning, IsDone
<1>5. ASSUME NEW c \in Ctl, ThreadStarts(c) PROVE AddFlag'
  BY <1>5 DEF ThreadStarts, Fault, DldrRunning, IsDone
<1>6. ASSUME NEW c \in Ctl, LoopNeedStart(c) PROVE AddFlag'
  BY <1>6 DEF LoopNeedStart, DldrRunning, IsDone
<1>7. ASSUME NEW c \in Ctl, LoopRuns(c) PROVE AddFlag'
  BY <1>7 DEF LoopRuns, DldrRunning, IsDone
<1>8. ASSUME NEW c \in Ctl, StopCheck(c) PROVE AddFlag'
  BY <1>8 DEF StopCheck, DldrRunning, IsDone
<1>9. ASSUME NEW c \in Ctl, WorkDone(c) PROVE AddFlag'
  BY <1>9 DEF WorkDone, DldrRunning, IsDone
<1>10. ASSUME NEW c \in Ctl, Watchdog(c) PROVE AddFlag'
  BY <1>10 DEF Watchdog, Fault
<1>11. ASSUME NEW c \in Ctl, WatchdogStopped(c) PROVE AddFlag'
  BY <1>11 DEF WatchdogStopped, DldrRunning, IsDone
<1>12. ASSUME NEW c \in Ctl, LaunchOneMoreSection(c) PROVE AddFlag'
  BY <1>12 DEF LaunchOneMoreSection, LaunchThread, DldrRunning, IsDone
<1>13. ASSUME NEW c \in Ctl, StartDownload(c) PROVE AddFlag'
  BY <1>13 DEF StartDownload, DldrRunning, IsDone
<1>14. ASSUME NEW c \in Ctl, MainFails(c) PROVE AddFlag'
  BY <1>14 DEF MainFails, OpenError
<1>15. ASSUME NEW c \in Ctl, MainNoFile(c) PROVE AddFlag'
  BY <1>15 DEF MainNoFile, FileRefused, Fault
<1>16. ASSUME NEW c \in Ctl, MainOpened(c) PROVE AddFlag'
  BY <1>16 DEF MainOpened, SlotInv
<1>17. ASSUME NEW c \in Ctl, MainLaunch(c) PROVE AddFlag'
  BY ZenonT(30), <1>17, <1>a DEF MainLaunch, LaunchThread, DldrRunning, IsDone
<1>18. ASSUME NEW c \in Ctl, StartSkip(c) PROVE AddFlag'
  BY <1>18 DEF StartSkip, DldrRunning, IsDone
<1>19. ASSUME NEW c \in Ctl, StartSection(c) PROVE AddFlag'
  BY <1>19 DEF StartSection, LaunchThread, StartKeeps, LaunchThread
<1>20. ASSUME NEW c \in Ctl, StartNoFile(c) PROVE AddFlag'
  BY <1>20 DEF StartNoFile, FileRefused, Fault, DldrRunning, IsDone
<1>21. ASSUME NEW c \in Ctl, StartOpenFails(c) PROVE AddFlag'
  BY <1>21 DEF StartOpenFails, OpenError, DldrRunning, IsDone
<1>22. ASSUME NEW c \in Ctl, StartAfresh(c) PROVE AddFlag'
  BY <1>22 DEF StartAfresh, StartKeeps
<1>23. ASSUME NEW c \in Ctl, StartReturns(c) PROVE AddFlag'
  BY <1>23 DEF StartReturns, DldrRunning, IsDone
<1>24. ASSUME NEW c \in Ctl, StartResult(c) PROVE AddFlag'
  BY <1>24 DEF StartResult, DldrRunning, IsDone
<1>25. ASSUME NEW c \in Ctl, StartTests(c) PROVE AddFlag'
  BY <1>25 DEF StartTests, DldrRunning, IsDone
<1>26. ASSUME NEW c \in Ctl, SetDownloading(c) PROVE AddFlag'
  BY <1>26 DEF SetDownloading
<1>27. ASSUME NEW c \in Ctl, SleepInterval(c) PROVE AddFlag'
  BY <1>27 DEF SleepInterval, DldrRunning, IsDone
<1>28. ASSUME NEW c \in Ctl, AfterStart(c) PROVE AddFlag'
  BY <1>28 DEF AfterStart, DldrRunning, IsDone
<1>29. ASSUME NEW c \in Ctl, LoopEnds(c) PROVE AddFlag'
  BY <1>29 DEF LoopEnds, DldrRunning, IsDone
<1>30. ASSUME NEW c \in Ctl, FatalError(c) PROVE AddFlag'
  <2>1. ~DldrRunning /\ ~IsDone
    BY <1>30 DEF FatalError, Outcome, OutcomeOf
  <2>2. \A t \in Thread : pc[t] \notin AddPC
    BY <2>1, NoAdders
  <2> QED
    BY <1>30, <2>2 DEF FatalError
<1>31. ASSUME NEW c \in Ctl, Stopped(c) PROVE AddFlag'
  BY <1>31, <1>a DEF Stopped, DldrRunning, IsDone, AddersWork
<1>32. ASSUME NEW c \in Ctl, Close(c) PROVE AddFlag'
  BY <1>32 DEF Close, DldrRunning, IsDone
<1>33. ASSUME NEW c \in Ctl, ThreadEnds(c) PROVE AddFlag'
  BY <1>33 DEF ThreadEnds, DldrRunning, IsDone
<1>34. ASSUME NEW c \in Ctl, StoppedOrDone(c) PROVE AddFlag'
  BY <1>34 DEF StoppedOrDone, DldrRunning, IsDone
<1>35. ASSUME NEW t \in Thread, ThreadBegin(t) PROVE AddFlag'
  <2>1. DldrRunning /\ cRunning' = cRunning
    BY <1>35, Runs DEF ThreadBegin
  <2> QED
    BY <1>35, <2>1 DEF ThreadBegin
<1>36. ASSUME NEW t \in Thread, SectionEnds(t) PROVE AddFlag'
  <2>1. DldrRunning /\ cRunning' = cRunning
    BY <1>36, Runs DEF SectionEnds
  <2> QED
    BY <1>36, <2>1 DEF SectionEnds
<1>37. ASSUME NEW t \in Thread, Leave(t) PROVE AddFlag'
  <2>1. DldrRunning
    BY <1>37, Runs DEF Leave
  <2> QED
    BY <1>37, <2>1 DEF Leave
<1>38. ASSUME NEW t \in Thread, SectionDone(t) PROVE AddFlag'
  BY <1>38 DEF SectionDone, DldrRunning, IsDone
<1>39. ASSUME NEW t \in Thread, NotAdded(t) PROVE AddFlag'
  BY <1>39 DEF NotAdded, DldrRunning, IsDone
<1>40. ASSUME NEW t \in Thread, OnDone(t) PROVE AddFlag'
  BY <1>40 DEF OnDone, DldrRunning, IsDone
<1>41. ASSUME NEW t \in Thread, SetDone(t) PROVE AddFlag'
  BY <1>41, <1>a DEF SetDone, Again, AddersWork
<1>42. ASSUME NEW t \in Thread, OnSectionStopped(t) PROVE AddFlag'
  BY <1>42 DEF OnSectionStopped, DldrRunning, IsDone
<1>43. ASSUME NEW t \in Thread, ClearDownloading(t) PROVE AddFlag'
  BY <1>43, <1>a DEF ClearDownloading, Again, AddersWork
<1>44. ASSUME NEW t \in Thread, AnnounceRestart(t) PROVE AddFlag'
  BY <1>44 DEF AnnounceRestart, DldrRunning, IsDone
<1>45. ASSUME NEW t \in Thread, SetNeedStart(t) PROVE AddFlag'
  BY <1>45 DEF SetNeedStart, DldrRunning, IsDone
<1>46. ASSUME NEW t \in Thread, SetNeedStop(t) PROVE AddFlag'
  BY <1>46 DEF SetNeedStop, DldrRunning, IsDone
<1>47. ASSUME NEW t \in Thread, ThreadExit(t) PROVE AddFlag'
  <2>1. csDone = t
    BY <1>47 DEF ThreadExit
  <2> QED
    BY <1>47, <1>a, <2>1 DEF ThreadExit, AddersWork, DldrRunning
<1>48. ASSUME NEW a \in Thread \cup Ctl, AddRefused(a) PROVE AddFlag'
  BY <1>48 DEF AddRefused, MayAdd, Back, DldrRunning, IsDone
<1>49. ASSUME NEW a \in Thread \cup Ctl, AddSection(a) PROVE AddFlag'
  BY <1>49 DEF AddSection, MayAdd
<1>50. ASSUME NEW a \in Thread \cup Ctl, AddFails(a) PROVE AddFlag'
  BY <1>50 DEF AddFails, Back
<1>51. ASSUME NEW a \in Thread \cup Ctl, AddOpened(a) PROVE AddFlag'
  BY <1>51 DEF AddOpened
<1>52. ASSUME NEW a \in Thread \cup Ctl, AddInsert(a) PROVE AddFlag'
  BY <1>52, <1>a DEF AddInsert, AddersWork
<1>53. ASSUME NEW a \in Thread \cup Ctl, AddLaunch(a) PROVE AddFlag'
  BY <1>53 DEF AddLaunch, LaunchThread, Back, AddersWork
<1> QED
  BY <1>1, <1>2, <1>3, <1>4, <1>5, <1>6, <1>7, <1>8, <1>9, <1>10, <1>11, <1>12,
     <1>13, <1>14, <1>15, <1>16, <1>17, <1>18, <1>19, <1>20, <1>21, <1>22, <1>23,
     <1>24, <1>25, <1>26, <1>27, <1>28, <1>29, <1>30, <1>31, <1>32, <1>33, <1>34,
     <1>35, <1>36, <1>37, <1>38, <1>39, <1>40, <1>41, <1>42, <1>43, <1>44, <1>45,
     <1>46, <1>47, <1>48, <1>49, <1>50, <1>51, <1>52, <1>53
  DEF Step, CallerSteps, ControlSteps, StartSteps, EndSteps, SectionSteps, AddSteps

\* The result of a start says whether a thread runs, until it has been looked at.
LEMMA OutcomeStep ==
  ASSUME Ground, Ground', InWork, HandlerKeeps, StartKeeps, ControlInv,
         "two" \notin odd, AddFlag, Outcome, ~Early, ~Early', Step
  PROVE  Outcome'
<1> USE DEF Ground, PlacesOK, DataOK, Actor, Thread, SectId, HandlerPC, CtlPC,
            AddPC, LoopPC, StartPC, CallerPC, MgrAssumption, ThreadPC, FlagsOK,
            LockInv, OutcomeOf
<1> SUFFICES ASSUME NEW d \in Ctl PROVE OutcomeOf(d)'
  BY DEF Outcome
<1>a. OutcomeOf(d) /\ AddersWork
  BY Adders DEF Outcome
<1>b. pc[d] \in StartPC => ~Acting
  BY DEF Early
<1>c. pc'[d] \in StartPC => ~Acting'
  BY DEF Early
<1>d. \A e \in Ctl : e # d /\ pc[d] \in LoopPC => pc[e] \in {"none", "event"}
  BY DEF OneControl, Controls
<1>e. pc'[d] \notin StartPC => OutcomeOf(d)'
  OBVIOUS
<1>1. ASSUME NEW p \in Caller, StartCall(p) PROVE OutcomeOf(d)'
  BY <1>1, <1>a DEF StartCall, DldrRunning, IsDone
<1>2. ASSUME NEW p \in Caller, Launch(p) PROVE OutcomeOf(d)'
  <2>1. PICK c \in Ctl :
          pc[c] = "none" /\ pc' = [pc EXCEPT ![p] = "idle", ![c] = "starting"]
    BY <1>2 DEF Launch
  <2>2. pc[d] \notin StartPC
    BY <1>2 DEF Launch, ControlInv, Controls
  <2>3. pc'[d] \notin StartPC
    BY <2>1, <2>2
  <2> QED
    BY <1>e, <2>3
<1>3. ASSUME NEW p \in Caller, StopCall(p) PROVE OutcomeOf(d)'
  BY <1>3, <1>a DEF StopCall, DldrRunning, IsDone
<1>4. ASSUME NEW p \in Caller, StopDldr(p) PROVE OutcomeOf(d)'
  BY <1>4, <1>a DEF StopDldr, DldrRunning, IsDone
<1>5. ASSUME NEW c \in Ctl, ThreadStarts(c) PROVE OutcomeOf(d)'
  <2>1. CASE c # d
    <3>1. pc'[d] = pc[d] /\ pc[c] \notin {"none", "event"}
      BY <1>5, <2>1, Busy
    <3> QED
      BY <1>d, <1>e, <2>1, <3>1
  <2>2. CASE c = d
    BY <1>5, <2>2, <1>a, <1>b, <1>c DEF ThreadStarts, Fault, DldrRunning, IsDone
  <2> QED
    BY <2>1, <2>2
<1>6. ASSUME NEW c \in Ctl, LoopNeedStart(c) PROVE OutcomeOf(d)'
  BY <1>6, <1>d DEF LoopNeedStart
<1>7. ASSUME NEW c \in Ctl, LoopRuns(c) PROVE OutcomeOf(d)'
  BY <1>7, <1>d DEF LoopRuns
<1>8. ASSUME NEW c \in Ctl, StopCheck(c) PROVE OutcomeOf(d)'
  <2>1. CASE c # d
    <3>1. pc'[d] = pc[d] /\ pc[c] \notin {"none", "event"}
      BY <1>8, <2>1, Busy
    <3> QED
      BY <1>d, <1>e, <2>1, <3>1
  <2>2. CASE c = d
    BY <1>8, <2>2, <1>a, <1>b, <1>c DEF StopCheck, DldrRunning, IsDone
  <2> QED
    BY <2>1, <2>2
<1>9. ASSUME NEW c \in Ctl, WorkDone(c) PROVE OutcomeOf(d)'
  BY <1>9, <1>d DEF WorkDone
<1>10. ASSUME NEW c \in Ctl, Watchdog(c) PROVE OutcomeOf(d)'
  BY <1>10, <1>d DEF Watchdog, Fault
<1>11. ASSUME NEW c \in Ctl, WatchdogStopped(c) PROVE OutcomeOf(d)'
  BY <1>11, <1>d DEF WatchdogStopped
<1>12. ASSUME NEW c \in Ctl, LaunchOneMoreSection(c) PROVE OutcomeOf(d)'
  <2>1. CASE c # d
    <3>1. pc'[d] = pc[d] /\ pc[c] \notin {"none", "event"}
      BY <1>12, <2>1, Busy
    <3> QED
      BY <1>d, <1>e, <2>1, <3>1
  <2>2. CASE c = d
    <3>1. pc'[d] \notin StartPC
      BY <1>12, <2>2 DEF LaunchOneMoreSection, LaunchThread
    <3> QED
      BY <1>e, <3>1
  <2> QED
    BY <2>1, <2>2
<1>13. ASSUME NEW c \in Ctl, StartDownload(c) PROVE OutcomeOf(d)'
  <2>1. CASE c # d
    <3>1. pc'[d] = pc[d] /\ pc[c] \notin {"none", "event"}
      BY <1>13, <2>1, Busy
    <3> QED
      BY <1>d, <1>e, <2>1, <3>1
  <2>2. CASE c = d
    <3>1. ~announced' /\ pc'[d] \in {"main_open", "result", "start_sect"}
          /\ (pc'[d] = "result" => ir' = "S_FALSE")
      BY <1>13, <2>2 DEF StartDownload
    <3> QED
      BY <3>1
  <2> QED
    BY <2>1, <2>2
<1>14. ASSUME NEW c \in Ctl, MainFails(c) PROVE OutcomeOf(d)'
  <2>1. CASE c # d
    <3>1. pc'[d] = pc[d] /\ pc[c] \notin {"none", "event"}
      BY <1>14, <2>1, Busy
    <3> QED
      BY <1>d, <1>e, <2>1, <3>1
  <2>2. CASE c = d
    <3>1. n = 0 /\ n' = n /\ cRunning' = cRunning
      BY <1>14 DEF MainFails, SlotInv
    <3>2. Counted = {}
      BY <3>1 DEF InWork, Counted
    <3>3. ~DldrRunning' /\ ~IsDone'
      BY <3>1, <3>2 DEF RunningInv, IsDone, DldrRunning
    <3>4. pc[d] = "main_open" /\ pc'[d] = "result" /\ announced' = announced
          /\ ir' # "SUCCESS"
      BY <1>14, <2>2 DEF MainFails, OpenError
    <3> QED
      BY <1>a, <3>3, <3>4
  <2> QED
    BY <2>1, <2>2
<1>15. ASSUME NEW c \in Ctl, MainNoFile(c) PROVE OutcomeOf(d)'
  BY <1>15, <1>a DEF MainNoFile, FileRefused, Fault, DldrRunning, IsDone
<1>16. ASSUME NEW c \in Ctl, MainOpened(c) PROVE OutcomeOf(d)'
  BY <1>16, <1>a DEF MainOpened, DldrRunning, IsDone
<1>17. ASSUME NEW c \in Ctl, MainLaunch(c) PROVE OutcomeOf(d)'
  <2>1. CASE c # d
    <3>1. pc'[d] = pc[d] /\ pc[c] \notin {"none", "event"}
      BY <1>17, <2>1, Busy
    <3> QED
      BY <1>d, <1>e, <2>1, <3>1
  <2>2. CASE c = d
    <3>1. pc[d] = "main_launch" /\ pc'[d] = "result" /\ announced' = announced
      BY <1>17, <2>2 DEF MainLaunch, LaunchThread
    <3>2. ir' \notin {"ERROR", "BREAK", "STOP"} \/ pc'[d] # "result"
      BY <1>17, <2>2, <3>1 DEF MainLaunch
    <3>3. cRunning' = cRunning + 1 /\ Counted' # {}
      <4>1. PICK t \in Thread : pc'[t] = "begin" /\ cRunning' = cRunning + 1
        <5>1. PICK t \in Thread : /\ pc' = [pc EXCEPT ![t] = "begin", ![c] = "result"]
                                  /\ cRunning' = cRunning + 1
          BY <1>17 DEF MainLaunch, LaunchThread
        <5>2. pc'[t] = "begin"
          BY <5>1
        <5> QED
          BY <5>1, <5>2
      <4>2. t \in Counted'
        BY <4>1 DEF Counted
      <4> QED
        BY <4>1, <4>2
    <3>4. DldrRunning'
      BY <3>3 DEF RunningInv
    <3> QED
      BY <1>a, <3>1, <3>2, <3>4
  <2> QED
    BY <2>1, <2>2
<1>18. ASSUME NEW c \in Ctl, StartSkip(c) PROVE OutcomeOf(d)'
  BY <1>18, <1>a DEF StartSkip, DldrRunning, IsDone
<1>19. ASSUME NEW c \in Ctl, StartSection(c) PROVE OutcomeOf(d)'
  <2>1. CASE c # d
    <3>1. pc'[d] = pc[d] /\ pc[c] \notin {"none", "event"}
      BY <1>19, <2>1, Busy
    <3> QED
      BY <1>d, <1>e, <2>1, <3>1
  <2>2. CASE c = d
    <3>1. pc[d] = "start_sect" /\ pc'[d] = "start_sect" /\ announced' = announced
      BY <1>19, <2>2 DEF StartSection, LaunchThread
    <3>2. ir' \notin {"ERROR", "BREAK", "STOP"} \/ pc'[d] # "result"
      BY <1>19, <2>2, <3>1 DEF StartSection
    <3>3. cRunning' = cRunning + 1 /\ Counted' # {}
      <4>1. PICK t \in Thread : pc'[t] = "begin" /\ cRunning' = cRunning + 1
        <5>1. PICK t \in Thread :
                /\ pc' = [pc EXCEPT ![t] = "begin", ![c] = "start_sect"]
                /\ cRunning' = cRunning + 1
          BY <1>19 DEF StartSection, LaunchThread
        <5>2. pc'[t] = "begin"
          BY <5>1
        <5> QED
          BY <5>1, <5>2
      <4>2. t \in Counted'
        BY <4>1 DEF Counted
      <4> QED
        BY <4>1, <4>2
    <3>4. DldrRunning'
      BY <3>3 DEF RunningInv
    <3> QED
      BY <1>a, <3>1, <3>2, <3>4
  <2> QED
    BY <2>1, <2>2
<1>20. ASSUME NEW c \in Ctl, StartNoFile(c) PROVE OutcomeOf(d)'
  BY <1>20, <1>a DEF StartNoFile, FileRefused, Fault, DldrRunning, IsDone
<1>21. ASSUME NEW c \in Ctl, StartOpenFails(c) PROVE OutcomeOf(d)'
  <2>1. CASE c # d
    <3>1. pc'[d] = pc[d] /\ pc[c] \notin {"none", "event"}
      BY <1>21, <2>1, Busy
    <3> QED
      BY <1>d, <1>e, <2>1, <3>1
  <2>2. CASE c = d
    <3>1. pc[d] = "start_sect" /\ announced' = announced
          /\ UNCHANGED <<n, state, cRunning>>
      BY <1>21, <2>2 DEF StartOpenFails
    <3>2. ~IsDone'
      BY <1>21, <3>1 DEF StartOpenFails, IsDone
    <3>3. CASE bOneStarted
      <4>1. pc' = pc
        BY <1>21, <3>3 DEF StartOpenFails
      <4> QED
        BY <1>a, <3>1, <4>1
    <3>4. CASE ~bOneStarted
      <4>1. ir' # "SUCCESS" /\ pc'[d] = "result"
        BY <1>21, <2>2, <3>4 DEF StartOpenFails, OpenError
      <4>2. ~DldrRunning'
        BY <3>1, <3>4 DEF StartKeeps, DldrRunning
      <4> QED
        BY <1>a, <3>1, <3>2, <4>1, <4>2
    <3> QED
      BY <3>3, <3>4
  <2> QED
    BY <2>1, <2>2
<1>22. ASSUME NEW c \in Ctl, StartAfresh(c) PROVE OutcomeOf(d)'
  BY <1>22, <1>d DEF StartAfresh
<1>23. ASSUME NEW c \in Ctl, StartReturns(c) PROVE OutcomeOf(d)'
  BY <1>23, <1>a DEF StartReturns, DldrRunning, IsDone
<1>24. ASSUME NEW c \in Ctl, StartResult(c) PROVE OutcomeOf(d)'
  <2>1. CASE c # d
    <3>1. pc'[d] = pc[d] /\ pc[c] \notin {"none", "event"}
      BY <1>24, <2>1, Busy
    <3> QED
      BY <1>d, <1>e, <2>1, <3>1
  <2>2. CASE c = d
    <3>1. pc[d] = "result" /\ pc'[d] = "tests" /\ announced' = announced
          /\ lastError' = (IF ir = "STOP" THEN "S_FALSE" ELSE ir)
          /\ dw' = (IF ir = "STOP" \/ (ir = "S_FALSE" /\ ~DldrRunning)
                    THEN dw \cup {"NEEDSTOP"} ELSE dw)
      BY <1>24, <2>2 DEF StartResult
    <3>2. (DldrRunning' <=> DldrRunning) /\ (IsDone' <=> IsDone)
      BY <1>24 DEF StartResult, DldrRunning, IsDone
    <3>3. ir \in {"SUCCESS", "S_FALSE", "ERROR", "BREAK", "STOP"}
      BY DEF Result
    <3> QED
      BY <1>a, <3>1, <3>2, <3>3
  <2> QED
    BY <2>1, <2>2
<1>25. ASSUME NEW c \in Ctl, StartTests(c) PROVE OutcomeOf(d)'
  BY <1>25, <1>a DEF StartTests, DldrRunning, IsDone
<1>26. ASSUME NEW c \in Ctl, SetDownloading(c) PROVE OutcomeOf(d)'
  BY <1>26, <1>a DEF SetDownloading, DldrRunning, IsDone
<1>27. ASSUME NEW c \in Ctl, SleepInterval(c) PROVE OutcomeOf(d)'
  <2>1. CASE c # d
    <3>1. pc'[d] = pc[d] /\ pc[c] \notin {"none", "event"}
      BY <1>27, <2>1, Busy
    <3> QED
      BY <1>d, <1>e, <2>1, <3>1
  <2>2. CASE c = d
    BY <1>27, <2>2, <1>a, <1>b, <1>c DEF SleepInterval, DldrRunning, IsDone
  <2> QED
    BY <2>1, <2>2
<1>28. ASSUME NEW c \in Ctl, AfterStart(c) PROVE OutcomeOf(d)'
  BY <1>28, <1>a, <1>d DEF AfterStart, DldrRunning, IsDone
<1>29. ASSUME NEW c \in Ctl, LoopEnds(c) PROVE OutcomeOf(d)'
  BY <1>29, <1>d DEF LoopEnds
<1>30. ASSUME NEW c \in Ctl, FatalError(c) PROVE OutcomeOf(d)'
  BY <1>30, <1>d DEF FatalError
<1>31. ASSUME NEW c \in Ctl, Stopped(c) PROVE OutcomeOf(d)'
  BY <1>31, <1>d DEF Stopped
<1>32. ASSUME NEW c \in Ctl, Close(c) PROVE OutcomeOf(d)'
  BY <1>32, <1>d DEF Close
<1>33. ASSUME NEW c \in Ctl, ThreadEnds(c) PROVE OutcomeOf(d)'
  BY <1>33, <1>d DEF ThreadEnds
<1>34. ASSUME NEW c \in Ctl, StoppedOrDone(c) PROVE OutcomeOf(d)'
  BY <1>34, <1>a DEF StoppedOrDone, DldrRunning, IsDone
<1>35. ASSUME NEW t \in Thread, ThreadBegin(t) PROVE OutcomeOf(d)'
  BY <1>35, <1>a DEF ThreadBegin, DldrRunning, IsDone
<1>36. ASSUME NEW t \in Thread, SectionEnds(t) PROVE OutcomeOf(d)'
  <2>1. DldrRunning /\ cRunning' = cRunning
    BY <1>36, Runs DEF SectionEnds
  <2>2. DldrRunning' /\ UNCHANGED <<dw, ir, announced, lastError>> /\ pc'[d] = pc[d]
    BY <1>36, <2>1 DEF SectionEnds, DldrRunning
  <2> QED
    BY <1>a, <2>1, <2>2
<1>37. ASSUME NEW t \in Thread, Leave(t) PROVE OutcomeOf(d)'
  BY <1>37, <1>a, <1>c DEF Leave, DldrRunning, IsDone, Acting
<1>38. ASSUME NEW t \in Thread, SectionDone(t) PROVE OutcomeOf(d)'
  BY <1>38, <1>a DEF SectionDone, DldrRunning, IsDone
<1>39. ASSUME NEW t \in Thread, NotAdded(t) PROVE OutcomeOf(d)'
  BY <1>39, <1>a DEF NotAdded, DldrRunning, IsDone
<1>40. ASSUME NEW t \in Thread, OnDone(t) PROVE OutcomeOf(d)'
  BY <1>40, <1>a DEF OnDone, DldrRunning, IsDone
<1>41. ASSUME NEW t \in Thread, SetDone(t) PROVE OutcomeOf(d)'
  BY <1>41, <1>b DEF SetDone, Acting
<1>42. ASSUME NEW t \in Thread, OnSectionStopped(t) PROVE OutcomeOf(d)'
  BY <1>42, <1>a DEF OnSectionStopped, DldrRunning, IsDone
<1>43. ASSUME NEW t \in Thread, ClearDownloading(t) PROVE OutcomeOf(d)'
  BY <1>43, <1>b DEF ClearDownloading, Acting
<1>44. ASSUME NEW t \in Thread, AnnounceRestart(t) PROVE OutcomeOf(d)'
  BY <1>44, <1>b DEF AnnounceRestart, Acting
<1>45. ASSUME NEW t \in Thread, SetNeedStart(t) PROVE OutcomeOf(d)'
  BY <1>45, <1>a DEF SetNeedStart, DldrRunning, IsDone
<1>46. ASSUME NEW t \in Thread, SetNeedStop(t) PROVE OutcomeOf(d)'
  BY <1>46, <1>a DEF SetNeedStop, DldrRunning, IsDone
<1>47. ASSUME NEW t \in Thread, ThreadExit(t) PROVE OutcomeOf(d)'
  BY <1>47, <1>a DEF ThreadExit, DldrRunning, IsDone
<1>48. ASSUME NEW a \in Thread \cup Ctl, AddRefused(a) PROVE OutcomeOf(d)'
  BY <1>48, <1>a, <1>d
  DEF AddRefused, MayAdd, Back, DldrRunning, IsDone, AddFlag
<1>49. ASSUME NEW a \in Thread \cup Ctl, AddSection(a) PROVE OutcomeOf(d)'
  BY <1>49, <1>a DEF AddSection, MayAdd, DldrRunning, IsDone
<1>50. ASSUME NEW a \in Thread \cup Ctl, AddFails(a) PROVE OutcomeOf(d)'
  BY <1>50, <1>a, <1>d DEF AddFails, Back, DldrRunning, IsDone, AddFlag
<1>51. ASSUME NEW a \in Thread \cup Ctl, AddOpened(a) PROVE OutcomeOf(d)'
  BY <1>51, <1>a DEF AddOpened, DldrRunning, IsDone
<1>52. ASSUME NEW a \in Thread \cup Ctl, AddInsert(a) PROVE OutcomeOf(d)'
  BY <1>52, <1>a DEF AddInsert, DldrRunning, IsDone
<1>53. ASSUME NEW a \in Thread \cup Ctl, AddLaunch(a) PROVE OutcomeOf(d)'
  <2>1. PICK t \in Thread :
          pc' = [pc EXCEPT ![t] = "begin", ![a] = Back(a)] /\ cRunning' = cRunning + 1
    BY <1>53 DEF AddLaunch, LaunchThread
  <2>2. UNCHANGED <<dw, ir, announced, n, state>> /\ lastError' = "SUCCESS"
        /\ pc[a] = "add_launch"
    BY <1>53 DEF AddLaunch
  <2>3. CASE a \in Ctl
    <3>1. pc[a] = "add_launch" /\ pc'[a] = "work"
      BY <2>1, <2>2, <2>3 DEF Back
    <3>2. pc'[d] \notin StartPC
      <4>1. CASE a = d
        BY <3>1, <4>1
      <4>2. CASE a # d
        <5>1. pc'[d] = pc[d]
          BY <2>1, <2>3, <4>2
        <5> QED
          BY <1>d, <2>3, <3>1, <4>2, <5>1
      <4> QED
        BY <4>1, <4>2
    <3> QED
      BY <1>e, <3>2
  <2>4. CASE a \in Thread
    <3>1. DldrRunning /\ "DOWNLOADING" \in dw
      BY <1>a, <2>2, <2>4 DEF AddersWork, AddFlag
    <3>2. DldrRunning'
      BY <2>1, <3>1 DEF DldrRunning
    <3>3. pc'[d] = pc[d]
      <4>2. t # d
        BY Apart
      <4>3. a # d
        BY SMTT(30), <2>4, Apart
      <4> QED
        BY <2>1, <4>2, <4>3
    <3> QED
      BY <1>a, <2>2, <3>1, <3>2, <3>3
  <2> QED
    BY <2>3, <2>4
<1> QED
  BY ZenonT(30),
     <1>1, <1>2, <1>3, <1>4, <1>5, <1>6, <1>7, <1>8, <1>9, <1>10, <1>11, <1>12,
     <1>13, <1>14, <1>15, <1>16, <1>17, <1>18, <1>19, <1>20, <1>21, <1>22, <1>23,
     <1>24, <1>25, <1>26, <1>27, <1>28, <1>29, <1>30, <1>31, <1>32, <1>33, <1>34,
     <1>35, <1>36, <1>37, <1>38, <1>39, <1>40, <1>41, <1>42, <1>43, <1>44, <1>45,
     <1>46, <1>47, <1>48, <1>49, <1>50, <1>51, <1>52, <1>53
  DEF Step, CallerSteps, ControlSteps, StartSteps, EndSteps, SectionSteps, AddSteps

\* The download is declared complete by SetDone only.
LEMMA Completions ==
  ASSUME completions \in Nat, KindOfStep
  PROVE  completions' \in {completions, completions + 1}
<1> USE DEF listV
<1>1. CASE Calm
  BY <1>1 DEF Calm, ListKept, Special
<1>2. ASSUME NEW p \in Caller, StartCall(p)
      PROVE  completions' \in {completions, completions + 1}
  BY <1>2 DEF StartCall
<1>3. ASSUME NEW c \in Ctl, StartsDownloader(c)
      PROVE  completions' \in {completions, completions + 1}
  BY <1>3 DEF StartsDownloader, ListKept, Special
<1>4. ASSUME NEW c \in Ctl, MainOpened(c)
      PROVE  completions' \in {completions, completions + 1}
  BY <1>4 DEF MainOpened
<1>5. ASSUME NEW c \in Ctl, StartAfresh(c)
      PROVE  completions' \in {completions, completions + 1}
  BY <1>5 DEF StartAfresh
<1>6. ASSUME NEW t \in Thread, ThreadBegin(t)
      PROVE  completions' \in {completions, completions + 1}
  BY <1>6 DEF ThreadBegin
<1>7. ASSUME NEW t \in Thread, SectionEnds(t)
      PROVE  completions' \in {completions, completions + 1}
  BY <1>7 DEF SectionEnds
<1>8. ASSUME NEW t \in Thread, Leave(t)
      PROVE  completions' \in {completions, completions + 1}
  BY <1>8 DEF Leave
<1>9. ASSUME NEW t \in Thread, Handles(t)
      PROVE  completions' \in {completions, completions + 1}
  BY <1>9 DEF Handles, ListKept, Special
<1>10. ASSUME NEW t \in Thread, ThreadExit(t)
       PROVE  completions' \in {completions, completions + 1}
  BY <1>10 DEF ThreadExit
<1>11. ASSUME NEW a \in Thread \cup Ctl, AddSection(a)
       PROVE  completions' \in {completions, completions + 1}
  BY <1>11 DEF AddSection, MayAdd
<1>12. ASSUME NEW a \in Thread \cup Ctl, AddFails(a)
       PROVE  completions' \in {completions, completions + 1}
  BY <1>12 DEF AddFails, Back
<1>13. ASSUME NEW a \in Thread \cup Ctl, AddOpened(a)
       PROVE  completions' \in {completions, completions + 1}
  BY <1>13 DEF AddOpened
<1>14. ASSUME NEW a \in Thread \cup Ctl, AddInsert(a)
       PROVE  completions' \in {completions, completions + 1}
  BY <1>14 DEF AddInsert
<1>15. ASSUME NEW a \in Thread \cup Ctl, NEW s \in 1..n, NEW t \in Thread,
             Launches(a, s, t)
      PROVE  completions' \in {completions, completions + 1}
  BY <1>15 DEF Launches, Special
<1> QED
  BY <1>1, <1>2, <1>3, <1>4, <1>5, <1>6, <1>7, <1>8, <1>9, <1>10, <1>11, <1>12,
     <1>13, <1>14, <1>15
  DEF KindOfStep

\* The control thread leaves the place where it attends the section threads when
\* none runs.
LEMMA AttendedStep ==
  ASSUME Ground, Ground', HandlerKeeps, GoInv, LastDecides, OverInv, Outcome,
         Attended, odd \subseteq odd', Step, KindOfStep
  PROVE  Attended'
<1> USE DEF Ground, PlacesOK, DataOK, Actor, Thread, SectId, HandlerPC, CtlPC,
            AddPC, LoopPC, StartPC, CallerPC, MgrAssumption, ThreadPC, Attending
<1> SUFFICES ASSUME completions' = 0 \/ "add" \notin odd', DldrRunning'
             PROVE  Attending'
  BY DEF Attended
<1>a. (completions = 0 \/ "add" \notin odd)
  BY Completions
<1>b. /\ (DldrRunning => Attending) /\ DldrRunning'
      /\ completions > 0 => "add" \notin odd
  BY <1>a DEF Attended
<1>c. \A t \in Thread : \A d \in Ctl : t # d
  BY Apart
<1>1. ASSUME NEW p \in Caller, StartCall(p) PROVE Attending'
  BY <1>1, <1>b DEF StartCall, DldrRunning
<1>2. ASSUME NEW p \in Caller, Launch(p) PROVE Attending'
  <2>1. cRunning' = cRunning /\ ~DldrRunning
    BY <1>2 DEF Launch, GoInv
  <2> QED
    BY <1>b, <2>1 DEF DldrRunning
<1>3. ASSUME NEW p \in Caller, StopCall(p) PROVE Attending'
  BY <1>3, <1>b DEF StopCall, DldrRunning
<1>4. ASSUME NEW p \in Caller, StopDldr(p) PROVE Attending'
  BY <1>4, <1>b DEF StopDldr, DldrRunning
<1>5. ASSUME NEW c \in Ctl, ThreadStarts(c) PROVE Attending'
  <2>1. cRunning' = cRunning /\ pc[c] = "starting"
    BY <1>5 DEF ThreadStarts
  <2>2. ~DldrRunning
    BY <1>b, <2>1 DEF OneControl, Controls
  <2> QED
    BY <1>b, <2>1, <2>2 DEF DldrRunning
<1>6. ASSUME NEW c \in Ctl, LoopNeedStart(c) PROVE Attending'
  BY <1>6 DEF LoopNeedStart
<1>7. ASSUME NEW c \in Ctl, LoopRuns(c) PROVE Attending'
  BY <1>7 DEF LoopRuns
<1>8. ASSUME NEW c \in Ctl, StopCheck(c) PROVE Attending'
  BY <1>8 DEF StopCheck
<1>9. ASSUME NEW c \in Ctl, WorkDone(c) PROVE Attending'
  BY <1>9 DEF WorkDone
<1>10. ASSUME NEW c \in Ctl, Watchdog(c) PROVE Attending'
  BY <1>10 DEF Watchdog, Fault
<1>11. ASSUME NEW c \in Ctl, WatchdogStopped(c) PROVE Attending'
  BY <1>11 DEF WatchdogStopped
<1>12. ASSUME NEW c \in Ctl, LaunchOneMoreSection(c) PROVE Attending'
  <2>1. pc'[c] \in LoopPC \ {"starting", "fatal"}
    BY <1>12 DEF LaunchOneMoreSection, LaunchThread
  <2> QED
    BY <2>1
<1>13. ASSUME NEW c \in Ctl, StartDownload(c) PROVE Attending'
  BY <1>13 DEF StartDownload
<1>14. ASSUME NEW c \in Ctl, MainFails(c) PROVE Attending'
  BY <1>14 DEF MainFails, OpenError
<1>15. ASSUME NEW c \in Ctl, MainNoFile(c) PROVE Attending'
  BY <1>15 DEF MainNoFile, FileRefused, Fault
<1>16. ASSUME NEW c \in Ctl, MainOpened(c) PROVE Attending'
  BY <1>16 DEF MainOpened
<1>17. ASSUME NEW c \in Ctl, MainLaunch(c) PROVE Attending'
  <2>1. pc'[c] \in LoopPC \ {"starting", "fatal"}
    BY <1>17 DEF MainLaunch, LaunchThread
  <2> QED
    BY <2>1
<1>18. ASSUME NEW c \in Ctl, StartSkip(c) PROVE Attending'
  BY <1>18 DEF StartSkip
<1>19. ASSUME NEW c \in Ctl, StartSection(c) PROVE Attending'
  <2>1. pc'[c] \in LoopPC \ {"starting", "fatal"}
    BY <1>19 DEF StartSection, LaunchThread
  <2> QED
    BY <2>1
<1>20. ASSUME NEW c \in Ctl, StartNoFile(c) PROVE Attending'
  BY <1>20 DEF StartNoFile, FileRefused, Fault
<1>21. ASSUME NEW c \in Ctl, StartOpenFails(c) PROVE Attending'
  BY <1>21 DEF StartOpenFails, OpenError
<1>22. ASSUME NEW c \in Ctl, StartAfresh(c) PROVE Attending'
  BY <1>22 DEF StartAfresh
<1>23. ASSUME NEW c \in Ctl, StartReturns(c) PROVE Attending'
  BY <1>23 DEF StartReturns
<1>24. ASSUME NEW c \in Ctl, StartResult(c) PROVE Attending'
  BY <1>24 DEF StartResult
<1>25. ASSUME NEW c \in Ctl, StartTests(c) PROVE Attending'
  BY <1>25 DEF StartTests
<1>26. ASSUME NEW c \in Ctl, SetDownloading(c) PROVE Attending'
  BY <1>26 DEF SetDownloading
<1>27. ASSUME NEW c \in Ctl, SleepInterval(c) PROVE Attending'
  BY <1>27 DEF SleepInterval
<1>28. ASSUME NEW c \in Ctl, AfterStart(c) PROVE Attending'
  <2>1. cRunning' = cRunning /\ pc' = [pc EXCEPT ![c] =
          IF dw \cap {"DOWNLOADING", "NEEDSTOP"} = {} /\ lastError # "S_FALSE"
          THEN "fatal" ELSE "stopcheck"] /\ pc[c] = "after"
    BY <1>28 DEF AfterStart
  <2>2. DldrRunning => pc'[c] = "stopcheck"
    BY <2>1 DEF Outcome, OutcomeOf
  <2> QED
    BY <1>b, <2>1, <2>2 DEF DldrRunning
<1>29. ASSUME NEW c \in Ctl, LoopEnds(c) PROVE Attending'
  <2>1. cRunning' = cRunning /\ pc[c] \in {"loop"} /\ "DONE" \in dw
    BY <1>29 DEF LoopEnds
  <2>2. ~DldrRunning
    BY <1>b, <2>1 DEF LastDecides, OverInv, Declared, Over
  <2> QED
    BY <1>b, <2>1, <2>2 DEF DldrRunning
<1>30. ASSUME NEW c \in Ctl, FatalError(c) PROVE Attending'
  <2>1. cRunning' = cRunning /\ pc[c] \in {"fatal"}
    BY <1>30 DEF FatalError
  <2>2. ~DldrRunning
    BY <2>1 DEF Outcome, OutcomeOf
  <2> QED
    BY <1>b, <2>1, <2>2 DEF DldrRunning
<1>31. ASSUME NEW c \in Ctl, Stopped(c) PROVE Attending'
  <2>1. cRunning' = cRunning /\ pc[c] \in {"stopwait"} /\ ~DldrRunning
    BY <1>31 DEF Stopped
  <2>2. ~DldrRunning
    BY <2>1
  <2> QED
    BY <1>b, <2>1, <2>2 DEF DldrRunning
<1>32. ASSUME NEW c \in Ctl, Close(c) PROVE Attending'
  <2>1. cRunning' = cRunning /\ pc[c] \in {"close"}
    BY <1>32 DEF Close
  <2>2. ~DldrRunning
    BY <1>b, <2>1 DEF OneControl, Controls
  <2> QED
    BY <1>b, <2>1, <2>2 DEF DldrRunning
<1>33. ASSUME NEW c \in Ctl, ThreadEnds(c) PROVE Attending'
  <2>1. cRunning' = cRunning /\ pc[c] \in {"ending"}
    BY <1>33 DEF ThreadEnds
  <2>2. ~DldrRunning
    BY <1>b, <2>1 DEF OneControl, Controls
  <2> QED
    BY <1>b, <2>1, <2>2 DEF DldrRunning
<1>34. ASSUME NEW c \in Ctl, StoppedOrDone(c) PROVE Attending'
  BY <1>34, <1>b DEF StoppedOrDone, DldrRunning
<1>35. ASSUME NEW t \in Thread, ThreadBegin(t) PROVE Attending'
  BY <1>35, <1>b DEF ThreadBegin, DldrRunning
<1>36. ASSUME NEW t \in Thread, SectionEnds(t) PROVE Attending'
  BY <1>36, <1>b DEF SectionEnds, Fault, DldrRunning
<1>37. ASSUME NEW t \in Thread, Leave(t) PROVE Attending'
  <2>1. DldrRunning
    BY <1>37, Runs DEF Leave
  <2> QED
    BY <1>37, <1>b, <2>1 DEF Leave
<1>38. ASSUME NEW t \in Thread, SectionDone(t) PROVE Attending'
  BY <1>38, <1>b DEF SectionDone, DldrRunning
<1>39. ASSUME NEW t \in Thread, NotAdded(t) PROVE Attending'
  BY <1>39, <1>b DEF NotAdded, DldrRunning
<1>40. ASSUME NEW t \in Thread, OnDone(t) PROVE Attending'
  BY <1>40, <1>b DEF OnDone, DldrRunning
<1>41. ASSUME NEW t \in Thread, SetDone(t) PROVE Attending'
  BY <1>41, <1>b DEF SetDone, DldrRunning
<1>42. ASSUME NEW t \in Thread, OnSectionStopped(t) PROVE Attending'
  BY <1>42, <1>b DEF OnSectionStopped, DldrRunning
<1>43. ASSUME NEW t \in Thread, ClearDownloading(t) PROVE Attending'
  BY <1>43, <1>b DEF ClearDownloading, DldrRunning
<1>44. ASSUME NEW t \in Thread, AnnounceRestart(t) PROVE Attending'
  BY <1>44, <1>b DEF AnnounceRestart, DldrRunning
<1>45. ASSUME NEW t \in Thread, SetNeedStart(t) PROVE Attending'
  BY <1>45, <1>b DEF SetNeedStart, DldrRunning
<1>46. ASSUME NEW t \in Thread, SetNeedStop(t) PROVE Attending'
  BY <1>46, <1>b DEF SetNeedStop, DldrRunning
<1>47. ASSUME NEW t \in Thread, ThreadExit(t) PROVE Attending'
  BY <1>47, <1>b DEF ThreadExit, DldrRunning
<1>48. ASSUME NEW a \in Thread \cup Ctl, AddRefused(a) PROVE Attending'
  BY <1>48, <1>b DEF AddRefused, MayAdd, Back, DldrRunning
<1>49. ASSUME NEW a \in Thread \cup Ctl, AddSection(a) PROVE Attending'
  BY <1>49, <1>b DEF AddSection, MayAdd, DldrRunning
<1>50. ASSUME NEW a \in Thread \cup Ctl, AddFails(a) PROVE Attending'
  BY <1>50, <1>b DEF AddFails, Back, DldrRunning
<1>51. ASSUME NEW a \in Thread \cup Ctl, AddOpened(a) PROVE Attending'
  BY <1>51, <1>b DEF AddOpened, DldrRunning
<1>52. ASSUME NEW a \in Thread \cup Ctl, AddInsert(a) PROVE Attending'
  BY <1>52, <1>b DEF AddInsert, DldrRunning
<1>53. ASSUME NEW a \in Thread \cup Ctl, AddLaunch(a) PROVE Attending'
  <2>1. CASE a \in Ctl
    <3>1. pc'[a] \in LoopPC \ {"starting", "fatal"}
      BY <1>53, <2>1 DEF AddLaunch, LaunchThread, Back
    <3> QED
      BY <2>1, <3>1
  <2>2. CASE a \in Thread
    <3>1. DldrRunning
      BY <1>53, <2>2, Adders DEF AddersWork, AddLaunch
    <3>2. \A d \in Ctl : pc'[d] = pc[d]
      <4>1. PICK t \in Thread : pc' = [pc EXCEPT ![t] = "begin", ![a] = Back(a)]
        BY <1>53 DEF AddLaunch, LaunchThread
      <4>2. \A d \in Ctl : d # a /\ d # t
        BY <2>2, Apart
      <4> QED
        BY <4>1, <4>2
    <3> QED
      BY <1>b, <3>1, <3>2
  <2> QED
    BY <2>1, <2>2
<1> QED
  BY <1>1, <1>2, <1>3, <1>4, <1>5, <1>6, <1>7, <1>8, <1>9, <1>10, <1>11, <1>12,
     <1>13, <1>14, <1>15, <1>16, <1>17, <1>18, <1>19, <1>20, <1>21, <1>22, <1>23,
     <1>24, <1>25, <1>26, <1>27, <1>28, <1>29, <1>30, <1>31, <1>32, <1>33, <1>34,
     <1>35, <1>36, <1>37, <1>38, <1>39, <1>40, <1>41, <1>42, <1>43, <1>44, <1>45,
     <1>46, <1>47, <1>48, <1>49, <1>50, <1>51, <1>52, <1>53
  DEF Step, CallerSteps, ControlSteps, StartSteps, EndSteps, SectionSteps, AddSteps

\* A download that has been declared complete, or whose file has been renamed,
\* stays so.
LEMMA FinishedStays ==
  ASSUME Ground, Finished, KindOfStep
  PROVE  Finished'
<1> USE DEF Ground, PlacesOK, DataOK, Actor, Thread, SectId, ThreadPC, HandlerPC,
            CtlPC, AddPC, LoopPC, StartPC, CallerPC, MgrAssumption, LockInv,
            Finished
<1>1. CASE Calm
  BY <1>1 DEF Calm, ListKept, Special
<1>2. ASSUME NEW p \in Caller, StartCall(p) PROVE Finished'
  BY <1>2 DEF StartCall
<1>3. ASSUME NEW c \in Ctl, StartsDownloader(c) PROVE Finished'
  BY <1>3 DEF StartsDownloader, ListKept, Special
<1>4. ASSUME NEW c \in Ctl, MainOpened(c) PROVE Finished'
  BY <1>4 DEF MainOpened
<1>5. ASSUME NEW c \in Ctl, StartAfresh(c) PROVE Finished'
  BY <1>5 DEF StartAfresh
<1>6. ASSUME NEW t \in Thread, ThreadBegin(t) PROVE Finished'
  BY <1>6 DEF ThreadBegin
<1>7. ASSUME NEW t \in Thread, SectionEnds(t) PROVE Finished'
  BY <1>7 DEF SectionEnds
<1>8. ASSUME NEW t \in Thread, Leave(t) PROVE Finished'
  BY <1>8 DEF Leave
<1>9. ASSUME NEW t \in Thread, Handles(t) PROVE Finished'
  <2>1. CASE pc[t] = "done_set"
    BY <1>9, <2>1 DEF Handles
  <2>2. CASE pc[t] # "done_set"
    <3>1. completions' = completions /\ \A u \in Thread \ {t} : pc'[u] = pc[u]
      BY <1>9, <2>2 DEF Handles
    <3> QED
      BY <2>2, <3>1
  <2> QED
    BY <2>1, <2>2
<1>10. ASSUME NEW t \in Thread, ThreadExit(t) PROVE Finished'
  BY <1>10 DEF ThreadExit
<1>11. ASSUME NEW a \in Thread \cup Ctl, AddSection(a) PROVE Finished'
  BY <1>11 DEF AddSection, MayAdd
<1>12. ASSUME NEW a \in Thread \cup Ctl, AddFails(a) PROVE Finished'
  BY <1>12 DEF AddFails, Back
<1>13. ASSUME NEW a \in Thread \cup Ctl, AddOpened(a) PROVE Finished'
  BY <1>13 DEF AddOpened
<1>14. ASSUME NEW a \in Thread \cup Ctl, AddInsert(a) PROVE Finished'
  BY <1>14 DEF AddInsert
<1>15. ASSUME NEW a \in Thread \cup Ctl, NEW s \in 1..n, NEW t \in Thread,
             Launches(a, s, t)
      PROVE  Finished'
  BY <1>15 DEF Launches, Special
<1> QED
  BY <1>1, <1>2, <1>3, <1>4, <1>5, <1>6, <1>7, <1>8, <1>9, <1>10, <1>11, <1>12,
     <1>13, <1>14, <1>15
  DEF KindOfStep

\* A thread that runs its handler of the last section is over.
LEMMA FinishedOver ==
  ASSUME Declared, completions \in Nat
  PROVE  Finished => Over
BY DEF Declared, Finished, Completing


\* No thread is launched for a closed file, and a file is not closed under a
\* thread.
LEMMA FileRuns ==
  ASSUME Ground, Ground', HandlerKeeps, ControlInv, "two" \notin odd,
         LastDecides, Declared, Outcome, DldrRunning => Attending, FileKept,
         Step, KindOfStep
  PROVE  DldrRunning' => fileOpen'
<1> USE DEF Ground, PlacesOK, DataOK, Actor, Thread, SectId, HandlerPC, CtlPC,
            AddPC, LoopPC, StartPC, CallerPC, MgrAssumption, ThreadPC
<1>f. (Finished => Finished') /\ (Finished => Over)
  BY FinishedStays, FinishedOver
<1>k. /\ DldrRunning => fileOpen
      /\ "DOWNLOADING" \in dw => fileOpen \/ Finished
  BY DEF FileKept
<1> SUFFICES ASSUME DldrRunning' PROVE fileOpen'
  OBVIOUS
<1>r. DldrRunning'
  OBVIOUS
<1>1. ASSUME NEW p \in Caller, StartCall(p) PROVE fileOpen'
  BY <1>1, <1>k DEF StartCall, DldrRunning
<1>2. ASSUME NEW p \in Caller, Launch(p) PROVE fileOpen'
  BY <1>2, <1>k DEF Launch, DldrRunning
<1>3. ASSUME NEW p \in Caller, StopCall(p) PROVE fileOpen'
  BY <1>3, <1>k DEF StopCall, DldrRunning
<1>4. ASSUME NEW p \in Caller, StopDldr(p) PROVE fileOpen'
  BY <1>4, <1>k DEF StopDldr, DldrRunning
<1>5. ASSUME NEW c \in Ctl, ThreadStarts(c) PROVE fileOpen'
  BY <1>5, <1>k DEF ThreadStarts, Fault, DldrRunning
<1>6. ASSUME NEW c \in Ctl, LoopNeedStart(c) PROVE fileOpen'
  BY <1>6, <1>k DEF LoopNeedStart, DldrRunning
<1>7. ASSUME NEW c \in Ctl, LoopRuns(c) PROVE fileOpen'
  BY <1>7, <1>k DEF LoopRuns, DldrRunning
<1>8. ASSUME NEW c \in Ctl, StopCheck(c) PROVE fileOpen'
  BY <1>8, <1>k DEF StopCheck, DldrRunning
<1>9. ASSUME NEW c \in Ctl, WorkDone(c) PROVE fileOpen'
  BY <1>9, <1>k DEF WorkDone, DldrRunning
<1>10. ASSUME NEW c \in Ctl, Watchdog(c) PROVE fileOpen'
  BY <1>10, <1>k DEF Watchdog, Fault, DldrRunning
<1>11. ASSUME NEW c \in Ctl, WatchdogStopped(c) PROVE fileOpen'
  BY <1>11 DEF WatchdogStopped, DldrRunning
<1>12. ASSUME NEW c \in Ctl, LaunchOneMoreSection(c) PROVE fileOpen'
  <2>1. fileOpen' = fileOpen /\ pc[c] = "work" /\ ~IsDone
    BY <1>12 DEF LaunchOneMoreSection, IsDone
  <2> QED
    BY <1>f, <2>1 DEF FileKept, FileOf, Over
<1>13. ASSUME NEW c \in Ctl, StartDownload(c) PROVE fileOpen'
  BY <1>13, <1>k DEF StartDownload, DldrRunning
<1>14. ASSUME NEW c \in Ctl, MainFails(c) PROVE fileOpen'
  BY <1>14, <1>k DEF MainFails, OpenError, DldrRunning
<1>15. ASSUME NEW c \in Ctl, MainNoFile(c) PROVE fileOpen'
  BY <1>15, <1>k DEF MainNoFile, FileRefused, Fault, DldrRunning
<1>16. ASSUME NEW c \in Ctl, MainOpened(c) PROVE fileOpen'
  BY <1>16 DEF MainOpened
<1>17. ASSUME NEW c \in Ctl, MainLaunch(c) PROVE fileOpen'
  BY <1>17 DEF MainLaunch, LaunchThread, FileKept, FileOf
<1>18. ASSUME NEW c \in Ctl, StartSkip(c) PROVE fileOpen'
  BY <1>18, <1>k DEF StartSkip, DldrRunning
<1>19. ASSUME NEW c \in Ctl, StartSection(c) PROVE fileOpen'
  BY <1>19 DEF StartSection, LaunchThread
<1>20. ASSUME NEW c \in Ctl, StartNoFile(c) PROVE fileOpen'
  BY <1>20, <1>k DEF StartNoFile, FileRefused, Fault, DldrRunning
<1>21. ASSUME NEW c \in Ctl, StartOpenFails(c) PROVE fileOpen'
  BY <1>21, <1>k DEF StartOpenFails, OpenError, DldrRunning
<1>22. ASSUME NEW c \in Ctl, StartAfresh(c) PROVE fileOpen'
  BY <1>22 DEF StartAfresh, DldrRunning
<1>23. ASSUME NEW c \in Ctl, StartReturns(c) PROVE fileOpen'
  BY <1>23, <1>k DEF StartReturns, DldrRunning
<1>24. ASSUME NEW c \in Ctl, StartResult(c) PROVE fileOpen'
  BY <1>24, <1>k DEF StartResult, DldrRunning
<1>25. ASSUME NEW c \in Ctl, StartTests(c) PROVE fileOpen'
  BY <1>25, <1>k DEF StartTests, DldrRunning
<1>26. ASSUME NEW c \in Ctl, SetDownloading(c) PROVE fileOpen'
  BY <1>26, <1>k DEF SetDownloading, DldrRunning
<1>27. ASSUME NEW c \in Ctl, SleepInterval(c) PROVE fileOpen'
  BY <1>27, <1>k DEF SleepInterval, DldrRunning
<1>28. ASSUME NEW c \in Ctl, AfterStart(c) PROVE fileOpen'
  BY <1>28, <1>k DEF AfterStart, DldrRunning
<1>29. ASSUME NEW c \in Ctl, LoopEnds(c) PROVE fileOpen'
  BY <1>29, <1>k DEF LoopEnds, DldrRunning
<1>30. ASSUME NEW c \in Ctl, FatalError(c) PROVE fileOpen'
  BY <1>30, <1>k DEF FatalError, DldrRunning
<1>31. ASSUME NEW c \in Ctl, Stopped(c) PROVE fileOpen'
  BY <1>31 DEF Stopped, DldrRunning
<1>32. ASSUME NEW c \in Ctl, Close(c) PROVE fileOpen'
  <2>1. pc[c] = "close" /\ pc' = [pc EXCEPT ![c] = "ending"]
        /\ UNCHANGED <<dw, cRunning>>
    BY <1>32 DEF Close
  <2>2. ~Attending
    BY <2>1 DEF Attending, OneControl, Controls
  <2> QED
    BY <1>r, <2>1, <2>2 DEF DldrRunning
<1>33. ASSUME NEW c \in Ctl, ThreadEnds(c) PROVE fileOpen'
  BY <1>33, <1>k DEF ThreadEnds, DldrRunning
<1>34. ASSUME NEW c \in Ctl, StoppedOrDone(c) PROVE fileOpen'
  BY <1>34, <1>k DEF StoppedOrDone, DldrRunning
<1>35. ASSUME NEW t \in Thread, ThreadBegin(t) PROVE fileOpen'
  BY <1>35, <1>k DEF ThreadBegin, DldrRunning
<1>36. ASSUME NEW t \in Thread, SectionEnds(t) PROVE fileOpen'
  BY <1>36, <1>k DEF SectionEnds, Fault, DldrRunning
<1>37. ASSUME NEW t \in Thread, Leave(t) PROVE fileOpen'
  <2>1. DldrRunning
    BY <1>37, Runs DEF Leave
  <2> QED
    BY <1>37, <1>k, <2>1 DEF Leave
<1>38. ASSUME NEW t \in Thread, SectionDone(t) PROVE fileOpen'
  BY <1>38, <1>k DEF SectionDone, DldrRunning
<1>39. ASSUME NEW t \in Thread, NotAdded(t) PROVE fileOpen'
  BY <1>39, <1>k DEF NotAdded, DldrRunning
<1>40. ASSUME NEW t \in Thread, OnDone(t) PROVE fileOpen'
  BY <1>40 DEF OnDone, DldrRunning, Declared, Completing, Over
<1>41. ASSUME NEW t \in Thread, SetDone(t) PROVE fileOpen'
  BY <1>41, <1>k DEF SetDone, DldrRunning
<1>42. ASSUME NEW t \in Thread, OnSectionStopped(t) PROVE fileOpen'
  BY <1>42, <1>k DEF OnSectionStopped, DldrRunning
<1>43. ASSUME NEW t \in Thread, ClearDownloading(t) PROVE fileOpen'
  BY <1>43, <1>k DEF ClearDownloading, DldrRunning
<1>44. ASSUME NEW t \in Thread, AnnounceRestart(t) PROVE fileOpen'
  BY <1>44, <1>k DEF AnnounceRestart, DldrRunning
<1>45. ASSUME NEW t \in Thread, SetNeedStart(t) PROVE fileOpen'
  BY <1>45, <1>k DEF SetNeedStart, DldrRunning
<1>46. ASSUME NEW t \in Thread, SetNeedStop(t) PROVE fileOpen'
  BY <1>46, <1>k DEF SetNeedStop, DldrRunning
<1>47. ASSUME NEW t \in Thread, ThreadExit(t) PROVE fileOpen'
  BY <1>47, <1>k DEF ThreadExit, DldrRunning
<1>48. ASSUME NEW a \in Thread \cup Ctl, AddRefused(a) PROVE fileOpen'
  BY <1>48, <1>k DEF AddRefused, MayAdd, Back, DldrRunning
<1>49. ASSUME NEW a \in Thread \cup Ctl, AddSection(a) PROVE fileOpen'
  BY <1>49, <1>k DEF AddSection, MayAdd, DldrRunning
<1>50. ASSUME NEW a \in Thread \cup Ctl, AddFails(a) PROVE fileOpen'
  BY <1>50, <1>k DEF AddFails, Back, DldrRunning
<1>51. ASSUME NEW a \in Thread \cup Ctl, AddOpened(a) PROVE fileOpen'
  BY <1>51, <1>k DEF AddOpened, DldrRunning
<1>52. ASSUME NEW a \in Thread \cup Ctl, AddInsert(a) PROVE fileOpen'
  BY <1>52, <1>k DEF AddInsert, DldrRunning
<1>53. ASSUME NEW a \in Thread \cup Ctl, AddLaunch(a) PROVE fileOpen'
  <2>1. fileOpen' = fileOpen /\ pc[a] = "add_launch" /\ a \in Actor
    BY <1>53 DEF AddLaunch
  <2>2. CASE a \in Ctl
    BY <1>f, <2>1, <2>2 DEF FileKept, FileOf, Over
  <2>3. CASE a \in Thread
    BY <1>k, <2>1, <2>3, Adders DEF AddersWork
  <2> QED
    BY <2>2, <2>3
<1> QED
  BY <1>1, <1>2, <1>3, <1>4, <1>5, <1>6, <1>7, <1>8, <1>9, <1>10, <1>11, <1>12,
     <1>13, <1>14, <1>15, <1>16, <1>17, <1>18, <1>19, <1>20, <1>21, <1>22, <1>23,
     <1>24, <1>25, <1>26, <1>27, <1>28, <1>29, <1>30, <1>31, <1>32, <1>33, <1>34,
     <1>35, <1>36, <1>37, <1>38, <1>39, <1>40, <1>41, <1>42, <1>43, <1>44, <1>45,
     <1>46, <1>47, <1>48, <1>49, <1>50, <1>51, <1>52, <1>53
  DEF Step, CallerSteps, ControlSteps, StartSteps, EndSteps, SectionSteps, AddSteps

\* DS_DOWNLOADING means an open file, or one that has its final name.
LEMMA FileFlag ==
  ASSUME Ground, Ground', HandlerKeeps, ControlInv, "two" \notin odd,
         LastDecides, Declared, Outcome, DldrRunning => Attending, FileKept,
         Step, KindOfStep
  PROVE  "DOWNLOADING" \in dw' => fileOpen' \/ Finished'
<1> USE DEF Ground, PlacesOK, DataOK, Actor, Thread, SectId, HandlerPC, CtlPC,
            AddPC, LoopPC, StartPC, CallerPC, MgrAssumption, ThreadPC
<1>f. (Finished => Finished') /\ (Finished => Over)
  BY FinishedStays, FinishedOver
<1>k. /\ DldrRunning => fileOpen
      /\ "DOWNLOADING" \in dw => fileOpen \/ Finished
  BY DEF FileKept
<1> SUFFICES ASSUME "DOWNLOADING" \in dw' PROVE fileOpen' \/ Finished'
  OBVIOUS
<1>r. "DOWNLOADING" \in dw'
  OBVIOUS
<1>1. ASSUME NEW p \in Caller, StartCall(p) PROVE fileOpen' \/ Finished'
  BY <1>1, <1>f, <1>k DEF StartCall
<1>2. ASSUME NEW p \in Caller, Launch(p) PROVE fileOpen' \/ Finished'
  BY <1>2 DEF Launch
<1>3. ASSUME NEW p \in Caller, StopCall(p) PROVE fileOpen' \/ Finished'
  BY <1>3, <1>f, <1>k DEF StopCall
<1>4. ASSUME NEW p \in Caller, StopDldr(p) PROVE fileOpen' \/ Finished'
  BY <1>4, <1>f, <1>k DEF StopDldr
<1>5. ASSUME NEW c \in Ctl, ThreadStarts(c) PROVE fileOpen' \/ Finished'
  BY <1>5, <1>f, <1>k DEF ThreadStarts, Fault
<1>6. ASSUME NEW c \in Ctl, LoopNeedStart(c) PROVE fileOpen' \/ Finished'
  BY <1>6, <1>f, <1>k DEF LoopNeedStart
<1>7. ASSUME NEW c \in Ctl, LoopRuns(c) PROVE fileOpen' \/ Finished'
  BY <1>7, <1>f, <1>k DEF LoopRuns
<1>8. ASSUME NEW c \in Ctl, StopCheck(c) PROVE fileOpen' \/ Finished'
  BY <1>8, <1>f, <1>k DEF StopCheck
<1>9. ASSUME NEW c \in Ctl, WorkDone(c) PROVE fileOpen' \/ Finished'
  BY <1>9, <1>f, <1>k DEF WorkDone
<1>10. ASSUME NEW c \in Ctl, Watchdog(c) PROVE fileOpen' \/ Finished'
  BY <1>10, <1>f, <1>k DEF Watchdog, Fault
<1>11. ASSUME NEW c \in Ctl, WatchdogStopped(c) PROVE fileOpen' \/ Finished'
  BY <1>11, <1>f, <1>k DEF WatchdogStopped
<1>12. ASSUME NEW c \in Ctl, LaunchOneMoreSection(c) PROVE fileOpen' \/ Finished'
  BY <1>12, <1>f, <1>k DEF LaunchOneMoreSection, LaunchThread
<1>13. ASSUME NEW c \in Ctl, StartDownload(c) PROVE fileOpen' \/ Finished'
  BY <1>13, <1>f, <1>k DEF StartDownload
<1>14. ASSUME NEW c \in Ctl, MainFails(c) PROVE fileOpen' \/ Finished'
  BY <1>14, <1>f, <1>k DEF MainFails, OpenError
<1>15. ASSUME NEW c \in Ctl, MainNoFile(c) PROVE fileOpen' \/ Finished'
  BY <1>15, <1>f, <1>k DEF MainNoFile, FileRefused, Fault
<1>16. ASSUME NEW c \in Ctl, MainOpened(c) PROVE fileOpen' \/ Finished'
  BY <1>16 DEF MainOpened
<1>17. ASSUME NEW c \in Ctl, MainLaunch(c) PROVE fileOpen' \/ Finished'
  BY <1>17, <1>f, <1>k DEF MainLaunch, LaunchThread
<1>18. ASSUME NEW c \in Ctl, StartSkip(c) PROVE fileOpen' \/ Finished'
  BY <1>18, <1>f, <1>k DEF StartSkip
<1>19. ASSUME NEW c \in Ctl, StartSection(c) PROVE fileOpen' \/ Finished'
  BY <1>19 DEF StartSection, LaunchThread
<1>20. ASSUME NEW c \in Ctl, StartNoFile(c) PROVE fileOpen' \/ Finished'
  BY <1>20, <1>f, <1>k DEF StartNoFile, FileRefused, Fault
<1>21. ASSUME NEW c \in Ctl, StartOpenFails(c) PROVE fileOpen' \/ Finished'
  BY <1>21, <1>f, <1>k DEF StartOpenFails, OpenError
<1>22. ASSUME NEW c \in Ctl, StartAfresh(c) PROVE fileOpen' \/ Finished'
  BY <1>22, <1>f, <1>k DEF StartAfresh
<1>23. ASSUME NEW c \in Ctl, StartReturns(c) PROVE fileOpen' \/ Finished'
  BY <1>23, <1>f, <1>k DEF StartReturns
<1>24. ASSUME NEW c \in Ctl, StartResult(c) PROVE fileOpen' \/ Finished'
  BY <1>24, <1>f, <1>k DEF StartResult
<1>25. ASSUME NEW c \in Ctl, StartTests(c) PROVE fileOpen' \/ Finished'
  BY <1>25, <1>f, <1>k DEF StartTests
<1>26. ASSUME NEW c \in Ctl, SetDownloading(c) PROVE fileOpen' \/ Finished'
  BY <1>26, <1>k DEF SetDownloading, Outcome, OutcomeOf
<1>27. ASSUME NEW c \in Ctl, SleepInterval(c) PROVE fileOpen' \/ Finished'
  BY <1>27, <1>f, <1>k DEF SleepInterval
<1>28. ASSUME NEW c \in Ctl, AfterStart(c) PROVE fileOpen' \/ Finished'
  BY <1>28, <1>f, <1>k DEF AfterStart
<1>29. ASSUME NEW c \in Ctl, LoopEnds(c) PROVE fileOpen' \/ Finished'
  BY <1>29, <1>f, <1>k DEF LoopEnds
<1>30. ASSUME NEW c \in Ctl, FatalError(c) PROVE fileOpen' \/ Finished'
  BY <1>30 DEF FatalError
<1>31. ASSUME NEW c \in Ctl, Stopped(c) PROVE fileOpen' \/ Finished'
  BY <1>31 DEF Stopped
<1>32. ASSUME NEW c \in Ctl, Close(c) PROVE fileOpen' \/ Finished'
  <2>1. pc[c] = "close" /\ pc' = [pc EXCEPT ![c] = "ending"]
        /\ UNCHANGED <<dw, cRunning>>
    BY <1>32 DEF Close
  <2>2. Finished
    BY <1>r, <2>1 DEF FileKept, FileOf
  <2> QED
    BY <1>f, <2>2
<1>33. ASSUME NEW c \in Ctl, ThreadEnds(c) PROVE fileOpen' \/ Finished'
  BY <1>33, <1>f, <1>k DEF ThreadEnds
<1>34. ASSUME NEW c \in Ctl, StoppedOrDone(c) PROVE fileOpen' \/ Finished'
  BY <1>34, <1>f, <1>k DEF StoppedOrDone
<1>35. ASSUME NEW t \in Thread, ThreadBegin(t) PROVE fileOpen' \/ Finished'
  BY <1>35, <1>f, <1>k DEF ThreadBegin
<1>36. ASSUME NEW t \in Thread, SectionEnds(t) PROVE fileOpen' \/ Finished'
  BY <1>36, <1>f, <1>k DEF SectionEnds, Fault
<1>37. ASSUME NEW t \in Thread, Leave(t) PROVE fileOpen' \/ Finished'
  BY <1>37, <1>f, <1>k DEF Leave
<1>38. ASSUME NEW t \in Thread, SectionDone(t) PROVE fileOpen' \/ Finished'
  BY <1>38, <1>f, <1>k DEF SectionDone
<1>39. ASSUME NEW t \in Thread, NotAdded(t) PROVE fileOpen' \/ Finished'
  BY <1>39, <1>f, <1>k DEF NotAdded
<1>40. ASSUME NEW t \in Thread, OnDone(t) PROVE fileOpen' \/ Finished'
  BY <1>40 DEF OnDone, Finished
<1>41. ASSUME NEW t \in Thread, SetDone(t) PROVE fileOpen' \/ Finished'
  BY <1>41 DEF SetDone
<1>42. ASSUME NEW t \in Thread, OnSectionStopped(t) PROVE fileOpen' \/ Finished'
  BY <1>42, <1>f, <1>k DEF OnSectionStopped
<1>43. ASSUME NEW t \in Thread, ClearDownloading(t) PROVE fileOpen' \/ Finished'
  BY <1>43 DEF ClearDownloading
<1>44. ASSUME NEW t \in Thread, AnnounceRestart(t) PROVE fileOpen' \/ Finished'
  BY <1>44, <1>f, <1>k DEF AnnounceRestart
<1>45. ASSUME NEW t \in Thread, SetNeedStart(t) PROVE fileOpen' \/ Finished'
  BY <1>45, <1>f, <1>k DEF SetNeedStart
<1>46. ASSUME NEW t \in Thread, SetNeedStop(t) PROVE fileOpen' \/ Finished'
  BY <1>46, <1>f, <1>k DEF SetNeedStop
<1>47. ASSUME NEW t \in Thread, ThreadExit(t) PROVE fileOpen' \/ Finished'
  BY <1>47, <1>f, <1>k DEF ThreadExit
<1>48. ASSUME NEW a \in Thread \cup Ctl, AddRefused(a) PROVE fileOpen' \/ Finished'
  BY <1>48, <1>f, <1>k DEF AddRefused, MayAdd, Back
<1>49. ASSUME NEW a \in Thread \cup Ctl, AddSection(a) PROVE fileOpen' \/ Finished'
  BY <1>49, <1>f, <1>k DEF AddSection, MayAdd
<1>50. ASSUME NEW a \in Thread \cup Ctl, AddFails(a) PROVE fileOpen' \/ Finished'
  BY <1>50, <1>f, <1>k DEF AddFails, Back
<1>51. ASSUME NEW a \in Thread \cup Ctl, AddOpened(a) PROVE fileOpen' \/ Finished'
  BY <1>51, <1>f, <1>k DEF AddOpened
<1>52. ASSUME NEW a \in Thread \cup Ctl, AddInsert(a) PROVE fileOpen' \/ Finished'
  BY <1>52, <1>f, <1>k DEF AddInsert
<1>53. ASSUME NEW a \in Thread \cup Ctl, AddLaunch(a) PROVE fileOpen' \/ Finished'
  BY <1>53, <1>f, <1>k DEF AddLaunch, LaunchThread, Back
<1> QED
  BY <1>1, <1>2, <1>3, <1>4, <1>5, <1>6, <1>7, <1>8, <1>9, <1>10, <1>11, <1>12,
     <1>13, <1>14, <1>15, <1>16, <1>17, <1>18, <1>19, <1>20, <1>21, <1>22, <1>23,
     <1>24, <1>25, <1>26, <1>27, <1>28, <1>29, <1>30, <1>31, <1>32, <1>33, <1>34,
     <1>35, <1>36, <1>37, <1>38, <1>39, <1>40, <1>41, <1>42, <1>43, <1>44, <1>45,
     <1>46, <1>47, <1>48, <1>49, <1>50, <1>51, <1>52, <1>53
  DEF Step, CallerSteps, ControlSteps, StartSteps, EndSteps, SectionSteps, AddSteps

\* What the control thread goes by agrees with the file.
LEMMA FileControl ==
  ASSUME Ground, Ground', HandlerKeeps, ControlInv, "two" \notin odd,
         LastDecides, Declared, Outcome, DldrRunning => Attending, FileKept,
         Step, KindOfStep
  PROVE  \A d \in Ctl : FileOf(d)'
<1> USE DEF Ground, PlacesOK, DataOK, Actor, Thread, SectId, HandlerPC, CtlPC,
            AddPC, LoopPC, StartPC, CallerPC, MgrAssumption, ThreadPC, FileOf
<1>f. (Finished => Finished') /\ (Finished => Over)
  BY FinishedStays, FinishedOver
<1>k. /\ DldrRunning => fileOpen
      /\ "DOWNLOADING" \in dw => fileOpen \/ Finished
  BY DEF FileKept
<1> SUFFICES ASSUME NEW d \in Ctl PROVE FileOf(d)'
  OBVIOUS
<1>r. FileOf(d) /\ OutcomeOf(d)
  BY DEF FileKept, Outcome
<1>o. \A e \in Ctl :
        e # d /\ pc[d] \in LoopPC \cup {"close"} => pc[e] \in {"none", "event"}
  BY DEF OneControl, Controls
<1>1. ASSUME NEW p \in Caller, StartCall(p) PROVE FileOf(d)'
  BY <1>1, <1>f, <1>r DEF StartCall
<1>2. ASSUME NEW p \in Caller, Launch(p) PROVE FileOf(d)'
  <2>1. PICK c \in Ctl :
          pc[c] = "none" /\ pc' = [pc EXCEPT ![p] = "idle", ![c] = "starting"]
    BY <1>2 DEF Launch
  <2>2. dw' = {"NEEDSTART"} /\ pc[d] \in {"none", "event"}
    BY <1>2 DEF Launch, ControlInv, Controls
  <2>3. pc'[d] \in {"none", "event", "starting"}
    BY <2>1, <2>2
  <2> QED
    BY <2>2, <2>3
<1>3. ASSUME NEW p \in Caller, StopCall(p) PROVE FileOf(d)'
  BY <1>3, <1>f, <1>r DEF StopCall
<1>4. ASSUME NEW p \in Caller, StopDldr(p) PROVE FileOf(d)'
  BY <1>4, <1>f, <1>r DEF StopDldr
<1>5. ASSUME NEW c \in Ctl, ThreadStarts(c) PROVE FileOf(d)'
  <2>1. CASE c # d
    <3>1. pc'[d] = pc[d] /\ pc[c] \notin {"none", "event"}
      BY <1>5, <2>1, Busy
    <3>2. pc[d] \notin LoopPC \cup {"close"}
      BY <1>o, <2>1, <3>1
    <3> QED
      BY <3>1, <3>2
  <2>2. CASE c = d
    BY <1>5, <2>2, <1>f, <1>r DEF ThreadStarts, Fault
  <2> QED
    BY <2>1, <2>2
<1>6. ASSUME NEW c \in Ctl, LoopNeedStart(c) PROVE FileOf(d)'
  BY <1>6, <1>o DEF LoopNeedStart
<1>7. ASSUME NEW c \in Ctl, LoopRuns(c) PROVE FileOf(d)'
  BY <1>7, <1>f, <1>r DEF LoopRuns
<1>8. ASSUME NEW c \in Ctl, StopCheck(c) PROVE FileOf(d)'
  <2>1. CASE c # d
    <3>1. pc'[d] = pc[d] /\ pc[c] \notin {"none", "event"}
      BY <1>8, <2>1, Busy
    <3>2. pc[d] \notin LoopPC \cup {"close"}
      BY <1>o, <2>1, <3>1
    <3> QED
      BY <3>1, <3>2
  <2>2. CASE c = d
    BY <1>8, <2>2, <1>f, <1>r DEF StopCheck
  <2> QED
    BY <2>1, <2>2
<1>9. ASSUME NEW c \in Ctl, WorkDone(c) PROVE FileOf(d)'
  BY <1>9, <1>f, <1>r DEF WorkDone
<1>10. ASSUME NEW c \in Ctl, Watchdog(c) PROVE FileOf(d)'
  BY <1>10, <1>f, <1>r DEF Watchdog, Fault
<1>11. ASSUME NEW c \in Ctl, WatchdogStopped(c) PROVE FileOf(d)'
  BY <1>11, <1>f, <1>r DEF WatchdogStopped
<1>12. ASSUME NEW c \in Ctl, LaunchOneMoreSection(c) PROVE FileOf(d)'
  <2>1. CASE c # d
    <3>1. pc'[d] = pc[d] /\ pc[c] \notin {"none", "event"}
      BY <1>12, <2>1, Busy
    <3>2. pc[d] \notin LoopPC \cup {"close"}
      BY <1>o, <2>1, <3>1
    <3> QED
      BY <3>1, <3>2
  <2>2. CASE c = d
    <3>1. fileOpen' = fileOpen /\ pc'[d] = "loop" /\ pc[d] = "work"
      BY <1>12, <2>2 DEF LaunchOneMoreSection, LaunchThread
    <3> QED
      BY <1>f, <1>r, <3>1
  <2> QED
    BY <2>1, <2>2
<1>13. ASSUME NEW c \in Ctl, StartDownload(c) PROVE FileOf(d)'
  <2>1. CASE c # d
    <3>1. pc'[d] = pc[d] /\ pc[c] \notin {"none", "event"}
      BY <1>13, <2>1, Busy
    <3>2. pc[d] \notin LoopPC \cup {"close"}
      BY <1>o, <2>1, <3>1
    <3> QED
      BY <3>1, <3>2
  <2>2. CASE c = d
    <3>1. pc'[d] \in {"result", "start_sect", "main_open", "start", "after"}
      BY <1>13, <2>2 DEF StartDownload, LaunchThread
    <3> QED
      BY <3>1
  <2> QED
    BY <2>1, <2>2
<1>14. ASSUME NEW c \in Ctl, MainFails(c) PROVE FileOf(d)'
  BY <1>14, <1>o DEF MainFails, OpenError
<1>15. ASSUME NEW c \in Ctl, MainNoFile(c) PROVE FileOf(d)'
  BY <1>15, <1>o DEF MainNoFile, FileRefused, Fault
<1>16. ASSUME NEW c \in Ctl, MainOpened(c) PROVE FileOf(d)'
  BY <1>16, <1>o DEF MainOpened
<1>17. ASSUME NEW c \in Ctl, MainLaunch(c) PROVE FileOf(d)'
  <2>1. CASE c # d
    <3>1. pc'[d] = pc[d] /\ pc[c] \notin {"none", "event"}
      BY <1>17, <2>1, Busy
    <3>2. pc[d] \notin LoopPC \cup {"close"}
      BY <1>o, <2>1, <3>1
    <3> QED
      BY <3>1, <3>2
  <2>2. CASE c = d
    <3>1. pc'[d] \in {"result", "start_sect", "main_open", "start", "after"}
      BY <1>17, <2>2 DEF MainLaunch, LaunchThread
    <3> QED
      BY <3>1
  <2> QED
    BY <2>1, <2>2
<1>18. ASSUME NEW c \in Ctl, StartSkip(c) PROVE FileOf(d)'
  BY <1>18, <1>o DEF StartSkip
<1>19. ASSUME NEW c \in Ctl, StartSection(c) PROVE FileOf(d)'
  <2>1. CASE c # d
    <3>1. pc'[d] = pc[d] /\ pc[c] \notin {"none", "event"}
      BY <1>19, <2>1, Busy
    <3>2. pc[d] \notin LoopPC \cup {"close"}
      BY <1>o, <2>1, <3>1
    <3> QED
      BY <3>1, <3>2
  <2>2. CASE c = d
    <3>1. pc'[d] \in {"result", "start_sect", "main_open", "start", "after"}
      BY <1>19, <2>2 DEF StartSection, LaunchThread
    <3> QED
      BY <3>1
  <2> QED
    BY <2>1, <2>2
<1>20. ASSUME NEW c \in Ctl, StartNoFile(c) PROVE FileOf(d)'
  BY <1>20, <1>o DEF StartNoFile, FileRefused, Fault
<1>21. ASSUME NEW c \in Ctl, StartOpenFails(c) PROVE FileOf(d)'
  <2>1. CASE c # d
    <3>1. pc'[d] = pc[d] /\ pc[c] \notin {"none", "event"}
      BY <1>21, <2>1, Busy
    <3>2. pc[d] \notin LoopPC \cup {"close"}
      BY <1>o, <2>1, <3>1
    <3> QED
      BY <3>1, <3>2
  <2>2. CASE c = d
    <3>1. pc[d] = "start_sect" /\ (pc' = pc \/ pc' = [pc EXCEPT ![d] = "result"])
      BY <1>21, <2>2 DEF StartOpenFails
    <3>2. pc'[d] \in {"start_sect", "result"}
      BY <3>1
    <3> QED
      BY <3>2
  <2> QED
    BY <2>1, <2>2
<1>22. ASSUME NEW c \in Ctl, StartAfresh(c) PROVE FileOf(d)'
  BY <1>22, <1>o DEF StartAfresh
<1>23. ASSUME NEW c \in Ctl, StartReturns(c) PROVE FileOf(d)'
  BY <1>23, <1>o DEF StartReturns
<1>24. ASSUME NEW c \in Ctl, StartResult(c) PROVE FileOf(d)'
  BY <1>24, <1>o DEF StartResult
<1>25. ASSUME NEW c \in Ctl, StartTests(c) PROVE FileOf(d)'
  BY <1>25, <1>o DEF StartTests
<1>26. ASSUME NEW c \in Ctl, SetDownloading(c) PROVE FileOf(d)'
  BY <1>26, <1>o DEF SetDownloading
<1>27. ASSUME NEW c \in Ctl, SleepInterval(c) PROVE FileOf(d)'
  <2>1. CASE c # d
    <3>1. pc'[d] = pc[d] /\ pc[c] \notin {"none", "event"}
      BY <1>27, <2>1, Busy
    <3>2. pc[d] \notin LoopPC \cup {"close"}
      BY <1>o, <2>1, <3>1
    <3> QED
      BY <3>1, <3>2
  <2>2. CASE c = d
    <3>1. pc'[d] \in {"result", "start_sect", "main_open", "start", "after"}
      BY <1>27, <2>2 DEF SleepInterval, LaunchThread
    <3> QED
      BY <3>1
  <2> QED
    BY <2>1, <2>2
<1>28. ASSUME NEW c \in Ctl, AfterStart(c) PROVE FileOf(d)'
  <2>1. CASE c # d
    <3>1. pc'[d] = pc[d] /\ pc[c] \notin {"none", "event"}
      BY <1>28, <2>1, Busy
    <3>2. pc[d] \notin LoopPC \cup {"close"}
      BY <1>o, <2>1, <3>1
    <3> QED
      BY <3>1, <3>2
  <2>2. CASE c = d
    <3>1. pc[d] = "after" /\ UNCHANGED <<fileOpen, dw>> /\ pc' = [pc EXCEPT ![d] =
            IF dw \cap {"DOWNLOADING", "NEEDSTOP"} = {} /\ lastError # "S_FALSE"
            THEN "fatal" ELSE "stopcheck"]
      BY <1>28, <2>2 DEF AfterStart
    <3>2. pc'[d] = "stopcheck" => \/ dw \cap {"DOWNLOADING", "NEEDSTOP"} # {}
                                  \/ lastError = "S_FALSE"
      BY <3>1
    <3>3. pc'[d] = "stopcheck" =>
            "NEEDSTOP" \in dw \/ "DOWNLOADING" \in dw \/ DldrRunning
      BY <1>r, <3>1, <3>2 DEF OutcomeOf
    <3>4. pc'[d] \in {"fatal", "stopcheck"}
      BY <3>1
    <3> QED
      BY <1>f, <1>k, <3>1, <3>3, <3>4
  <2> QED
    BY <2>1, <2>2
<1>29. ASSUME NEW c \in Ctl, LoopEnds(c) PROVE FileOf(d)'
  <2>1. Finished
    BY <1>29 DEF LoopEnds, LastDecides, Finished
  <2> QED
    BY <1>29, <1>f, <1>r, <1>o, <2>1 DEF LoopEnds
<1>30. ASSUME NEW c \in Ctl, FatalError(c) PROVE FileOf(d)'
  BY <1>30, <1>o DEF FatalError
<1>31. ASSUME NEW c \in Ctl, Stopped(c) PROVE FileOf(d)'
  BY <1>31, <1>o DEF Stopped
<1>32. ASSUME NEW c \in Ctl, Close(c) PROVE FileOf(d)'
  BY <1>32, <1>o DEF Close
<1>33. ASSUME NEW c \in Ctl, ThreadEnds(c) PROVE FileOf(d)'
  BY <1>33, <1>o DEF ThreadEnds
<1>34. ASSUME NEW c \in Ctl, StoppedOrDone(c) PROVE FileOf(d)'
  BY <1>34, <1>f, <1>r DEF StoppedOrDone
<1>35. ASSUME NEW t \in Thread, ThreadBegin(t) PROVE FileOf(d)'
  BY <1>35, <1>f, <1>r DEF ThreadBegin
<1>36. ASSUME NEW t \in Thread, SectionEnds(t) PROVE FileOf(d)'
  BY <1>36, <1>f, <1>r DEF SectionEnds, Fault
<1>37. ASSUME NEW t \in Thread, Leave(t) PROVE FileOf(d)'
  BY <1>37, <1>f, <1>r DEF Leave
<1>38. ASSUME NEW t \in Thread, SectionDone(t) PROVE FileOf(d)'
  BY <1>38, <1>f, <1>r DEF SectionDone
<1>39. ASSUME NEW t \in Thread, NotAdded(t) PROVE FileOf(d)'
  BY <1>39, <1>f, <1>r DEF NotAdded
<1>40. ASSUME NEW t \in Thread, OnDone(t) PROVE FileOf(d)'
  BY <1>40 DEF OnDone, Declared, Completing, Over, Finished
<1>41. ASSUME NEW t \in Thread, SetDone(t) PROVE FileOf(d)'
  <2>1. Finished
    BY <1>41 DEF SetDone, Finished
  <2> QED
    BY <1>41, <1>f, <1>r, <1>o, <2>1 DEF SetDone
<1>42. ASSUME NEW t \in Thread, OnSectionStopped(t) PROVE FileOf(d)'
  BY <1>42, <1>f, <1>r DEF OnSectionStopped
<1>43. ASSUME NEW t \in Thread, ClearDownloading(t) PROVE FileOf(d)'
  BY <1>43, <1>f, <1>r DEF ClearDownloading
<1>44. ASSUME NEW t \in Thread, AnnounceRestart(t) PROVE FileOf(d)'
  BY <1>44, <1>f, <1>r DEF AnnounceRestart
<1>45. ASSUME NEW t \in Thread, SetNeedStart(t) PROVE FileOf(d)'
  BY <1>45, <1>f, <1>r DEF SetNeedStart
<1>46. ASSUME NEW t \in Thread, SetNeedStop(t) PROVE FileOf(d)'
  BY <1>46, <1>f, <1>r DEF SetNeedStop
<1>47. ASSUME NEW t \in Thread, ThreadExit(t) PROVE FileOf(d)'
  BY <1>47, <1>f, <1>r DEF ThreadExit
<1>48. ASSUME NEW a \in Thread \cup Ctl, AddRefused(a) PROVE FileOf(d)'
  BY <1>48, <1>f, <1>r DEF AddRefused, MayAdd, Back
<1>49. ASSUME NEW a \in Thread \cup Ctl, AddSection(a) PROVE FileOf(d)'
  BY <1>49, <1>f, <1>r DEF AddSection, MayAdd
<1>50. ASSUME NEW a \in Thread \cup Ctl, AddFails(a) PROVE FileOf(d)'
  BY <1>50, <1>f, <1>r DEF AddFails, Back
<1>51. ASSUME NEW a \in Thread \cup Ctl, AddOpened(a) PROVE FileOf(d)'
  BY <1>51, <1>f, <1>r DEF AddOpened
<1>52. ASSUME NEW a \in Thread \cup Ctl, AddInsert(a) PROVE FileOf(d)'
  BY <1>52, <1>f, <1>r DEF AddInsert
<1>53. ASSUME NEW a \in Thread \cup Ctl, AddLaunch(a) PROVE FileOf(d)'
  <2>1. PICK t \in Thread : pc' = [pc EXCEPT ![t] = "begin", ![a] = Back(a)]
    BY <1>53 DEF AddLaunch, LaunchThread
  <2>2. UNCHANGED <<dw, fileOpen>> /\ pc[a] = "add_launch"
    BY <1>53 DEF AddLaunch
  <2>3. CASE a = d
    <3>1. pc'[d] = "work" /\ pc[d] = "add_launch"
      BY <2>1, <2>2, <2>3 DEF Back
    <3> QED
      BY <1>f, <1>r, <2>2, <3>1
  <2>4. CASE a # d
    <3>1. t # d
      BY Apart
    <3>2. pc'[d] = pc[d]
      BY <2>1, <2>4, <3>1
    <3> QED
      BY <1>f, <1>r, <2>2, <3>2
  <2> QED
    BY <2>3, <2>4
<1> QED
  BY <1>1, <1>2, <1>3, <1>4, <1>5, <1>6, <1>7, <1>8, <1>9, <1>10, <1>11, <1>12,
     <1>13, <1>14, <1>15, <1>16, <1>17, <1>18, <1>19, <1>20, <1>21, <1>22, <1>23,
     <1>24, <1>25, <1>26, <1>27, <1>28, <1>29, <1>30, <1>31, <1>32, <1>33, <1>34,
     <1>35, <1>36, <1>37, <1>38, <1>39, <1>40, <1>41, <1>42, <1>43, <1>44, <1>45,
     <1>46, <1>47, <1>48, <1>49, <1>50, <1>51, <1>52, <1>53
  DEF Step, CallerSteps, ControlSteps, StartSteps, EndSteps, SectionSteps, AddSteps

\* The manager is told that the download is done only if it is declared so, for
\* else the last thread has yet to declare it.
LEMMA TruthStep ==
  ASSUME Ground, ControlInv, LastDecides, Attended, ~Stopping, ~Late,
         told = "done" => completions > 0, Step, KindOfStep
  PROVE  told' = "done" => completions' > 0
<1>1. completions' \in {completions, completions + 1} /\ completions \in Nat
  BY Completions DEF Ground, DataOK
<1>2. ASSUME NEW c \in Ctl, StoppedOrDone(c), told' = "done", completions = 0
      PROVE  FALSE
  <2>1. pc[c] = "event" /\ IsDone
    BY <1>2 DEF StoppedOrDone
  <2>2. CASE DldrRunning
    <3>1. PICK d \in Ctl : pc[d] \in LoopPC
      BY <1>2, <2>2 DEF Attended, Attending
    <3>2. d \in Controls
      BY <3>1 DEF Controls
    <3> QED
      BY <2>1, <3>2 DEF ControlInv, Late
  <2>3. CASE ~DldrRunning
    <3>1. Acting
      BY <1>2, <2>1, <2>3 DEF LastDecides, Acting
    <3> QED
      BY <2>1, <3>1 DEF Stopping
  <2> QED
    BY <2>2, <2>3
<1>3. told' = "done" => told = "done" \/ \E c \in Ctl : StoppedOrDone(c)
  <2> DEFINE Said == told' = "done" => told = "done" \/ \E c \in Ctl : StoppedOrDone(c)
  <2>1. ASSUME NEW p \in Caller, StartCall(p) PROVE Said
    BY <2>1 DEF StartCall
  <2>2. ASSUME NEW p \in Caller, Launch(p) PROVE Said
    BY <2>2 DEF Launch
  <2>3. ASSUME NEW p \in Caller, StopCall(p) PROVE Said
    BY <2>3 DEF StopCall
  <2>4. ASSUME NEW p \in Caller, StopDldr(p) PROVE Said
    BY <2>4 DEF StopDldr
  <2>5. ASSUME NEW c \in Ctl, ThreadStarts(c) PROVE Said
    BY <2>5 DEF ThreadStarts
  <2>6. ASSUME NEW c \in Ctl, LoopNeedStart(c) PROVE Said
    BY <2>6 DEF LoopNeedStart
  <2>7. ASSUME NEW c \in Ctl, LoopRuns(c) PROVE Said
    BY <2>7 DEF LoopRuns
  <2>8. ASSUME NEW c \in Ctl, StopCheck(c) PROVE Said
    BY <2>8 DEF StopCheck
  <2>9. ASSUME NEW c \in Ctl, WorkDone(c) PROVE Said
    BY <2>9 DEF WorkDone
  <2>10. ASSUME NEW c \in Ctl, Watchdog(c) PROVE Said
    BY <2>10 DEF Watchdog
  <2>11. ASSUME NEW c \in Ctl, WatchdogStopped(c) PROVE Said
    BY <2>11 DEF WatchdogStopped
  <2>12. ASSUME NEW c \in Ctl, LaunchOneMoreSection(c) PROVE Said
    BY <2>12 DEF LaunchOneMoreSection
  <2>13. ASSUME NEW c \in Ctl, StartDownload(c) PROVE Said
    BY <2>13 DEF StartDownload
  <2>14. ASSUME NEW c \in Ctl, MainFails(c) PROVE Said
    BY <2>14 DEF MainFails
  <2>15. ASSUME NEW c \in Ctl, MainNoFile(c) PROVE Said
    BY <2>15 DEF MainNoFile
  <2>16. ASSUME NEW c \in Ctl, MainOpened(c) PROVE Said
    BY <2>16 DEF MainOpened
  <2>17. ASSUME NEW c \in Ctl, MainLaunch(c) PROVE Said
    BY <2>17 DEF MainLaunch
  <2>18. ASSUME NEW c \in Ctl, StartSkip(c) PROVE Said
    BY <2>18 DEF StartSkip
  <2>19. ASSUME NEW c \in Ctl, StartSection(c) PROVE Said
    BY <2>19 DEF StartSection
  <2>20. ASSUME NEW c \in Ctl, StartNoFile(c) PROVE Said
    BY <2>20 DEF StartNoFile
  <2>21. ASSUME NEW c \in Ctl, StartOpenFails(c) PROVE Said
    BY <2>21 DEF StartOpenFails
  <2>22. ASSUME NEW c \in Ctl, StartAfresh(c) PROVE Said
    BY <2>22 DEF StartAfresh
  <2>23. ASSUME NEW c \in Ctl, StartReturns(c) PROVE Said
    BY <2>23 DEF StartReturns
  <2>24. ASSUME NEW c \in Ctl, StartResult(c) PROVE Said
    BY <2>24 DEF StartResult
  <2>25. ASSUME NEW c \in Ctl, StartTests(c) PROVE Said
    BY <2>25 DEF StartTests
  <2>26. ASSUME NEW c \in Ctl, SetDownloading(c) PROVE Said
    BY <2>26 DEF SetDownloading
  <2>27. ASSUME NEW c \in Ctl, SleepInterval(c) PROVE Said
    BY <2>27 DEF SleepInterval
  <2>28. ASSUME NEW c \in Ctl, AfterStart(c) PROVE Said
    BY <2>28 DEF AfterStart
  <2>29. ASSUME NEW c \in Ctl, LoopEnds(c) PROVE Said
    BY <2>29 DEF LoopEnds
  <2>30. ASSUME NEW c \in Ctl, FatalError(c) PROVE Said
    BY <2>30 DEF FatalError
  <2>31. ASSUME NEW c \in Ctl, Stopped(c) PROVE Said
    BY <2>31 DEF Stopped
  <2>32. ASSUME NEW c \in Ctl, Close(c) PROVE Said
    BY <2>32 DEF Close
  <2>33. ASSUME NEW c \in Ctl, ThreadEnds(c) PROVE Said
    BY <2>33 DEF ThreadEnds
  <2>34. ASSUME NEW c \in Ctl, StoppedOrDone(c) PROVE Said
    BY <2>34
  <2>35. ASSUME NEW t \in Thread, ThreadBegin(t) PROVE Said
    BY <2>35 DEF ThreadBegin
  <2>36. ASSUME NEW t \in Thread, SectionEnds(t) PROVE Said
    BY <2>36 DEF SectionEnds
  <2>37. ASSUME NEW t \in Thread, Leave(t) PROVE Said
    BY <2>37 DEF Leave
  <2>38. ASSUME NEW t \in Thread, SectionDone(t) PROVE Said
    BY <2>38 DEF SectionDone
  <2>39. ASSUME NEW t \in Thread, NotAdded(t) PROVE Said
    BY <2>39 DEF NotAdded
  <2>40. ASSUME NEW t \in Thread, OnDone(t) PROVE Said
    BY <2>40 DEF OnDone
  <2>41. ASSUME NEW t \in Thread, SetDone(t) PROVE Said
    BY <2>41 DEF SetDone
  <2>42. ASSUME NEW t \in Thread, OnSectionStopped(t) PROVE Said
    BY <2>42 DEF OnSectionStopped
  <2>43. ASSUME NEW t \in Thread, ClearDownloading(t) PROVE Said
    BY <2>43 DEF ClearDownloading
  <2>44. ASSUME NEW t \in Thread, AnnounceRestart(t) PROVE Said
    BY <2>44 DEF AnnounceRestart
  <2>45. ASSUME NEW t \in Thread, SetNeedStart(t) PROVE Said
    BY <2>45 DEF SetNeedStart
  <2>46. ASSUME NEW t \in Thread, SetNeedStop(t) PROVE Said
    BY <2>46 DEF SetNeedStop
  <2>47. ASSUME NEW t \in Thread, ThreadExit(t) PROVE Said
    BY <2>47 DEF ThreadExit
  <2>48. ASSUME NEW a \in Thread \cup Ctl, AddRefused(a) PROVE Said
    BY <2>48 DEF AddRefused
  <2>49. ASSUME NEW a \in Thread \cup Ctl, AddSection(a) PROVE Said
    BY <2>49 DEF AddSection
  <2>50. ASSUME NEW a \in Thread \cup Ctl, AddFails(a) PROVE Said
    BY <2>50 DEF AddFails
  <2>51. ASSUME NEW a \in Thread \cup Ctl, AddOpened(a) PROVE Said
    BY <2>51 DEF AddOpened
  <2>52. ASSUME NEW a \in Thread \cup Ctl, AddInsert(a) PROVE Said
    BY <2>52 DEF AddInsert
  <2>53. ASSUME NEW a \in Thread \cup Ctl, AddLaunch(a) PROVE Said
    BY <2>53 DEF AddLaunch
  <2> QED
    BY <2>1, <2>2, <2>3, <2>4, <2>5, <2>6, <2>7, <2>8, <2>9, <2>10, <2>11, <2>12,
       <2>13, <2>14, <2>15, <2>16, <2>17, <2>18, <2>19, <2>20, <2>21, <2>22,
       <2>23, <2>24, <2>25, <2>26, <2>27, <2>28, <2>29, <2>30, <2>31, <2>32,
       <2>33, <2>34, <2>35, <2>36, <2>37, <2>38, <2>39, <2>40, <2>41, <2>42,
       <2>43, <2>44, <2>45, <2>46, <2>47, <2>48, <2>49, <2>50, <2>51, <2>52,
       <2>53
    DEF Step, CallerSteps, ControlSteps, StartSteps, EndSteps, SectionSteps, AddSteps
<1> QED
  BY <1>1, <1>2, <1>3

\* The flags, as long as no handler has acted on threads that had ended while
\* the control thread was starting or launching some.
LEMMA FlagStep ==
  ASSUME Ground, Ground', InWork, HandlerKeeps, StartKeeps, GoInv, LastDecides,
         ControlInv, OverInv, FlagInv, "two" \notin odd, odd \subseteq odd',
         Overlap \subseteq odd, Overlap' \subseteq odd', Step, KindOfStep
  PROVE  FlagInv'
<1> SUFFICES ASSUME odd' \cap {"early", "again"} = {}
             PROVE  AddFlag' /\ Outcome' /\ Attended'
  BY DEF FlagInv
<1>1. odd \cap {"early", "again"} = {}
  OBVIOUS
<1>2. AddFlag /\ Outcome /\ Attended
  BY <1>1 DEF FlagInv
<1>3. ~Early /\ ~Again
  BY <1>1 DEF Overlap, OverlapKind
<1>4. ~Early'
  BY DEF Overlap, OverlapKind
<1>5. AddFlag'
  BY <1>2, <1>3, AddFlagStep
<1>6. Outcome'
  BY <1>2, <1>3, <1>4, OutcomeStep
<1>7. Attended'
  BY <1>2, AttendedStep
<1> QED
  BY <1>5, <1>6, <1>7

\* The file, as long as the same and no late addition has happened.
LEMMA FileStep ==
  ASSUME Ground, Ground', HandlerKeeps, LastDecides, ControlInv, OverInv, FlagInv,
         FileInv, "two" \notin odd, odd \subseteq odd', Step, KindOfStep
  PROVE  FileInv'
<1> SUFFICES ASSUME odd' \cap {"early", "again", "add"} = {} PROVE FileKept'
  BY DEF FileInv
<1>1. odd \cap {"early", "again", "add"} = {}
  OBVIOUS
<1>2. Declared /\ Outcome /\ (DldrRunning => Attending) /\ FileKept
  BY <1>1 DEF OverInv, FlagInv, FileInv, Attended
<1>3. DldrRunning' => fileOpen'
  BY <1>2, FileRuns
<1>4. "DOWNLOADING" \in dw' => fileOpen' \/ Finished'
  BY <1>2, FileFlag
<1>5. \A c \in Ctl : FileOf(c)'
  BY <1>2, FileControl
<1> QED
  BY <1>3, <1>4, <1>5 DEF FileKept
-----------------------------------------------------------------------------
(* The invariant.                                                          *)

\* A new download.
LEMMA InitMeaning == Init => MeaningInv
<1> SUFFICES ASSUME Init PROVE MeaningInv
  OBVIOUS
<1>1. /\ MgrAssumption /\ \A t \in Thread : pc[t] = "none" /\ csDone # t
      /\ \A c \in Ctl : pc[c] = "none"
      /\ \A p \in Caller : pc[p] = "idle"
  BY MgrAssumption DEF Init, MgrAssumption, Actor
<1>2. n = 0 /\ cRunning = 0 /\ completions = 0 /\ dw = {} /\ told = "stopped"
  BY DEF Init
<1>3. Counted = {} /\ ~DldrRunning /\ ~IsDone /\ ~Completing /\ 1..n = {}
  BY <1>1, <1>2 DEF Counted, DldrRunning, IsDone, Completing, AddPC
<1>4. InWork /\ HandlerKeeps /\ GoInv /\ LastDecides
  BY <1>1, <1>2, <1>3 DEF InWork, HandlerKeeps, GoInv, LastDecides
<1>5. \A a \in Actor : pc[a] \notin AddPC
  BY <1>1 DEF Actor, AddPC
<1>6. StartKeeps /\ Fresh
  BY <1>1, <1>5 DEF StartKeeps, Fresh
<1>7. OverInv
  BY <1>2, <1>3 DEF OverInv, Declared
<1>8. AddFlag /\ Attended
  BY <1>3, <1>1 DEF AddFlag, Attended, AddPC
<1>9. ASSUME NEW c \in Ctl PROVE OutcomeOf(c) /\ FileOf(c)
  BY <1>1, <1>9 DEF OutcomeOf, FileOf, StartPC, AddPC
<1>10. FlagInv /\ FileInv
  BY <1>2, <1>3, <1>8, <1>9 DEF FlagInv, FileInv, Outcome, FileKept
<1> QED
  BY <1>2, <1>4, <1>6, <1>7, <1>10 DEF MeaningInv, ToldTheTruth

\* What the lemmas about steps start from is part of MgrInv.
LEMMA Grounded ==
  ASSUME MgrInv
  PROVE  Ground
BY MgrAssumption, Running DEF MgrInv, TypeOK, Ground, DataOK, ControlInv

\* Every step preserves the invariant.
LEMMA StepMeaning ==
  ASSUME MgrInv, MgrInv', MeaningInv, Next
  PROVE  MeaningInv'
<1>1. Ground /\ Ground' /\ ControlInv
  <2>1. Ground
    BY Grounded
  <2>2. RunningInv'
    BY MgrAssumption, SomeCounted
       DEF MgrInv, CountInv, RunningInv, DldrRunning, Counted, Thread
  <2>3. Ground'
    BY <2>2, MgrAssumption DEF MgrInv, TypeOK, Ground, DataOK, ControlInv
  <2> QED
    BY <2>1, <2>3 DEF MgrInv
<1>2. Step /\ odd \subseteq odd' /\ Overlap \subseteq odd /\ Overlap' \subseteq odd'
  BY DEF Next, MgrInv
<1>3. "two" \notin odd
  BY MgrAssumption DEF Next, GoesOn, MgrAssumption
<1>4. InWork /\ HandlerKeeps /\ StartKeeps /\ Fresh /\ GoInv /\ LastDecides
      /\ OverInv /\ FlagInv /\ FileInv /\ ToldTheTruth
  BY DEF MeaningInv
<1>5. KindOfStep
  BY <1>1, <1>2, <1>4, Kinds DEF StartKeeps, AddRoom
<1>6. InWork' /\ HandlerKeeps' /\ StartKeeps' /\ Fresh' /\ GoInv' /\ LastDecides'
  BY <1>1, <1>3, <1>4, <1>5, InWorkStep, HandlerStep, StartStep, FreshStep, GoStep,
     LastStep
<1>7. OverInv'
  <2> SUFFICES ASSUME "add" \notin odd' PROVE Declared'
    BY DEF OverInv
  <2>1. "add" \notin odd /\ ~AddedDone
    BY <1>2 DEF Overlap, OverlapKind
  <2> QED
    BY <1>1, <1>4, <1>5, <2>1, DeclaredStep DEF OverInv
<1>8. FlagInv'
  BY <1>1, <1>2, <1>3, <1>4, <1>5, FlagStep
<1>9. FileInv'
  BY <1>1, <1>2, <1>3, <1>4, <1>5, FileStep
<1>10. ToldTheTruth'
  <2> SUFFICES ASSUME odd' \cap {"early", "again", "stop", "late"} = {}
               PROVE  told' = "done" => completions' > 0
    BY DEF ToldTheTruth
  <2>1. odd \cap {"early", "again", "stop", "late"} = {}
    BY <1>2
  <2>2. ~Stopping /\ ~Late
    BY <1>2, <2>1 DEF Overlap, OverlapKind
  <2>3. Attended /\ (told = "done" => completions > 0)
    BY <1>4, <2>1 DEF FlagInv, ToldTheTruth
  <2> QED
    BY <1>1, <1>2, <1>4, <1>5, <2>2, <2>3, TruthStep
<1> QED
  BY <1>6, <1>7, <1>8, <1>9, <1>10 DEF MeaningInv

\* A step that changes nothing keeps the invariant.
LEMMA StutterMeaning ==
  ASSUME MeaningInv, UNCHANGED vars
  PROVE  MeaningInv'
<1> USE DEF vars, stepV, Counted, Working, DldrRunning, IsDone, AddPC
<1>1. InWork'
  BY DEF MeaningInv, InWork
<1>2. HandlerKeeps' /\ StartKeeps' /\ Fresh' /\ GoInv'
  BY DEF MeaningInv, HandlerKeeps, StartKeeps, Fresh, GoInv
<1>3. LastDecides' /\ ToldTheTruth'
  BY DEF MeaningInv, LastDecides, ToldTheTruth
<1>4. OverInv'
  BY DEF MeaningInv, OverInv, Declared, Over, Completing
<1>5. FlagInv'
  <2>1. AddFlag => AddFlag'
    BY DEF AddFlag
  <2>2. Outcome => Outcome'
    BY DEF Outcome, OutcomeOf
  <2>3. Attended => Attended'
    BY DEF Attended, Attending
  <2> QED
    BY <2>1, <2>2, <2>3 DEF MeaningInv, FlagInv
<1>6. FileInv'
  BY DEF MeaningInv, FileInv, FileKept, FileOf, Finished
<1> QED
  BY <1>1, <1>2, <1>3, <1>4, <1>5, <1>6 DEF MeaningInv

\* The two together.
LEMMA NextMeaning == MgrInv /\ MgrInv' /\ MeaningInv /\ [Next]_vars => MeaningInv'
BY StepMeaning, StutterMeaning

\* What the flags, the file and the history of a download mean is as the
\* inductive invariant says, in every reachable state.
THEOREM MeaningInvariant == Spec => []MeaningInv
<1>1. Init => MeaningInv
  BY InitMeaning
<1>2. MgrInv /\ MgrInv' /\ MeaningInv /\ [Next]_vars => MeaningInv'
  BY NextMeaning
<1> QED
  BY <1>1, <1>2, MgrInvariant, PTL DEF Spec

\* A download is declared complete once at most, and its file renamed once: the
\* thread counted out last decides, and then nobody is left to change a section
\* (OnDone and DS_DONE in _DownloaderEvents).
THEOREM CompletesOnce == Spec => []CompletedOnce
<1>1. MeaningInv => CompletedOnce
  BY DEF MeaningInv, OverInv, Declared, CompletedOnce
<1> QED
  BY <1>1, MeaningInvariant, PTL

\* A section thread that is counted has a control thread in its loop, and one
\* that downloads an open file (_threadDownloadMgr, StopDownload, CloseFile).
THEOREM AttendsThreads == Spec => []ThreadsAttended
<1>1. MgrInv /\ MeaningInv => ThreadsAttended
  <2> SUFFICES ASSUME MgrInv, MeaningInv, odd \cap {"early", "again", "add"} = {}
               PROVE  /\ DldrRunning => \E c \in Ctl : pc[c] \in LoopPC
                      /\ (\E t \in Thread : pc[t] = "run") => fileOpen
    BY DEF ThreadsAttended
  <2>1. Attended /\ FileKept
    BY DEF MeaningInv, FlagInv, FileInv
  <2>2. ASSUME NEW t \in Thread, pc[t] = "run" PROVE DldrRunning
    BY <2>2, Grounded, Runs
  <2> QED
    BY <2>1, <2>2 DEF Attended, Attending, FileKept
<1> QED
  BY <1>1, MgrInvariant, MeaningInvariant, PTL

\* DMEE_FATALERROR is raised only if the start has left nothing running, complete
\* or about to start again (the tests at the end of the attempts in
\* _threadDownloadMgr).
THEOREM FatalReal == Spec => []FatalIsReal
<1>1. MeaningInv => FatalIsReal
  BY DEF MeaningInv, FlagInv, Outcome, OutcomeOf, FatalIsReal, StartPC
<1> QED
  BY <1>1, MeaningInvariant, PTL

\* The manager takes a download for done at DMEE_STOPPEDORDONE only when OnDone
\* has given the file its final name.
THEOREM TellsTheTruth == Spec => []ToldTheTruth
<1>1. MeaningInv => ToldTheTruth
  BY DEF MeaningInv
<1> QED
  BY <1>1, MeaningInvariant, PTL
=============================================================================
