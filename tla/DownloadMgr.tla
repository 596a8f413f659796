------------------------------ MODULE DownloadMgr ------------------------------
(***************************************************************************)
(* The control thread of a download: class fsDownloadMgr, with the event   *)
(* handlers that run in the section threads of its fsInternetDownloader.   *)
(*                                                                         *)
(* m_dwState (dw) is a set of flags that callers, the control thread and   *)
(* the handlers write.  Each write is atomic (m_csState); what was read    *)
(* before it may be out of date.  A caller (the interface, or the          *)
(* scheduler in ProcessDownloads) starts the download with a new control   *)
(* thread or asks it to stop.  The control thread starts the downloader,   *)
(* and again while attempts are left, adds sections, restarts a stalled    *)
(* run, and leaves its loop on DS_DONE, on DS_NEEDSTOP and when it cannot  *)
(* start.  A section thread that ends takes m_csDone, counts itself out    *)
(* and runs the handler: DS_DONE when all sections are complete,           *)
(* DS_NEEDSTART or DS_NEEDSTOP when it was the last one and they are not.  *)
(*                                                                         *)
(* The downloader is InternetDownloader without its data: a section        *)
(* completes, fails for good or stops, and OpenUrl has an arbitrary        *)
(* outcome.  DS_NEEDADDSECTION and DS_NEEDADDSECTION2 may be set at any    *)
(* time, so that a pass of the loop adds any number of sections.  Left     *)
(* out: changes of the file on the server (DS_NEEDRESTARTFROM) and of the  *)
(* address, DS_QUERINGSIZE, StopSection, DFEP_ONLYNOTIFY.                  *)
(*                                                                         *)
(* Much of what the handlers and the control thread rely on holds only if  *)
(* certain steps do not overlap, which nothing in the code prevents.  The  *)
(* history variable odd collects the overlaps that have happened; each     *)
(* property names those it cannot stand.  A behaviour goes on after the    *)
(* overlaps in the constant Overlapping and ends at any other.             *)
(***************************************************************************)
EXTENDS Integers

CONSTANTS
  Ctl,            \* bound: the control threads that may exist at once
  Caller,         \* the threads that call StartDownloading, StopDownloading
  None,
  MaxSections,    \* bound: sections of the list
  MaxThreads,     \* bound: section threads that exist at once
  MaxAttempts,    \* m_dp.uMaxAttempts
  NoRecovery,     \* DPF_FORCE_NO_RECOVERY
  MaxFaults,      \* bound: sections that fail or stall, files refused
  MaxCalls,       \* bound: calls of StartDownloading and StopDownloading
  Overlapping     \* bound: the overlaps after which a behaviour goes on

SectId == 1..MaxSections
Thread == 1..MaxThreads
Actor  == Thread \cup Ctl \cup Caller

OverlapKind == {"two", "early", "again", "stop", "late", "gone", "add", "twice"}

ASSUME MgrAssumption ==
  /\ Overlapping \subseteq OverlapKind \ {"two"}
  /\ MaxSections \in Nat \ {0} /\ MaxThreads \in Nat \ {0}
  /\ MaxAttempts \in Nat \ {0} /\ NoRecovery \in BOOLEAN
  /\ MaxFaults \in Nat /\ MaxCalls \in Nat
  /\ Thread \cap Ctl = {} /\ Thread \cap Caller = {} /\ Ctl \cap Caller = {}
  /\ None \notin Actor

VARIABLES
  dw,             \* m_dwState
  bThreadRunning, \* m_bThreadRunning
  bFatalError,    \* m_bFatalError
  bNeedStartAgain, lastError,
  fileOpen,       \* m_hOutFile # INVALID_HANDLE_VALUE
  attempt,        \* the loop index of the attempts to start
  ir,             \* what m_dldr.StartDownloading returned
  i, bOneStarted, \* its loop index and bAtLeast1Started
  n, state,       \* the downloader's sections
  bNeedStop, bNoNew, cRunning,
  csAdd,          \* the holder of m_csAddSection
  csDone,         \* the holder of m_csDone
  bSectDone,      \* the holder of m_csDone is in the handler of DE_SECTIONDONE
  sect,           \* the section of each section thread, 0 without thread
  pc,             \* where each actor is
  completions,    \* history: how often the download was declared complete
  announced,      \* history: "Restarting download..." was said, no start yet
  told,           \* history: what the manager knows: running, stopped, done
  odd,            \* history: what has overlapped that seldom does
  faults, calls   \* counters of the bounds

flagV  == <<dw, bFatalError, bNeedStartAgain>>
startV == <<attempt, ir, i, bOneStarted>>
listV  == <<n, state>>
dldrV  == <<bNeedStop, bNoNew, cRunning>>
lockV  == <<csAdd, csDone, bSectDone>>
histV  == <<completions, announced, told>>
stepV  == <<flagV, bThreadRunning, lastError, fileOpen, startV, listV, dldrV,
            lockV, sect, pc, histV, faults, calls>>
vars   == <<stepV, odd>>
-----------------------------------------------------------------------------
Flag == {"DOWNLOADING", "NEEDSTART", "NEEDSTOP", "DONE"}
SectionState == {"CREATING", "DOWNLOADING", "STOPPED", "FAILED", "DONE"}
Result == {"SUCCESS", "S_FALSE", "ERROR", "BREAK", "STOP"}

AddPC    == {"add_open", "add_insert", "add_launch"}
HandlerPC == {"done_event", "done_add", "done_close", "done_set", "stop_event",
              "stop_clear", "stop_test", "stop_again", "end"}
ThreadPC == {"none", "begin", "run", "leave"} \cup HandlerPC \cup AddPC
StartPC  == {"start", "main_open", "main_launch", "start_sect", "result",
             "tests", "set_downloading", "sleep", "after", "fatal"}
LoopPC   == {"starting", "loop", "stopcheck", "stopwait", "work",
             "watchwait"} \cup StartPC \cup AddPC
CtlPC    == {"none", "close", "ending", "event"} \cup LoopPC
CallerPC == {"idle", "go", "stop"}

IsDone          == n # 0 /\ \A s \in 1..n : state[s] = "DONE"
DldrRunning     == cRunning > 0
IsRunning       == bThreadRunning \/ DldrRunning
IsAllSectionsOk == \A s \in 1..n : state[s] \in {"DOWNLOADING", "DONE"}

Goto(a, l) == pc' = [pc EXCEPT ![a] = l]
Fault == faults < MaxFaults /\ faults' = faults + 1

\* The last section thread is in its handler, or a handler that has found no
\* thread running acts on that.
Acting ==
  \E t \in Thread :
    \/ pc[t] \in {"done_event", "stop_event"} /\ ~DldrRunning
    \/ pc[t] \in {"done_close", "done_set", "stop_clear", "stop_test", "stop_again"}

Init ==
  /\ dw = {} /\ bThreadRunning = FALSE /\ bFatalError = FALSE
  /\ bNeedStartAgain = FALSE /\ lastError = "SUCCESS" /\ fileOpen = FALSE
  /\ attempt = 0 /\ ir = "SUCCESS" /\ i = 1 /\ bOneStarted = FALSE
  /\ n = 0 /\ state = [s \in SectId |-> "STOPPED"]
  /\ bNeedStop = FALSE /\ bNoNew = FALSE /\ cRunning = 0
  /\ csAdd = None /\ csDone = None /\ bSectDone = FALSE
  /\ sect = [t \in Thread |-> 0]
  /\ pc = [a \in Actor |-> IF a \in Caller THEN "idle" ELSE "none"]
  /\ completions = 0 /\ announced = FALSE /\ told = "stopped"
  /\ odd = {} /\ faults = 0 /\ calls = 0
-----------------------------------------------------------------------------
(* StartDownloading and StopDownloading, in the thread of a caller.        *)

\* Mutation of StartCall: only the section threads are asked for.
StartCallUntested(p) ==
  /\ pc[p] = "idle" /\ calls < MaxCalls /\ calls' = calls + 1
  /\ ~DldrRunning /\ ~IsDone
  /\ Goto(p, "go")
  /\ UNCHANGED <<flagV, bThreadRunning, lastError, fileOpen, startV, listV,
                 dldrV, lockV, sect, histV, faults>>

StartCall(p) ==
  /\ pc[p] = "idle" /\ calls < MaxCalls /\ calls' = calls + 1
  /\ ~IsRunning /\ ~IsDone
  /\ Goto(p, "go")
  /\ UNCHANGED <<flagV, bThreadRunning, lastError, fileOpen, startV, listV,
                 dldrV, lockV, sect, histV, faults>>

\* Another caller may have passed the test as well.
Launch(p) ==
  /\ pc[p] = "go"
  /\ dw' = {"NEEDSTART"} /\ bThreadRunning' = TRUE
  /\ \E c \in Ctl : /\ pc[c] = "none"
                    /\ pc' = [pc EXCEPT ![p] = "idle", ![c] = "starting"]
  /\ UNCHANGED <<bFatalError, bNeedStartAgain, lastError, fileOpen, startV,
                 listV, dldrV, lockV, sect, histV, faults, calls>>

StopCall(p) ==
  /\ pc[p] = "idle" /\ calls < MaxCalls /\ calls' = calls + 1
  /\ IsRunning
  /\ dw' = dw \cup {"NEEDSTOP"} /\ Goto(p, "stop")
  /\ UNCHANGED <<bFatalError, bNeedStartAgain, bThreadRunning, lastError,
                 fileOpen, startV, listV, dldrV, lockV, sect, histV, faults>>

\* m_dldr.StopDownloading
StopDldr(p) ==
  /\ pc[p] = "stop" /\ bNeedStop' = TRUE /\ Goto(p, "idle")
  /\ UNCHANGED <<flagV, bThreadRunning, lastError, fileOpen, startV, listV,
                 bNoNew, cRunning, lockV, sect, histV, faults, calls>>
-----------------------------------------------------------------------------
(* _threadDownloadMgr                                                      *)

\* DMEE_STARTING: the manager registers the download, or does not allow it.
ThreadStarts(c) ==
  /\ pc[c] = "starting" /\ bThreadRunning' = TRUE
  /\ \/ /\ told' = "running" /\ Goto(c, "loop") /\ UNCHANGED <<bFatalError, faults>>
     \/ /\ Fault /\ bFatalError' = TRUE /\ told' = "stopped" /\ Goto(c, "ending")
  /\ UNCHANGED <<dw, bNeedStartAgain, lastError, fileOpen, startV, listV, dldrV,
                 lockV, sect, completions, announced, calls>>

\* Mutation of LoopEnds: the sections are asked instead of DS_DONE.
LoopEndsOnSections(c) ==
  /\ pc[c] = "loop" /\ IsDone /\ Goto(c, "close")
  /\ UNCHANGED <<flagV, bThreadRunning, lastError, fileOpen, startV, listV,
                 dldrV, lockV, sect, histV, faults, calls>>

LoopEnds(c) ==
  /\ pc[c] = "loop" /\ "DONE" \in dw /\ Goto(c, "close")
  /\ UNCHANGED <<flagV, bThreadRunning, lastError, fileOpen, startV, listV,
                 dldrV, lockV, sect, histV, faults, calls>>

\* Mutation of LoopNeedStart: all flags are reset, DS_NEEDSTOP as well.
LoopNeedStartOnly(c) ==
  /\ pc[c] = "loop" /\ "DONE" \notin dw /\ "NEEDSTART" \in dw
  /\ dw' = {} /\ attempt' = 1 /\ Goto(c, "start")
  /\ UNCHANGED <<bFatalError, bNeedStartAgain, bThreadRunning, lastError,
                 fileOpen, ir, i, bOneStarted, listV, dldrV, lockV, sect, histV,
                 faults, calls>>

LoopNeedStart(c) ==
  /\ pc[c] = "loop" /\ "DONE" \notin dw /\ "NEEDSTART" \in dw
  /\ dw' = dw \ {"NEEDSTART"} /\ attempt' = 1 /\ Goto(c, "start")
  /\ UNCHANGED <<bFatalError, bNeedStartAgain, bThreadRunning, lastError,
                 fileOpen, ir, i, bOneStarted, listV, dldrV, lockV, sect, histV,
                 faults, calls>>

LoopRuns(c) ==
  /\ pc[c] = "loop" /\ dw \cap {"DONE", "NEEDSTART"} = {} /\ Goto(c, "stopcheck")
  /\ UNCHANGED <<flagV, bThreadRunning, lastError, fileOpen, startV, listV,
                 dldrV, lockV, sect, histV, faults, calls>>

\* StartDownload, up to the call of m_dldr.StartDownloading and its tests.
StartDownload(c) ==
  /\ pc[c] = "start" /\ bFatalError' = FALSE /\ announced' = FALSE
  /\ IF n = 0
     THEN /\ csAdd = None /\ csAdd' = c
          /\ bNoNew' = FALSE /\ bNeedStop' = FALSE /\ Goto(c, "main_open")
          /\ UNCHANGED <<ir, i, bOneStarted>>
     ELSE /\ UNCHANGED csAdd
          /\ IF DldrRunning \/ IsDone
             THEN /\ ir' = "S_FALSE" /\ Goto(c, "result")
                  /\ UNCHANGED <<bNoNew, bNeedStop, i, bOneStarted>>
             ELSE /\ bNeedStop' = FALSE /\ bNoNew' = TRUE /\ i' = 1
                  /\ bOneStarted' = FALSE /\ Goto(c, "start_sect")
                  /\ UNCHANGED ir
  /\ UNCHANGED <<dw, bNeedStartAgain, bThreadRunning, lastError, fileOpen,
                 attempt, listV, cRunning, csDone, bSectDone, sect, completions,
                 told, faults, calls>>

\* OpenUrl fails or is stopped: the errors StartDownload and its caller tell
\* apart.
OpenError == IF bNeedStop THEN {"S_FALSE"} ELSE {"ERROR", "BREAK", "STOP"}

MainFails(c) ==
  /\ pc[c] = "main_open" /\ ir' \in OpenError
  /\ csAdd' = None /\ Goto(c, "result")
  /\ UNCHANGED <<flagV, bThreadRunning, lastError, fileOpen, attempt, i,
                 bOneStarted, listV, dldrV, csDone, bSectDone, sect, histV,
                 faults, calls>>

\* DE_QUERYNEWSECTION or DE_NEEDFILE is refused; OnNeedFile refuses when it
\* cannot open the file, with these flags.
FileRefused ==
  /\ Fault /\ ir' = "S_FALSE"
  /\ \/ ~fileOpen /\ bFatalError' = TRUE /\ dw' \in {dw, dw \cup {"NEEDSTOP"}}
     \/ UNCHANGED <<bFatalError, dw>>

MainNoFile(c) ==
  /\ pc[c] = "main_open" /\ ~bNeedStop /\ FileRefused
  /\ csAdd' = None /\ Goto(c, "result")
  /\ UNCHANGED <<bNeedStartAgain, bThreadRunning, lastError, fileOpen, attempt,
                 i, bOneStarted, listV, dldrV, csDone, bSectDone, sect, histV,
                 calls>>

MainOpened(c) ==
  /\ pc[c] = "main_open" /\ ~bNeedStop
  /\ fileOpen' = TRUE /\ n' = 1 /\ state' = [state EXCEPT ![1] = "CREATING"]
  /\ Goto(c, "main_launch")
  /\ UNCHANGED <<flagV, bThreadRunning, lastError, startV, dldrV, lockV, sect,
                 histV, faults, calls>>

\* A thread for section s, launched by actor a, which goes on at l.
LaunchThread(a, s, l) ==
  \E t \in Thread :
    /\ pc[t] = "none" /\ \A u \in 1..(t - 1) : pc[u] # "none"
    /\ sect' = [sect EXCEPT ![t] = s]
    /\ pc' = [pc EXCEPT ![t] = "begin", ![a] = l]
    /\ cRunning' = cRunning + 1

MainLaunch(c) ==
  /\ pc[c] = "main_launch" /\ LaunchThread(c, 1, "result")
  /\ ir' = IF bNeedStop THEN "S_FALSE" ELSE "SUCCESS"
  /\ csAdd' = None
  /\ UNCHANGED <<flagV, bThreadRunning, lastError, fileOpen, attempt, i,
                 bOneStarted, listV, bNeedStop, bNoNew, csDone, bSectDone, histV,
                 faults, calls>>

\* A complete section, or one DE_QUERYNEWSECTION refuses to start.
StartSkip(c) ==
  /\ pc[c] = "start_sect" /\ i <= n /\ ~bNeedStop /\ i' = i + 1
  /\ UNCHANGED <<flagV, bThreadRunning, lastError, fileOpen, attempt, ir,
                 bOneStarted, listV, dldrV, lockV, sect, pc, histV, faults,
                 calls>>

StartSection(c) ==
  /\ pc[c] = "start_sect" /\ i <= n /\ ~bNeedStop /\ state[i] # "DONE"
  /\ fileOpen' = TRUE /\ LaunchThread(c, i, "start_sect")
  /\ state' = [state EXCEPT ![i] = "DOWNLOADING"]
  /\ i' = i + 1 /\ bOneStarted' = TRUE
  /\ UNCHANGED <<flagV, bThreadRunning, lastError, attempt, ir, n, bNeedStop,
                 bNoNew, lockV, histV, faults, calls>>

\* The return leaves m_bNoNewSections set.
StartNoFile(c) ==
  /\ pc[c] = "start_sect" /\ i <= n /\ ~bNeedStop /\ state[i] # "DONE"
  /\ FileRefused /\ Goto(c, "result")
  /\ UNCHANGED <<bNeedStartAgain, bThreadRunning, lastError, fileOpen, attempt,
                 i, bOneStarted, listV, dldrV, lockV, sect, histV, calls>>

\* A section cannot be opened: the next one, if one has started.
StartOpenFails(c) ==
  /\ pc[c] = "start_sect" /\ i <= n /\ state[i] # "DONE"
  /\ IF bOneStarted
     THEN i' = i + 1 /\ UNCHANGED <<ir, pc>>
     ELSE ir' \in OpenError /\ Goto(c, "result") /\ UNCHANGED i
  /\ UNCHANGED <<flagV, bThreadRunning, lastError, fileOpen, attempt,
                 bOneStarted, listV, dldrV, lockV, sect, histV, faults,
                 calls>>

\* The server does not resume: the list is cleared and the start begins anew.
StartAfresh(c) ==
  /\ pc[c] = "start_sect" /\ i <= n /\ ~bNeedStop /\ state[i] # "DONE"
  /\ ~bOneStarted /\ ~DldrRunning
  /\ n' = 0 /\ state' = [s \in SectId |-> "STOPPED"]
  /\ bNeedStop' = TRUE /\ Goto(c, "start")
  /\ UNCHANGED <<flagV, bThreadRunning, lastError, fileOpen, startV, bNoNew,
                 cRunning, lockV, sect, histV, faults, calls>>

StartReturns(c) ==
  /\ pc[c] = "start_sect" /\ (i > n \/ bNeedStop)
  /\ bNoNew' = FALSE /\ ir' = IF DldrRunning THEN "SUCCESS" ELSE "S_FALSE"
  /\ Goto(c, "result")
  /\ UNCHANGED <<flagV, bThreadRunning, lastError, fileOpen, attempt, i,
                 bOneStarted, listV, bNeedStop, cRunning, lockV, sect, histV,
                 faults, calls>>

\* The rest of StartDownload: some errors stop the download, and so does a
\* start that leaves no thread running.
StartResult(c) ==
  /\ pc[c] = "result" /\ Goto(c, "tests")
  /\ bFatalError' = (bFatalError \/ ir = "STOP")
  /\ LET stops == ir = "STOP" \/ (ir = "S_FALSE" /\ ~DldrRunning)
     IN dw' = IF stops THEN dw \cup {"NEEDSTOP"} ELSE dw
  /\ lastError' = IF ir = "STOP" THEN "S_FALSE" ELSE ir
  /\ UNCHANGED <<bNeedStartAgain, bThreadRunning, fileOpen, startV, listV, dldrV,
                 lockV, sect, histV, faults, calls>>

\* Mutation of StartTests: one attempt too many.
StartTestsOneMore(c) ==
  /\ pc[c] = "tests"
  /\ Goto(c, IF "NEEDSTOP" \in dw \/ lastError \in {"S_FALSE", "BREAK"} THEN "after"
             ELSE IF lastError = "SUCCESS" THEN "set_downloading"
             ELSE IF attempt > MaxAttempts THEN "after" ELSE "sleep")
  /\ UNCHANGED <<flagV, bThreadRunning, lastError, fileOpen, startV, listV, dldrV,
                 lockV, sect, histV, faults, calls>>

StartTests(c) ==
  /\ pc[c] = "tests"
  /\ Goto(c, IF "NEEDSTOP" \in dw \/ lastError \in {"S_FALSE", "BREAK"} THEN "after"
             ELSE IF lastError = "SUCCESS" THEN "set_downloading"
             ELSE IF attempt = MaxAttempts THEN "after" ELSE "sleep")
  /\ UNCHANGED <<flagV, bThreadRunning, lastError, fileOpen, startV, listV, dldrV,
                 lockV, sect, histV, faults, calls>>

SetDownloading(c) ==
  /\ pc[c] = "set_downloading" /\ dw' = dw \cup {"DOWNLOADING"} /\ Goto(c, "after")
  /\ UNCHANGED <<bFatalError, bNeedStartAgain, bThreadRunning, lastError, fileOpen,
                 startV, listV, dldrV, lockV, sect, histV, faults, calls>>

SleepInterval(c) ==
  /\ pc[c] = "sleep"
  /\ \/ "NEEDSTOP" \in dw /\ Goto(c, "after") /\ UNCHANGED attempt
     \/ attempt' = attempt + 1 /\ Goto(c, "start")
  /\ UNCHANGED <<flagV, bThreadRunning, lastError, fileOpen, ir, i, bOneStarted,
                 listV, dldrV, lockV, sect, histV, faults, calls>>

\* Mutation of AfterStart: DS_DOWNLOADING is not asked for.
AfterStartBlind(c) ==
  /\ pc[c] = "after"
  /\ Goto(c, IF "NEEDSTOP" \notin dw /\ lastError # "S_FALSE"
             THEN "fatal" ELSE "stopcheck")
  /\ attempt' = 0 /\ ir' = "SUCCESS" /\ i' = 1 /\ bOneStarted' = FALSE
  /\ UNCHANGED <<flagV, bThreadRunning, lastError, fileOpen, listV, dldrV, lockV,
                 sect, histV, faults, calls>>

\* Nothing was started: the loop ends with DMEE_FATALERROR.
AfterStart(c) ==
  /\ pc[c] = "after"
  /\ Goto(c, IF dw \cap {"DOWNLOADING", "NEEDSTOP"} = {} /\ lastError # "S_FALSE"
             THEN "fatal" ELSE "stopcheck")
  /\ attempt' = 0 /\ ir' = "SUCCESS" /\ i' = 1 /\ bOneStarted' = FALSE
  /\ UNCHANGED <<flagV, bThreadRunning, lastError, fileOpen, listV, dldrV, lockV,
                 sect, histV, faults, calls>>

FatalError(c) ==
  /\ pc[c] = "fatal" /\ bFatalError' = TRUE /\ dw' = {} /\ Goto(c, "close")
  /\ UNCHANGED <<bNeedStartAgain, bThreadRunning, lastError, fileOpen, startV,
                 listV, dldrV, lockV, sect, histV, faults, calls>>

StopCheck(c) ==
  /\ pc[c] = "stopcheck"
  /\ IF "NEEDSTOP" \in dw
     THEN Goto(c, "stopwait") /\ bNeedStop' = (bNeedStop \/ DldrRunning)
     ELSE Goto(c, "work") /\ UNCHANGED bNeedStop
  /\ UNCHANGED <<flagV, bThreadRunning, lastError, fileOpen, startV, listV, bNoNew,
                 cRunning, lockV, sect, histV, faults, calls>>

\* Mutation of Stopped: the sections are not waited for.
StoppedEarly(c) ==
  /\ pc[c] = "stopwait" /\ dw' = {} /\ Goto(c, "close")
  /\ UNCHANGED <<bFatalError, bNeedStartAgain, bThreadRunning, lastError, fileOpen,
                 startV, listV, dldrV, lockV, sect, histV, faults, calls>>

\* StopDownload returns: no thread is counted, one may still be in a handler.
Stopped(c) ==
  /\ pc[c] = "stopwait" /\ ~DldrRunning /\ dw' = {} /\ Goto(c, "close")
  /\ UNCHANGED <<bFatalError, bNeedStartAgain, bThreadRunning, lastError, fileOpen,
                 startV, listV, dldrV, lockV, sect, histV, faults, calls>>

WorkDone(c) ==
  /\ pc[c] = "work" /\ Goto(c, "loop")
  /\ UNCHANGED <<flagV, bThreadRunning, lastError, fileOpen, startV, listV, dldrV,
                 lockV, sect, histV, faults, calls>>

\* No byte has come for two minutes: the sections are stopped, to start again.
Watchdog(c) ==
  /\ pc[c] = "work" /\ "DOWNLOADING" \in dw
  /\ \E s \in 1..n : state[s] = "DOWNLOADING"
  /\ Fault /\ bNeedStartAgain' = (bNeedStartAgain \/ ~NoRecovery)
  /\ bNeedStop' = (bNeedStop \/ DldrRunning) /\ Goto(c, "watchwait")
  /\ UNCHANGED <<dw, bFatalError, bThreadRunning, lastError, fileOpen, startV,
                 listV, bNoNew, cRunning, lockV, sect, histV, calls>>

WatchdogStopped(c) ==
  /\ pc[c] = "watchwait" /\ ~DldrRunning /\ Goto(c, "loop")
  /\ UNCHANGED <<flagV, bThreadRunning, lastError, fileOpen, startV, listV, dldrV,
                 lockV, sect, histV, faults, calls>>

\* DS_NEEDADDSECTION2 with a stopped section: the first one gets a thread.
LaunchOneMoreSection(c) ==
  /\ pc[c] = "work"
  /\ \E s \in 1..n :
       /\ state[s] = "STOPPED" /\ \A r \in 1..(s - 1) : state[r] # "STOPPED"
       /\ LaunchThread(c, s, "loop")
  /\ UNCHANGED <<flagV, bThreadRunning, lastError, fileOpen, startV, listV,
                 bNeedStop, bNoNew, lockV, histV, faults, calls>>

Close(c) ==
  /\ pc[c] = "close" /\ fileOpen' = FALSE /\ Goto(c, "ending")
  /\ UNCHANGED <<flagV, bThreadRunning, lastError, startV, listV, dldrV, lockV,
                 sect, histV, faults, calls>>

ThreadEnds(c) ==
  /\ pc[c] = "ending" /\ bThreadRunning' = FALSE /\ Goto(c, "event")
  /\ UNCHANGED <<flagV, lastError, fileOpen, startV, listV, dldrV, lockV, sect,
                 histV, faults, calls>>

\* DMEE_STOPPEDORDONE: the manager asks IsDone.
StoppedOrDone(c) ==
  /\ pc[c] = "event" /\ Goto(c, "none")
  /\ told' = IF IsDone THEN "done" ELSE "stopped"
  /\ UNCHANGED <<flagV, bThreadRunning, lastError, fileOpen, startV, listV, dldrV,
                 lockV, sect, completions, announced, faults, calls>>
-----------------------------------------------------------------------------
(* AddSection, of the control thread and of the section threads.           *)

\* Where AddSection returns to: the loop, the thread or the handler.
Back(a) == IF a \in Ctl THEN "work" ELSE IF csDone = a THEN "end" ELSE "run"

\* DS_NEEDADDSECTION2 does not ask IsSectionCanBeAdded.
MayAdd(a) ==
  \/ pc[a] = "work"
  \/ /\ pc[a] \in {"run", "done_add"} /\ "DOWNLOADING" \in dw /\ "NEEDSTOP" \notin dw
     /\ IsAllSectionsOk

\* The error is in the variable that the control thread tests.
AddRefused(a) ==
  /\ MayAdd(a) /\ n > 0 /\ lastError' \in {"S_FALSE", "BREAK"} /\ Goto(a, Back(a))
  /\ UNCHANGED <<flagV, bThreadRunning, fileOpen, startV, listV, dldrV, lockV, sect,
                 histV, faults, calls>>

AddSection(a) ==
  /\ MayAdd(a) /\ n \in 1..(MaxSections - 1) /\ ~bNoNew
  /\ csAdd = None /\ csAdd' = a /\ Goto(a, "add_open")
  /\ UNCHANGED <<flagV, bThreadRunning, lastError, fileOpen, startV, listV, dldrV,
                 csDone, bSectDone, sect, histV, faults, calls>>

AddFails(a) ==
  /\ pc[a] = "add_open"
  /\ csAdd' = None /\ lastError' \in {"S_FALSE", "ERROR", "BREAK"} /\ Goto(a, Back(a))
  /\ UNCHANGED <<flagV, bThreadRunning, fileOpen, startV, listV, dldrV, csDone,
                 bSectDone, sect, histV, faults, calls>>

\* The new section is open and the download not complete.
AddOpened(a) ==
  /\ pc[a] = "add_open" /\ ~bNeedStop /\ ~IsDone /\ Goto(a, "add_insert")
  /\ UNCHANGED <<flagV, bThreadRunning, lastError, fileOpen, startV, listV, dldrV,
                 lockV, sect, histV, faults, calls>>

AddInsert(a) ==
  /\ pc[a] = "add_insert"
  /\ n' = n + 1 /\ state' = [state EXCEPT ![n + 1] = "CREATING"]
  /\ Goto(a, "add_launch")
  /\ UNCHANGED <<flagV, bThreadRunning, lastError, fileOpen, startV, dldrV, lockV,
                 sect, histV, faults, calls>>

AddLaunch(a) ==
  /\ pc[a] = "add_launch" /\ LaunchThread(a, n, Back(a))
  /\ csAdd' = None /\ lastError' = "SUCCESS"
  /\ UNCHANGED <<flagV, bThreadRunning, fileOpen, startV, listV, bNeedStop, bNoNew,
                 csDone, bSectDone, histV, faults, calls>>
-----------------------------------------------------------------------------
(* _threadDownload: a section thread.                                      *)

ThreadBegin(t) ==
  /\ pc[t] = "begin"
  /\ state' = [state EXCEPT ![sect[t]] = IF bNeedStop THEN "STOPPED" ELSE "DOWNLOADING"]
  /\ Goto(t, IF bNeedStop THEN "leave" ELSE "run")
  /\ UNCHANGED <<flagV, bThreadRunning, lastError, fileOpen, startV, n, dldrV, lockV,
                 sect, histV, faults, calls>>

\* The section is complete, fails, or sees m_bNeedStop.
SectionEnds(t) ==
  /\ pc[t] = "run" /\ Goto(t, "leave")
  /\ \E st \in {"DONE", "FAILED", "STOPPED"} :
       /\ state' = [state EXCEPT ![sect[t]] = st]
       /\ st = "STOPPED" => bNeedStop
       /\ IF st = "FAILED" THEN Fault ELSE UNCHANGED faults
  /\ UNCHANGED <<flagV, bThreadRunning, lastError, fileOpen, startV, n, dldrV, lockV,
                 sect, histV, calls>>

\* m_csDone is taken, the thread counted out; a write error is fatal.
Leave(t) ==
  /\ pc[t] = "leave" /\ csDone = None /\ csDone' = t /\ cRunning' = cRunning - 1
  /\ bSectDone' = (state[sect[t]] = "DONE")
  /\ Goto(t, IF state[sect[t]] = "DONE" THEN "done_event" ELSE "stop_event")
  /\ \/ UNCHANGED bFatalError
     \/ state[sect[t]] = "FAILED" /\ bFatalError' = TRUE
  /\ UNCHANGED <<dw, bNeedStartAgain, bThreadRunning, lastError, fileOpen, startV,
                 listV, bNeedStop, bNoNew, csAdd, sect, histV, faults, calls>>

\* Mutation of SectionDone: DS_DONE and the threads that run do not matter.
SectionDoneAgain(t) ==
  /\ pc[t] = "done_event"
  /\ Goto(t, IF IsDone THEN "done_close"
             ELSE IF IsAllSectionsOk THEN "done_add" ELSE "stop_event")
  /\ UNCHANGED <<flagV, bThreadRunning, lastError, fileOpen, startV, listV, dldrV,
                 lockV, sect, histV, faults, calls>>

\* DE_SECTIONDONE
SectionDone(t) ==
  /\ pc[t] = "done_event"
  /\ Goto(t, IF IsDone /\ "DONE" \notin dw /\ ~DldrRunning THEN "done_close"
             ELSE IF IsAllSectionsOk THEN "done_add" ELSE "stop_event")
  /\ UNCHANGED <<flagV, bThreadRunning, lastError, fileOpen, startV, listV, dldrV,
                 lockV, sect, histV, faults, calls>>

NotAdded(t) ==
  /\ pc[t] = "done_add" /\ Goto(t, "end")
  /\ UNCHANGED <<flagV, bThreadRunning, lastError, fileOpen, startV, listV, dldrV,
                 lockV, sect, histV, faults, calls>>

\* OnDone: the file is closed and gets its final name.
OnDone(t) ==
  /\ pc[t] = "done_close" /\ fileOpen' = FALSE /\ Goto(t, "done_set")
  /\ UNCHANGED <<flagV, bThreadRunning, lastError, startV, listV, dldrV, lockV, sect,
                 histV, faults, calls>>

SetDone(t) ==
  /\ pc[t] = "done_set" /\ dw' = {"DONE"} /\ completions' = completions + 1
  /\ Goto(t, "end")
  /\ UNCHANGED <<bFatalError, bNeedStartAgain, bThreadRunning, lastError, fileOpen,
                 startV, listV, dldrV, lockV, sect, announced, told, faults, calls>>

OnSectionStopped(t) ==
  /\ pc[t] = "stop_event" /\ Goto(t, IF DldrRunning THEN "end" ELSE "stop_clear")
  /\ UNCHANGED <<flagV, bThreadRunning, lastError, fileOpen, startV, listV, dldrV,
                 lockV, sect, histV, faults, calls>>

ClearDownloading(t) ==
  /\ pc[t] = "stop_clear" /\ dw' = dw \ {"DOWNLOADING"} /\ Goto(t, "stop_test")
  /\ UNCHANGED <<bFatalError, bNeedStartAgain, bThreadRunning, lastError, fileOpen,
                 startV, listV, dldrV, lockV, sect, histV, faults, calls>>

\* The last section has stopped by itself, or is to start again.
AnnounceRestart(t) ==
  /\ pc[t] = "stop_test"
  /\ ~NoRecovery /\ (bNeedStartAgain \/ ~bNeedStop) /\ ~bFatalError
  /\ bNeedStartAgain' = FALSE /\ announced' = TRUE /\ Goto(t, "stop_again")
  /\ UNCHANGED <<dw, bFatalError, bThreadRunning, lastError, fileOpen, startV, listV,
                 dldrV, lockV, sect, completions, told, faults, calls>>

SetNeedStart(t) ==
  /\ pc[t] = "stop_again" /\ dw' = dw \cup {"NEEDSTART"} /\ Goto(t, "end")
  /\ UNCHANGED <<bFatalError, bNeedStartAgain, bThreadRunning, lastError, fileOpen,
                 startV, listV, dldrV, lockV, sect, histV, faults, calls>>

\* Mutation of SetNeedStop: the control thread is not told.
SetNothing(t) ==
  /\ pc[t] = "stop_test"
  /\ NoRecovery \/ (~bNeedStartAgain /\ bNeedStop) \/ bFatalError
  /\ Goto(t, "end")
  /\ UNCHANGED <<flagV, bThreadRunning, lastError, fileOpen, startV, listV, dldrV,
                 lockV, sect, histV, faults, calls>>

SetNeedStop(t) ==
  /\ pc[t] = "stop_test"
  /\ NoRecovery \/ (~bNeedStartAgain /\ bNeedStop) \/ bFatalError
  /\ dw' = dw \cup {"NEEDSTOP"} /\ Goto(t, "end")
  /\ UNCHANGED <<bFatalError, bNeedStartAgain, bThreadRunning, lastError, fileOpen,
                 startV, listV, dldrV, lockV, sect, histV, faults, calls>>

\* Mutation of ThreadExit: the state is reset after DE_SECTIONDONE as well.
ThreadExitResets(t) ==
  /\ pc[t] = "end" /\ csDone' = None /\ bSectDone' = FALSE /\ Goto(t, "none")
  /\ state' = [state EXCEPT ![sect[t]] = "STOPPED"]
  /\ sect' = [sect EXCEPT ![t] = 0]
  /\ UNCHANGED <<flagV, bThreadRunning, lastError, fileOpen, startV, n, dldrV, csAdd,
                 histV, faults, calls>>

\* After DE_SECTIONSTOPPED the state is set, whatever it is by now.
ThreadExit(t) ==
  /\ pc[t] = "end" /\ csDone' = None /\ bSectDone' = FALSE /\ Goto(t, "none")
  /\ state' = IF bSectDone THEN state ELSE [state EXCEPT ![sect[t]] = "STOPPED"]
  /\ sect' = [sect EXCEPT ![t] = 0]
  /\ UNCHANGED <<flagV, bThreadRunning, lastError, fileOpen, startV, n, dldrV, csAdd,
                 histV, faults, calls>>
-----------------------------------------------------------------------------
CallerSteps(p) == StartCall(p) \/ Launch(p) \/ StopCall(p) \/ StopDldr(p)

AddSteps(a) ==
  \/ AddRefused(a) \/ AddSection(a) \/ AddFails(a)
  \/ AddOpened(a) \/ AddInsert(a) \/ AddLaunch(a)

StartSteps(c) ==
  \/ StartDownload(c) \/ MainFails(c) \/ MainNoFile(c) \/ MainOpened(c)
  \/ MainLaunch(c) \/ StartSkip(c) \/ StartSection(c) \/ StartNoFile(c)
  \/ StartOpenFails(c) \/ StartAfresh(c) \/ StartReturns(c) \/ StartResult(c)
  \/ StartTests(c) \/ SetDownloading(c) \/ SleepInterval(c) \/ AfterStart(c)

EndSteps(c) ==
  LoopEnds(c) \/ FatalError(c) \/ Stopped(c) \/ Close(c) \/ ThreadEnds(c)
    \/ StoppedOrDone(c)

ControlSteps(c) ==
  \/ ThreadStarts(c) \/ LoopNeedStart(c) \/ LoopRuns(c) \/ StopCheck(c)
  \/ WorkDone(c) \/ Watchdog(c) \/ WatchdogStopped(c) \/ LaunchOneMoreSection(c)
  \/ StartSteps(c) \/ EndSteps(c) \/ AddSteps(c)

SectionSteps(t) ==
  \/ ThreadBegin(t) \/ SectionEnds(t) \/ Leave(t) \/ SectionDone(t) \/ NotAdded(t)
  \/ OnDone(t) \/ SetDone(t) \/ OnSectionStopped(t) \/ ClearDownloading(t)
  \/ AnnounceRestart(t) \/ SetNeedStart(t) \/ SetNeedStop(t) \/ ThreadExit(t)
  \/ AddSteps(t)

(* What the code does not exclude, and a run seldom meets.                 *)

\* Two callers have found the download not running.  The steps of two control
\* threads at once are not modelled.
Two == \E p, q \in Caller : p # q /\ pc[p] = "go" /\ pc[q] = "go"

\* The last section thread has ended before the start of the downloader was
\* over, or the next start begins while that thread is in its handler.
Early == Acting /\ \E c \in Ctl : pc[c] \in StartPC

\* Such a handler is about to write m_dwState or to close the file, and a
\* section thread runs again: the control thread has launched it meanwhile.
Again ==
  DldrRunning /\ \E t \in Thread : pc[t] \in {"done_close", "done_set", "stop_clear"}

\* The control thread leaves its loop while such a handler acts.
Stopping == Acting /\ \E c \in Ctl : pc[c] \in {"close", "ending", "event"}

\* The download starts again before it was said to have stopped.
Late == bThreadRunning /\ \E c \in Ctl : pc[c] = "event"

\* The list was cleared when a section thread had not ended yet.
Gone == \E t \in Thread : pc[t] # "none" /\ sect[t] > n

\* A section is added although the others are complete by now.
AddedDone == IsDone /\ \E a \in Actor : pc[a] = "add_insert"

\* A section has a thread that ends and one that begins.
Twice ==
  \E t, u \in Thread : t # u /\ pc[t] # "none" /\ pc[u] # "none" /\ sect[t] = sect[u]

Overlap ==
  {o \in OverlapKind :
     \/ o = "two" /\ Two
     \/ o = "early" /\ Early
     \/ o = "again" /\ Again
     \/ o = "stop" /\ Stopping
     \/ o = "late" /\ Late
     \/ o = "gone" /\ Gone
     \/ o = "add" /\ AddedDone
     \/ o = "twice" /\ Twice}

GoesOn == odd \subseteq Overlapping

Step ==
  \/ \E p \in Caller : CallerSteps(p)
  \/ \E c \in Ctl : ControlSteps(c)
  \/ \E t \in Thread : SectionSteps(t)

Next == GoesOn /\ Step /\ odd' = odd \cup Overlap'

Spec == Init /\ [][Next]_vars

\* Threads that can run do, and a pass of the loop ends.  A section may take
\* for ever, unless it is told to stop; nobody has to call.
Fairness ==
  /\ \A p \in Caller : WF_stepV(GoesOn /\ (Launch(p) \/ StopDldr(p)))
  /\ \A c \in Ctl : /\ WF_stepV(GoesOn /\ ControlSteps(c))
                    /\ SF_stepV(GoesOn /\ WorkDone(c))
  /\ \A t \in Thread : /\ WF_stepV(GoesOn /\ pc[t] # "run" /\ SectionSteps(t))
                       /\ SF_stepV(GoesOn /\ bNeedStop /\ SectionEnds(t))

FairSpec == Spec /\ Fairness
-----------------------------------------------------------------------------
(* Properties.                                                             *)

\* Every actor is where its code can be.
PlacesOK ==
  /\ pc \in [Actor -> ThreadPC \cup CtlPC \cup CallerPC]
  /\ \A t \in Thread : pc[t] \in ThreadPC
  /\ \A c \in Ctl : pc[c] \in CtlPC
  /\ \A p \in Caller : pc[p] \in CallerPC

FlagsOK ==
  /\ bThreadRunning \in BOOLEAN /\ bFatalError \in BOOLEAN
  /\ bNeedStartAgain \in BOOLEAN /\ fileOpen \in BOOLEAN
  /\ bOneStarted \in BOOLEAN /\ bNeedStop \in BOOLEAN /\ bNoNew \in BOOLEAN
  /\ bSectDone \in BOOLEAN /\ announced \in BOOLEAN

\* Every variable has its type.
TypeOK ==
  /\ PlacesOK /\ FlagsOK
  /\ dw \subseteq Flag /\ lastError \in Result \ {"STOP"}
  /\ attempt \in 0..MaxAttempts /\ ir \in Result /\ i \in 1..(MaxSections + 1)
  /\ n \in 0..MaxSections /\ state \in [SectId -> SectionState]
  /\ cRunning \in Int /\ sect \in [Thread -> SectId \cup {0}]
  /\ csAdd \in Actor \cup {None} /\ csDone \in Thread \cup {None}
  /\ completions \in Nat /\ told \in {"running", "stopped", "done"}
  /\ odd \subseteq OverlapKind /\ faults \in 0..MaxFaults /\ calls \in 0..MaxCalls

Controls == {c \in Ctl : pc[c] \in LoopPC \cup {"close", "ending"}}

\* m_bThreadRunning says whether a control thread runs, and there is one at
\* most, as long as callers do not test it at the same time.
RunningIsKnown ==
  "two" \notin odd =>
    /\ bThreadRunning <=> Controls # {}
    /\ \A c, d \in Controls : c = d

\* A section thread never runs without the control thread in its loop, nor
\* writes to a closed file: nothing would stop, restart or report it.
ThreadsAttended ==
  odd \cap {"early", "again", "add"} = {} =>
    /\ DldrRunning => \E c \in Ctl : pc[c] \in LoopPC
    /\ (\E t \in Thread : pc[t] = "run") => fileOpen

\* The loop ends with a fatal error only when nothing runs, nothing is
\* complete and nothing is to start again.
FatalIsReal ==
  odd \cap {"early", "again"} = {} =>
    \A c \in Ctl : pc[c] = "fatal" => ~IsDone /\ ~DldrRunning /\ ~announced

\* A download is declared complete, and its file renamed, once.
CompletedOnce == "add" \notin odd => completions <= 1

\* The manager hears that a download is done when its file has been renamed.
ToldTheTruth ==
  odd \cap {"early", "again", "stop", "late"} = {} =>
    (told = "done" => completions > 0)

\* A complete section stays complete: the late write of SS_STOPPED by its
\* last thread does not undo it.
DoneSectionStays ==
  [][odd' \cap {"gone", "twice"} = {} =>
       \A s \in 1..n : state[s] = "DONE" /\ s <= n' => state'[s] = "DONE"]_vars

InLoop == \E c \in Ctl : pc[c] \in LoopPC

\* Once a stop is asked for, the control thread leaves its loop, although a
\* handler may write DS_NEEDSTART or DS_DONE and a section adds sections.
StopHonoured ==
  (InLoop /\ "NEEDSTOP" \in dw) ~> (~InLoop \/ odd \ Overlapping # {})

\* The control thread does not wait in its loop for ever with no section
\* running: some handler tells it what to do next.
RunGoesOn ==
  InLoop ~> (~InLoop \/ odd # {} \/ \E t \in Thread : pc[t] = "run")
=============================================================================
