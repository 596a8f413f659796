-------------------------- MODULE InternetDownloader --------------------------
(***************************************************************************)
(* The segmented downloader of one file: class fsInternetDownloader.       *)
(*                                                                         *)
(* A download of FileSize bytes is a list of sections.  Section s covers   *)
(* [uStart, uEnd); its thread has written [uStart, uCurrent) to the output *)
(* file and holds the dwCacheLen bytes that follow in its write cache.     *)
(* While threads run, CreateAdditionalSection cuts the largest section in  *)
(* two: it shrinks the target's uEnd and appends a new section for the     *)
(* part cut off.  It runs in whichever thread raised the request: the      *)
(* control thread of the owner (Owner), a section thread inside its        *)
(* DE_SECTDOWNLOADING event, or a finished section thread inside its       *)
(* DE_SECTIONDONE event (Tail).                                            *)
(*                                                                         *)
(* Threads are interleaved at the granularity of the locks of the code:    *)
(* m_csAddSection is csAdd, m_csDone is held by a thread at "count_out"    *)
(* and while Tail is active, m_csSections and m_csWriteToFile protect      *)
(* single steps, and OpenUrl, all of which m_csOpenUrl protects, is one    *)
(* step with an arbitrary outcome.  No lock is common to all updates of    *)
(* m_cRunningThreads: each reads it into old and stores in a later step.   *)
(* The file size is known, there is one server (no mirrors, no redirects), *)
(* and its copy of the file does not change.  The cache keeps its size and *)
(* the search for the largest section is one step.                         *)
(*                                                                         *)
(* The history variable odd says what the code does not exclude:           *)
(*   lost    an update of m_cRunningThreads overwrote another one;         *)
(*   blind   StartDownloading began beside threads it took to have ended;  *)
(*   twice   LaunchOneMoreSection took a section that had, or was being    *)
(*           given, a thread.                                              *)
(* A section with two threads is not modelled: behaviours end at the last  *)
(* two.                                                                    *)
(***************************************************************************)
EXTENDS Integers, FiniteSets

CONSTANTS
  FileSize,      \* m_uSSFileSize
  MaxSections,   \* bound: length of m_vSections
  MinSize,       \* m_uSectionMinSize
  SplitFloor,    \* the 100*1024 of CreateAdditionalSection
  MaxRead,       \* bound: bytes one InternetReadFile returns
  CacheSize,     \* bound: bytes of one section's write cache
  RollBack,      \* wRollBackSize
  SpeedAhead,    \* bound: 20 * uSpeed, bytes a section is expected to advance
  MaxAttempts,   \* m_uMaxAttempts
  MaxFaults,     \* bound: read and write failures, refused files
  MaxStarts,     \* bound: calls of StartDownloading
  Owner, Tail, None

SectId == 1..MaxSections
Actor  == SectId \cup {Owner, Tail}

ASSUME SizesAssumption ==
  /\ FileSize \in Nat \ {0} /\ MaxSections \in Nat \ {0}
  /\ MinSize \in Nat \ {0} /\ SplitFloor \in Nat /\ MaxRead \in Nat \ {0}
  /\ CacheSize \in Nat /\ RollBack \in Nat /\ SpeedAhead \in Nat
  /\ MaxAttempts \in Nat /\ MaxFaults \in Nat /\ MaxStarts \in Nat

ASSUME ActorsAssumption ==
  /\ Owner \notin SectId /\ Tail \notin SectId /\ None \notin SectId
  /\ Owner # Tail /\ Owner # None /\ Tail # None

VARIABLES
  n,           \* m_vSections.size ()
  uStart, uEnd, uCurrent, dwCacheLen, state,  \* the fields of each section
  buf,         \* bytes in the section thread's hands: read, or just written
  cAttempts,   \* reconnection attempts the section thread has left
  pc,          \* where each actor is; a section without a thread is at "none"
  tail,        \* the section and the reason of the thread inside m_csDone
  add,         \* the locals of CreateAdditionalSection: protected by csAdd
  csAdd,       \* the holder of m_csAddSection
  bAdding,     \* m_bAddingSection
  bNoNew,      \* m_bNoNewSections
  bNeedStop,   \* m_bNeedStop
  bErr,        \* m_bErrDownloading
  noRanges,    \* m_enRST = RST_NONE
  cCreating,   \* m_cBaseSectCreatingNow
  cRunning,    \* m_cRunningThreads
  old,         \* the value of it an actor has read and is about to update
  odd,         \* history: what went wrong between threads, see above
  iStart,      \* the loop index of StartDownloading and LaunchOneMoreSection
  bOneStarted, \* StartDownloading's bAtLeast1Started
  written,     \* the bytes of the file that are on disk
  refused,     \* history: DE_NEEDFILE refusals inside StartDownloading
  faults, starts  \* counters of the bounds

fields  == <<uStart, uEnd, uCurrent, dwCacheLen>>
listV   == <<n, uStart, uEnd>>
addV    == <<add, csAdd, bAdding>>
flags   == <<bNoNew, bNeedStop, bErr, noRanges>>
runV    == <<cRunning, old, odd>>
counts  == <<cCreating, runV>>
startV  == <<iStart, bOneStarted, refused, starts>>
threadV == <<buf, cAttempts>>
vars == <<fields, state, n, threadV, pc, tail, addV, flags, counts, startV,
          written, faults>>
-----------------------------------------------------------------------------
SectionState == {"CREATING", "DOWNLOADING", "ERROR", "RECONNECTING",
                 "STOPPED", "ERRSTOPPED", "WRITEERROR", "DONE"}

AddPC    == {"add_lock", "add_choose", "add_point", "add_open", "add_recheck",
             "add_shrink", "add_insert", "add_start", "add_launch",
             "add_fixup"}
SectPC   == {"none", "begin", "begin_nofile", "downloading", "loop",
             "loop_nofile", "flush", "advance", "error", "seterr", "reopen",
             "last_advance", "finish", "exit", "exit_advance", "leave",
             "count_out"}
OwnerPC  == {"idle", "main", "main_open", "main_start", "main_launch",
             "start_loop", "start_open", "start_launch", "start_count",
             "start_clear", "one_launch"}
TailPC   == {"none", "tail_event", "tail_end"}
Launched == {"begin", "begin_nofile"}

NoAdd  == [target |-> 1, max |-> 0, corr |-> 0, split |-> 0, end |-> 0]
NoTail == [sect |-> 1, kind |-> "DONE"]

Lesser(a, b) == IF a < b THEN a ELSE b

\* CURRENT_DL_POS: the next byte the section's thread reads.
Pos(s) == uCurrent[s] + dwCacheLen[s]

\* CHECK_NEED_STOP (the owner's StopSection is not modelled).
NeedStop(s) == bNeedStop

IsDone    == n # 0 /\ \A s \in 1..n : state[s] = "DONE"
IsRunning == cRunning # 0      \* > 0, and -1 is UINT_MAX
IsAllSectionsOk == \A s \in 1..n : state[s] \in {"DOWNLOADING", "DONE"}

Init ==
  /\ n = 0
  /\ uStart = [s \in SectId |-> 0] /\ uEnd = [s \in SectId |-> 0]
  /\ uCurrent = [s \in SectId |-> 0] /\ dwCacheLen = [s \in SectId |-> 0]
  /\ state = [s \in SectId |-> "STOPPED"]
  /\ buf = [s \in SectId |-> 0] /\ cAttempts = [s \in SectId |-> 0]
  /\ pc = [a \in Actor |-> IF a = Owner THEN "idle" ELSE "none"]
  /\ tail = NoTail /\ add = NoAdd /\ csAdd = None /\ bAdding = FALSE
  /\ bNoNew = FALSE /\ bNeedStop = FALSE /\ bErr = FALSE /\ noRanges = FALSE
  /\ cCreating = 0 /\ cRunning = 0 /\ old = [a \in Actor |-> 0] /\ odd = {}
  /\ iStart = 1 /\ bOneStarted = FALSE /\ refused = 0 /\ starts = 0
  /\ written = {} /\ faults = 0
-----------------------------------------------------------------------------
(* The section thread: _threadDownload and __threadDownload_flushdata.     *)

Goto(a, l) == pc' = [pc EXCEPT ![a] = l]

\* An exit of _threadDownload: the state it leaves with, then label _exit.
Quit(s, st) == state' = [state EXCEPT ![s] = st] /\ Goto(s, "exit")

Fault == faults < MaxFaults /\ faults' = faults + 1

ThreadBegin(s) ==
  /\ pc[s] = "begin"
  /\ dwCacheLen' = [dwCacheLen EXCEPT ![s] = 0]
  /\ IF NeedStop(s) THEN Quit(s, "STOPPED")
     ELSE /\ state' = [state EXCEPT ![s] = "DOWNLOADING"]
          /\ Goto(s, "downloading")
  /\ UNCHANGED <<listV, uCurrent, threadV, tail, addV, flags, counts, startV,
                 written, faults>>

\* The thread LaunchOneMoreSection starts has no sect->file yet: it raises no
\* DE_SECTDOWNLOADING and has nothing to read from.
ThreadBeginNoFile(s) ==
  /\ pc[s] = "begin_nofile"
  /\ dwCacheLen' = [dwCacheLen EXCEPT ![s] = 0]
  /\ IF NeedStop(s) THEN Quit(s, "STOPPED")
     ELSE Goto(s, "loop_nofile") /\ UNCHANGED state
  /\ UNCHANGED <<listV, uCurrent, threadV, tail, addV, flags, counts, startV,
                 written, faults>>

\* It goes straight to the reconnection, without a roll back.
NoFileError(s) ==
  /\ pc[s] = "loop_nofile" /\ uEnd[s] > Pos(s)
  /\ IF NeedStop(s) THEN Quit(s, "STOPPED")
     ELSE state' = [state EXCEPT ![s] = "ERROR"] /\ Goto(s, "error")
  /\ UNCHANGED <<fields, n, threadV, tail, addV, flags, counts, startV,
                 written, faults>>

\* The owner declines to add a section on DE_SECTDOWNLOADING.
SectDownloadingReturn(s) ==
  /\ pc[s] = "downloading" /\ Goto(s, "loop")
  /\ UNCHANGED <<fields, state, n, threadV, tail, addV, flags, counts, startV,
                 written, faults>>

\* Mutation of StopInLoop: the section keeps its state.
StopInLoopSilently(s) ==
  /\ pc[s] = "loop" /\ uEnd[s] > Pos(s) /\ NeedStop(s)
  /\ Goto(s, "exit")
  /\ UNCHANGED <<fields, state, n, threadV, tail, addV, flags, counts, startV,
                 written, faults>>

StopInLoop(s) ==
  /\ pc[s] = "loop" /\ uEnd[s] > Pos(s) /\ NeedStop(s)
  /\ Quit(s, "STOPPED")
  /\ UNCHANGED <<fields, n, threadV, tail, addV, flags, counts, startV,
                 written, faults>>

\* Read returns k of the bytes the section still wants.
Read(s) ==
  /\ pc[s] = "loop" /\ uEnd[s] > Pos(s) /\ ~NeedStop(s)
  /\ \E k \in 1..Lesser(MaxRead, uEnd[s] - Pos(s)) : buf' = [buf EXCEPT ![s] = k]
  /\ Goto(s, "flush")
  /\ UNCHANGED <<fields, state, n, cAttempts, tail, addV, flags, counts,
                 startV, written, faults>>

\* Mutation of ReadError: the roll back is not limited to the section.
ReadErrorUnlimited(s) ==
  /\ pc[s] = "loop" /\ uEnd[s] > Pos(s) /\ Fault
  /\ \E dw \in 0..RollBack :
       LET inCache == Lesser(dw, dwCacheLen[s])
       IN  /\ dwCacheLen' = [dwCacheLen EXCEPT ![s] = @ - inCache]
           /\ uCurrent' = [uCurrent EXCEPT ![s] = @ - (dw - inCache)]
  /\ IF NeedStop(s) THEN Quit(s, "STOPPED")
     ELSE state' = [state EXCEPT ![s] = "ERROR"] /\ Goto(s, "error")
  /\ UNCHANGED <<listV, threadV, tail, addV, flags, counts, startV, written>>

\* A failed read takes back up to wRollBackSize bytes, first from the cache.
\* Fewer when the (WORD) cast truncates the distance to uStart, none when the
\* file had been closed because the section was too slow.
ReadError(s) ==
  /\ pc[s] = "loop" /\ uEnd[s] > Pos(s) /\ Fault
  /\ \E dw \in 0..Lesser(RollBack, Pos(s) - uStart[s]) :
       LET inCache == Lesser(dw, dwCacheLen[s])
       IN  /\ dwCacheLen' = [dwCacheLen EXCEPT ![s] = @ - inCache]
           /\ uCurrent' = [uCurrent EXCEPT ![s] = @ - (dw - inCache)]
  /\ IF NeedStop(s) THEN Quit(s, "STOPPED")
     ELSE state' = [state EXCEPT ![s] = "ERROR"] /\ Goto(s, "error")
  /\ UNCHANGED <<listV, threadV, tail, addV, flags, counts, startV, written>>

\* Empty reads for more than a minute.
ReadStalled(s) ==
  /\ pc[s] = "loop" /\ uEnd[s] > Pos(s) /\ ~NeedStop(s) /\ Fault
  /\ Quit(s, "ERRSTOPPED")
  /\ UNCHANGED <<fields, n, threadV, tail, addV, flags, counts, startV, written>>

\* Waits for the other section's reconnection; m_bErrDownloading is tested
\* here and set in the next step.
AwaitOtherError(s) ==
  /\ pc[s] = "error"
  /\ \/ NeedStop(s) /\ Quit(s, "STOPPED")
     \/ ~bErr /\ Goto(s, "seterr") /\ UNCHANGED state
  /\ UNCHANGED <<fields, n, threadV, tail, addV, flags, counts, startV,
                 written, faults>>

SetError(s) ==
  /\ pc[s] = "seterr"
  /\ IF NeedStop(s)
     THEN Quit(s, "STOPPED") /\ UNCHANGED <<bErr, cAttempts>>
     ELSE /\ state' = [state EXCEPT ![s] = "RECONNECTING"]
          /\ bErr' = TRUE
          /\ cAttempts' = [cAttempts EXCEPT ![s] = MaxAttempts]
          /\ Goto(s, "reopen")
  /\ UNCHANGED <<fields, n, buf, tail, addV, bNoNew, bNeedStop, noRanges,
                 counts, startV, written, faults>>

\* Mutation of ReopenGiveUp: m_bErrDownloading stays set.
ReopenGiveUpHolding(s) ==
  /\ pc[s] = "reopen"
  /\ cAttempts[s] = 0 \/ NeedStop(s)
  /\ Quit(s, IF NeedStop(s) THEN "STOPPED" ELSE "ERRSTOPPED")
  /\ UNCHANGED <<fields, n, threadV, tail, addV, flags, counts, startV,
                 written, faults>>

\* The reconnection loop gives up.
ReopenGiveUp(s) ==
  /\ pc[s] = "reopen"
  /\ cAttempts[s] = 0 \/ NeedStop(s)
  /\ Quit(s, IF NeedStop(s) THEN "STOPPED" ELSE "ERRSTOPPED")
  /\ bErr' = FALSE
  /\ UNCHANGED <<fields, n, threadV, tail, addV, bNoNew, bNeedStop, noRanges,
                 counts, startV, written, faults>>

ReopenFails(s) ==
  /\ pc[s] = "reopen" /\ cAttempts[s] > 0
  /\ cAttempts' = [cAttempts EXCEPT ![s] = @ - 1]
  /\ UNCHANGED <<fields, state, n, buf, pc, tail, addV, flags, counts, startV,
                 written, faults>>

\* The server no longer resumes from the middle of the file.
ReopenNoRanges(s) ==
  /\ pc[s] = "reopen" /\ cAttempts[s] > 0 /\ ~NeedStop(s) /\ Pos(s) > 0
  /\ noRanges' = TRUE /\ bErr' = FALSE
  /\ Quit(s, "ERRSTOPPED")
  /\ UNCHANGED <<fields, n, threadV, tail, addV, bNoNew, bNeedStop, counts,
                 startV, written, faults>>

Reopened(s) ==
  /\ pc[s] = "reopen" /\ cAttempts[s] > 0 /\ ~NeedStop(s)
  /\ bErr' = FALSE
  /\ state' = [state EXCEPT ![s] = "DOWNLOADING"]
  /\ Goto(s, "downloading")
  /\ UNCHANGED <<fields, n, threadV, tail, addV, bNoNew, bNeedStop, noRanges,
                 counts, startV, written, faults>>

\* flushdata, no room wanted on disk: the bytes read join the cache.
FlushToCache(s) ==
  /\ pc[s] = "flush" /\ dwCacheLen[s] + buf[s] <= CacheSize
  /\ dwCacheLen' = [dwCacheLen EXCEPT ![s] = @ + buf[s]]
  /\ buf' = [buf EXCEPT ![s] = 0]
  /\ Goto(s, "loop")
  /\ UNCHANGED <<listV, uCurrent, state, cAttempts, tail, addV, flags, counts,
                 startV, written, faults>>

\* flushdata writes the cache and the bytes read, and empties the cache ...
WriteOut(s, next) ==
  /\ written' = written \cup (uCurrent[s]..(Pos(s) + buf[s] - 1))
  /\ buf' = [buf EXCEPT ![s] = dwCacheLen[s] + @]
  /\ dwCacheLen' = [dwCacheLen EXCEPT ![s] = 0]
  /\ Goto(s, next)
  /\ UNCHANGED <<listV, uCurrent, state, cAttempts, tail, addV, flags, counts,
                 startV, faults>>

FlushToDisk(s) == pc[s] = "flush" /\ WriteOut(s, "advance")

\* ... and only then, under m_csSections, advances uCurrent.
Advance(s) ==
  /\ pc[s] \in {"advance", "last_advance", "exit_advance"}
  /\ uCurrent' = [uCurrent EXCEPT ![s] = @ + buf[s]]
  /\ buf' = [buf EXCEPT ![s] = 0]
  /\ Goto(s, CASE pc[s] = "advance" -> "loop"
               [] pc[s] = "last_advance" -> "finish"
               [] OTHER -> "leave")
  /\ UNCHANGED <<listV, dwCacheLen, state, cAttempts, tail, addV, flags,
                 counts, startV, written, faults>>

\* Mutation of LoopEnds: the cache is left to the exit.
LoopEndsCached(s) ==
  /\ pc[s] = "loop" /\ uEnd[s] <= Pos(s) /\ Goto(s, "finish")
  /\ UNCHANGED <<fields, state, n, threadV, tail, addV, flags, counts, startV,
                 written, faults>>

\* The loop is over: flush what is cached.
LoopEnds(s) ==
  /\ pc[s] \in {"loop", "loop_nofile"} /\ uEnd[s] <= Pos(s)
  /\ \/ dwCacheLen[s] > 0 /\ WriteOut(s, "last_advance")
     \/ /\ dwCacheLen[s] = 0 /\ Goto(s, "finish")
        /\ UNCHANGED <<fields, state, n, threadV, tail, addV, flags, counts,
                       startV, written, faults>>

\* Mutation of WriteError: the failure is ignored.
WriteErrorIgnored(s) ==
  /\ pc[s] = "flush" /\ Fault /\ Goto(s, "advance")
  /\ UNCHANGED <<fields, state, n, threadV, tail, addV, flags, counts, startV,
                 written>>

\* A write fails, in the loop or after it.
WriteError(s) ==
  /\ \/ pc[s] = "flush"
     \/ pc[s] = "loop" /\ uEnd[s] <= Pos(s) /\ dwCacheLen[s] > 0
  /\ Fault
  /\ buf' = [buf EXCEPT ![s] = 0]
  /\ Quit(s, IF NeedStop(s) THEN "STOPPED" ELSE "WRITEERROR")
  /\ UNCHANGED <<fields, n, cAttempts, tail, addV, flags, counts, startV, written>>

\* The section is complete; uEnd may have been cut since the loop ended.
Finish(s) ==
  /\ pc[s] = "finish"
  /\ uCurrent' = [uCurrent EXCEPT ![s] = uEnd[s]]
  /\ Quit(s, "DONE")
  /\ UNCHANGED <<listV, dwCacheLen, threadV, tail, addV, flags, counts,
                 startV, written, faults>>

\* Label _exit: what is still cached is written, and a failure is ignored.
ExitFlush(s) ==
  /\ pc[s] = "exit"
  /\ \/ dwCacheLen[s] > 0 /\ WriteOut(s, "exit_advance")
     \/ dwCacheLen[s] > 0 /\ Fault /\ Goto(s, "leave")
        /\ UNCHANGED <<fields, state, n, threadV, tail, addV, flags, counts,
                       startV, written>>
     \/ dwCacheLen[s] = 0 /\ Goto(s, "leave")
        /\ UNCHANGED <<fields, state, n, threadV, tail, addV, flags, counts,
                       startV, written, faults>>

\* m_cRunningThreads++ and -- are a read and, later, a store.
LoadRunning(a) == old' = [old EXCEPT ![a] = cRunning]

StoreRunning(a, d) ==
  /\ cRunning' = old[a] + d /\ old' = [old EXCEPT ![a] = 0]
  /\ odd' = odd \cup {o \in {"lost"} : old[a] # cRunning}

\* The thread enters m_csDone, and takes itself off the count.
Leave(s) ==
  /\ pc[s] = "leave"
  /\ pc[Tail] = "none" /\ \A t \in SectId : pc[t] # "count_out"
  /\ LoadRunning(s) /\ Goto(s, "count_out")
  /\ UNCHANGED <<fields, state, n, threadV, tail, addV, flags, cCreating,
                 cRunning, odd, startV, written, faults>>

\* From here on it is Tail.
CountOut(s) ==
  /\ pc[s] = "count_out" /\ StoreRunning(s, -1)
  /\ tail' = [sect |-> s, kind |-> state[s]]
  /\ pc' = [pc EXCEPT ![s] = "none", ![Tail] = "tail_event"]
  /\ UNCHANGED <<fields, state, n, threadV, addV, flags, cCreating, startV,
                 written, faults>>

\* The owner's handler of DE_SECTIONDONE or DE_SECTIONSTOPPED returns.
TailReturn ==
  /\ pc[Tail] = "tail_event" /\ Goto(Tail, "tail_end")
  /\ UNCHANGED <<fields, state, n, threadV, tail, addV, flags, counts, startV,
                 written, faults>>

\* Mutation of TailEnd: every section that ended is marked stopped.
TailEndAlways ==
  /\ pc[Tail] = "tail_end" /\ Goto(Tail, "none")
  /\ state' = [state EXCEPT ![tail.sect] = "STOPPED"]
  /\ tail' = NoTail
  /\ UNCHANGED <<fields, n, threadV, addV, flags, counts, startV, written, faults>>

\* Only after the event is a stopped section marked so; m_csDone is released.
TailEnd ==
  /\ pc[Tail] = "tail_end" /\ Goto(Tail, "none")
  /\ state' = IF tail.kind = "DONE" THEN state
              ELSE [state EXCEPT ![tail.sect] = "STOPPED"]
  /\ tail' = NoTail
  /\ UNCHANGED <<fields, n, threadV, addV, flags, counts, startV, written, faults>>
-----------------------------------------------------------------------------
(* CreateAdditionalSection, executed by actor a.                           *)

\* Where a continues when AddSection returns.
After(a) == IF a = Owner THEN "idle" ELSE IF a = Tail THEN "tail_end" ELSE "loop"

\* The owner's handlers that call AddSection.
MayCallAddSection(a) ==
  \/ a \in SectId /\ pc[a] = "downloading"
  \/ a = Owner /\ pc[a] = "idle"
  \/ /\ a = Tail /\ pc[a] = "tail_event" /\ tail.kind = "DONE"
     /\ IsAllSectionsOk /\ ~(IsDone /\ ~IsRunning)

\* The tests before the lock.  m_bAddingSection is tested and set without it, so
\* several callers may pass.
AddSection(a) ==
  /\ MayCallAddSection(a)
  /\ n > 0 /\ ~bErr /\ ~bNoNew /\ ~bAdding /\ ~noRanges
  /\ Goto(a, "add_lock")
  /\ UNCHANGED <<fields, state, n, threadV, tail, addV, flags, counts, startV,
                 written, faults>>

\* By now this caller has set m_bAddingSection, but another one that has passed
\* the test too may have reset it when it returned.
AddLock(a) ==
  /\ pc[a] = "add_lock" /\ csAdd = None
  /\ csAdd' = a /\ bAdding' \in BOOLEAN /\ Goto(a, "add_choose")
  /\ UNCHANGED <<fields, state, n, threadV, tail, add, flags, counts, startV,
                 written, faults>>

AddReturn(a) ==
  /\ add' = NoAdd /\ csAdd' = None /\ bAdding' = FALSE /\ Goto(a, After(a))

\* A return after m_cBaseSectCreatingNow was incremented.
AddAbort(a) ==
  /\ AddReturn(a) /\ cCreating' = cCreating - 1
  /\ UNCHANGED <<fields, state, n, threadV, tail, flags, runV, startV,
                 written, faults>>

\* Mutation of AddRefused: the return keeps m_csAddSection.
AddRefusedLocked(a) ==
  /\ pc[a] = "add_choose" /\ add' = NoAdd /\ bAdding' = FALSE /\ Goto(a, After(a))
  /\ UNCHANGED <<fields, state, n, threadV, tail, csAdd, flags, counts, startV,
                 written, faults>>

\* DE_QUERYNEWSECTION is refused.
AddRefused(a) ==
  /\ pc[a] = "add_choose" /\ AddReturn(a)
  /\ UNCHANGED <<fields, state, n, threadV, tail, flags, counts, startV,
                 written, faults>>

\* The bytes of s a new section could share: what its thread is expected to
\* read meanwhile (ahead) is left to it.
Remaining(s, ahead) == uEnd[s] - (Pos(s) + ahead)

\* How far each section is expected to read ahead: 20 * uSpeed.
Aheads == {f \in [1..n -> 0..SpeedAhead] :
             \A s \in 1..n : state[s] # "DOWNLOADING" => f[s] = 0}

\* s is the first section with the most bytes remaining, and has enough.
Chosen(s, ahead) ==
  /\ s \in 1..n /\ state[s] # "DONE"
  /\ Remaining(s, ahead[s]) > 0
  /\ \A t \in 1..n : state[t] # "DONE" =>
       \/ Remaining(s, ahead[s]) > Remaining(t, ahead[t])
       \/ Remaining(s, ahead[s]) = Remaining(t, ahead[t]) /\ s <= t
  /\ Remaining(s, ahead[s]) \div 2 >= MinSize
  /\ Remaining(s, ahead[s]) >= SplitFloor

AddChoose(a) ==
  /\ pc[a] = "add_choose" /\ n < MaxSections
  /\ \E ahead \in Aheads : \E s \in 1..n :
       /\ Chosen(s, ahead)
       /\ add' = [NoAdd EXCEPT !.target = s, !.max = Remaining(s, ahead[s]),
                               !.corr = dwCacheLen[s] + ahead[s]]
  /\ cCreating' = cCreating + 1
  /\ Goto(a, "add_point")
  /\ UNCHANGED <<fields, state, n, threadV, tail, csAdd, bAdding, flags, runV,
                 startV, written, faults>>

AddNoCandidate(a) ==
  /\ pc[a] = "add_choose" /\ n < MaxSections
  /\ \E ahead \in Aheads : \A s \in 1..n : ~Chosen(s, ahead)
  /\ AddReturn(a)
  /\ UNCHANGED <<fields, state, n, threadV, tail, flags, counts, startV,
                 written, faults>>

\* The point of the cut, from what the target's uCurrent is by now.
SplitPoint == uCurrent[add.target] + add.corr + add.max \div 2

\* Mutation of AddPoint: the size of the part cut off is not tested.
AddPointUntested(a) ==
  /\ pc[a] = "add_point"
  /\ add' = [add EXCEPT !.split = SplitPoint, !.end = uEnd[add.target]]
  /\ Goto(a, "add_open")
  /\ UNCHANGED <<fields, state, n, threadV, tail, csAdd, bAdding, flags,
                 counts, startV, written, faults>>

AddPoint(a) ==
  /\ pc[a] = "add_point"
  /\ SplitPoint < uEnd[add.target] /\ uEnd[add.target] - SplitPoint >= MinSize
  /\ add' = [add EXCEPT !.split = SplitPoint, !.end = uEnd[add.target]]
  /\ Goto(a, "add_open")
  /\ UNCHANGED <<fields, state, n, threadV, tail, csAdd, bAdding, flags,
                 counts, startV, written, faults>>

\* Mutation of AddTooSmall: m_cBaseSectCreatingNow is not given back.
AddTooSmallUncounted(a) ==
  /\ pc[a] = "add_point"
  /\ SplitPoint >= uEnd[add.target] \/ uEnd[add.target] - SplitPoint < MinSize
  /\ AddReturn(a)
  /\ UNCHANGED <<fields, state, n, threadV, tail, flags, counts, startV,
                 written, faults>>

AddTooSmall(a) ==
  /\ pc[a] = "add_point"
  /\ SplitPoint >= uEnd[add.target] \/ uEnd[add.target] - SplitPoint < MinSize
  /\ AddAbort(a)

AddOpen(a) ==
  /\ pc[a] = "add_open" /\ ~bNeedStop /\ Goto(a, "add_recheck")
  /\ UNCHANGED <<fields, state, n, threadV, tail, addV, flags, counts, startV,
                 written, faults>>

AddOpenFails(a) == pc[a] = "add_open" /\ AddAbort(a)

AddOpenNoRanges(a) ==
  /\ pc[a] = "add_open" /\ ~bNeedStop
  /\ noRanges' = TRUE
  /\ AddReturn(a) /\ cCreating' = cCreating - 1
  /\ UNCHANGED <<fields, state, n, threadV, tail, bNoNew, bNeedStop, bErr,
                 runV, startV, written, faults>>

\* Without a lock: is the part cut off still untouched?
Untouched == ~IsDone /\ Pos(add.target) < add.split

AddRecheck(a) ==
  /\ pc[a] = "add_recheck" /\ Untouched /\ Goto(a, "add_shrink")
  /\ UNCHANGED <<fields, state, n, threadV, tail, addV, flags, counts, startV,
                 written, faults>>

AddTooLate(a) == pc[a] = "add_recheck" /\ ~Untouched /\ AddAbort(a)

AddShrink(a) ==
  /\ pc[a] = "add_shrink"
  /\ uEnd' = [uEnd EXCEPT ![add.target] = add.split]
  /\ Goto(a, "add_insert")
  /\ UNCHANGED <<uStart, uCurrent, dwCacheLen, state, n, threadV, tail, addV,
                 flags, counts, startV, written, faults>>

\* CreateSection appends section n + 1 ...
Append(start, end) ==
  /\ n' = n + 1
  /\ uStart' = [uStart EXCEPT ![n + 1] = start]
  /\ uCurrent' = [uCurrent EXCEPT ![n + 1] = start]
  /\ uEnd' = [uEnd EXCEPT ![n + 1] = end]
  /\ dwCacheLen' = [dwCacheLen EXCEPT ![n + 1] = 0]
  /\ state' = [state EXCEPT ![n + 1] = "CREATING"]

\* ... and launches the thread of the last section: first it reads the count,
CountLast(a, next) ==
  /\ cCreating' = cCreating - 1 /\ LoadRunning(a) /\ Goto(a, next)

\* then it stores it, and the thread runs.
LaunchLast(a, next) ==
  /\ StoreRunning(a, 1) /\ pc' = [pc EXCEPT ![n] = "begin", ![a] = next]

\* Mutation of AddInsert: the end is read after the target has been cut.
AddInsertLate(a) ==
  /\ pc[a] = "add_insert" /\ Append(add.split, uEnd[add.target])
  /\ Goto(a, "add_start")
  /\ UNCHANGED <<threadV, tail, addV, flags, counts, startV, written, faults>>

AddInsert(a) ==
  /\ pc[a] = "add_insert" /\ Append(add.split, add.end) /\ Goto(a, "add_start")
  /\ UNCHANGED <<threadV, tail, addV, flags, counts, startV, written, faults>>

AddStart(a) ==
  /\ pc[a] = "add_start" /\ CountLast(a, "add_launch")
  /\ UNCHANGED <<fields, state, n, threadV, tail, addV, flags, cRunning, odd,
                 startV, written, faults>>

\* Mutation of AddLaunch: the new thread is not counted.
AddLaunchUncounted(a) ==
  /\ pc[a] = "add_launch" /\ StoreRunning(a, 0)
  /\ pc' = [pc EXCEPT ![n] = "begin", ![a] = "add_fixup"]
  /\ UNCHANGED <<fields, state, n, threadV, tail, addV, flags, cCreating,
                 startV, written, faults>>

AddLaunch(a) ==
  /\ pc[a] = "add_launch" /\ LaunchLast(a, "add_fixup")
  /\ UNCHANGED <<fields, state, n, threadV, tail, addV, flags, cCreating,
                 startV, written, faults>>

\* Mutation of AddFixup: the target keeps what it holds in its cache as well.
AddFixupCached(a) ==
  /\ pc[a] = "add_fixup"
  /\ uEnd' = [uEnd EXCEPT ![add.target] =
                IF @ < Pos(add.target) THEN Pos(add.target) ELSE @]
  /\ AddReturn(a)
  /\ UNCHANGED <<uStart, uCurrent, dwCacheLen, state, n, threadV, tail, flags,
                 counts, startV, written, faults>>

\* The target has already read beyond the cut.
AddFixup(a) ==
  /\ pc[a] = "add_fixup"
  /\ uEnd' = [uEnd EXCEPT ![add.target] =
                IF @ < uCurrent[add.target] THEN uCurrent[add.target] ELSE @]
  /\ AddReturn(a)
  /\ UNCHANGED <<uStart, uCurrent, dwCacheLen, state, n, threadV, tail, flags,
                 counts, startV, written, faults>>
-----------------------------------------------------------------------------
(* CreateMainSection, StartDownloading and StopDownloading.                *)

StopDownloading ==
  /\ ~bNeedStop /\ bNeedStop' = TRUE
  /\ UNCHANGED <<fields, state, n, threadV, pc, tail, addV, bNoNew, bErr,
                 noRanges, counts, startV, written, faults>>

\* StartDownloading of an empty list, by the owner or by the restart below.
MainBegin ==
  /\ n = 0 /\ csAdd = None
  /\ \/ pc[Owner] = "idle" /\ starts < MaxStarts /\ starts' = starts + 1
     \/ pc[Owner] = "main" /\ UNCHANGED starts
  /\ bNoNew' = FALSE /\ bNeedStop' = FALSE
  /\ cCreating' = cCreating + 1 /\ csAdd' = Owner
  /\ Goto(Owner, "main_open")
  /\ UNCHANGED <<fields, state, n, threadV, tail, add, bAdding, bErr, noRanges,
                 runV, iStart, bOneStarted, refused, written, faults>>

\* DE_QUERYNEWSECTION is refused.
MainRefused ==
  /\ n = 0 /\ pc[Owner] = "main"
  /\ bNoNew' = FALSE /\ bNeedStop' = FALSE /\ Goto(Owner, "idle")
  /\ UNCHANGED <<fields, state, n, threadV, tail, addV, bErr, noRanges, counts,
                 startV, written, faults>>

MainOpened ==
  /\ pc[Owner] = "main_open" /\ ~bNeedStop
  /\ Append(0, FileSize) /\ Goto(Owner, "main_start")
  /\ UNCHANGED <<threadV, tail, addV, flags, counts, startV, written, faults>>

\* OpenUrl fails or DE_NEEDFILE is refused.
MainFails ==
  /\ pc[Owner] = "main_open"
  /\ cCreating' = cCreating - 1 /\ csAdd' = None /\ Goto(Owner, "idle")
  /\ UNCHANGED <<fields, state, n, threadV, tail, add, bAdding, flags, runV,
                 startV, written, faults>>

MainStart ==
  /\ pc[Owner] = "main_start" /\ CountLast(Owner, "main_launch")
  /\ UNCHANGED <<fields, state, n, threadV, tail, addV, flags, cRunning, odd,
                 startV, written, faults>>

MainLaunch ==
  /\ pc[Owner] = "main_launch" /\ csAdd' = None /\ LaunchLast(Owner, "idle")
  /\ UNCHANGED <<fields, state, n, threadV, tail, add, bAdding, flags,
                 cCreating, startV, written, faults>>

\* DE_NEEDFILE_FINALINITIALIZATION is refused: the section stays in the list.
MainNotInitialized ==
  /\ pc[Owner] = "main_start" /\ Fault
  /\ cCreating' = cCreating - 1 /\ csAdd' = None /\ Goto(Owner, "idle")
  /\ UNCHANGED <<fields, state, n, threadV, tail, add, bAdding, flags, runV,
                 startV, written>>

\* Mutation of StartBegin: running threads are not looked for.
StartBeginRunning ==
  /\ pc[Owner] = "idle" /\ n > 0 /\ ~IsDone
  /\ starts < MaxStarts /\ starts' = starts + 1
  /\ bNeedStop' = FALSE /\ bNoNew' = TRUE
  /\ iStart' = 1 /\ bOneStarted' = FALSE
  /\ Goto(Owner, "start_loop")
  /\ UNCHANGED <<fields, state, n, threadV, tail, addV, bErr, noRanges, counts,
                 refused, written, faults>>

\* A thread of the last run, or one about to give it another section.
Live == {s \in SectId : pc[s] # "none"}
Busy == Live # {} \/ \E a \in Actor : pc[a] \in AddPC

StartBegin ==
  /\ pc[Owner] = "idle" /\ n > 0 /\ ~IsRunning /\ ~IsDone
  /\ starts < MaxStarts /\ starts' = starts + 1
  /\ bNeedStop' = FALSE /\ bNoNew' = TRUE
  /\ iStart' = 1 /\ bOneStarted' = FALSE
  /\ odd' = odd \cup {o \in {"blind"} : Busy}
  /\ Goto(Owner, "start_loop")
  /\ UNCHANGED <<fields, state, n, threadV, tail, addV, bErr, noRanges,
                 cCreating, cRunning, old, refused, written, faults>>

\* A complete section, or one DE_QUERYNEWSECTION refuses to start.
StartSkip ==
  /\ pc[Owner] = "start_loop" /\ iStart <= n /\ ~bNeedStop
  /\ iStart' = iStart + 1
  /\ UNCHANGED <<fields, state, n, threadV, pc, tail, addV, flags, counts,
                 bOneStarted, refused, starts, written, faults>>

\* Mutation of StartSection: complete sections are started too.
StartSectionDone ==
  /\ pc[Owner] = "start_loop" /\ iStart <= n /\ ~bNeedStop
  /\ cCreating' = cCreating + 1 /\ Goto(Owner, "start_open")
  /\ UNCHANGED <<fields, state, n, threadV, tail, addV, flags, runV, startV,
                 written, faults>>

StartSection ==
  /\ pc[Owner] = "start_loop" /\ iStart <= n /\ ~bNeedStop
  /\ state[iStart] # "DONE"
  /\ cCreating' = cCreating + 1 /\ Goto(Owner, "start_open")
  /\ UNCHANGED <<fields, state, n, threadV, tail, addV, flags, runV, startV,
                 written, faults>>

StartOpened ==
  /\ pc[Owner] = "start_open" /\ ~bNeedStop
  /\ bOneStarted' = TRUE /\ Goto(Owner, "start_launch")
  /\ UNCHANGED <<fields, state, n, threadV, tail, addV, flags, counts, iStart,
                 refused, starts, written, faults>>

\* DE_NEEDFILE is refused: the return leaves m_cBaseSectCreatingNow as it is.
StartNoFile ==
  /\ pc[Owner] = "start_open" /\ ~bNeedStop /\ Fault
  /\ bOneStarted' = TRUE /\ refused' = refused + 1 /\ Goto(Owner, "idle")
  /\ UNCHANGED <<fields, state, n, threadV, tail, addV, flags, counts, iStart,
                 starts, written>>

\* OpenUrl fails: the next section is tried if one has started, else return.
StartOpenFails ==
  /\ pc[Owner] = "start_open" /\ cCreating' = cCreating - 1
  /\ IF bOneStarted THEN iStart' = iStart + 1 /\ Goto(Owner, "start_loop")
                    ELSE UNCHANGED iStart /\ Goto(Owner, "idle")
  /\ UNCHANGED <<fields, state, n, threadV, tail, addV, flags, runV,
                 bOneStarted, refused, starts, written, faults>>

\* The first open says the server does not resume: return, or start afresh.
StartNoRanges ==
  /\ pc[Owner] = "start_open" /\ ~bNeedStop /\ uCurrent[iStart] > 0
  /\ ~bOneStarted /\ noRanges' = TRUE
  /\ \/ /\ cCreating' = cCreating - 1 /\ Goto(Owner, "idle")
        /\ UNCHANGED bNeedStop
     \/ /\ bNeedStop' = TRUE /\ Goto(Owner, "start_clear")
        /\ UNCHANGED cCreating
  /\ UNCHANGED <<fields, state, n, threadV, tail, addV, bNoNew, bErr, runV,
                 startV, written, faults>>

StartClear ==
  /\ pc[Owner] = "start_clear" /\ ~IsRunning
  /\ n' = 0 /\ cCreating' = cCreating - 1 /\ Goto(Owner, "main")
  /\ UNCHANGED <<fields, state, threadV, tail, addV, flags, runV, startV,
                 written, faults>>

StartLaunch ==
  /\ pc[Owner] = "start_launch"
  /\ cCreating' = cCreating - 1 /\ LoadRunning(Owner) /\ Goto(Owner, "start_count")
  /\ UNCHANGED <<fields, state, n, threadV, tail, addV, flags, cRunning, odd,
                 startV, written, faults>>

StartCount ==
  /\ pc[Owner] = "start_count" /\ StoreRunning(Owner, 1)
  /\ state' = [state EXCEPT ![iStart] = "DOWNLOADING"]
  /\ pc' = [pc EXCEPT ![iStart] = "begin", ![Owner] = "start_loop"]
  /\ iStart' = iStart + 1
  /\ UNCHANGED <<fields, n, threadV, tail, addV, flags, cCreating, bOneStarted,
                 refused, starts, written, faults>>

StartEnd ==
  /\ pc[Owner] = "start_loop" /\ (iStart > n \/ bNeedStop)
  /\ bNoNew' = FALSE /\ Goto(Owner, "idle")
  /\ UNCHANGED <<fields, state, n, threadV, tail, addV, bNeedStop, bErr,
                 noRanges, counts, startV, written, faults>>

\* CreateSection is about to launch the thread of s.
BeingGiven(s) == s = n /\ \E a \in Actor : pc[a] \in {"add_start", "add_launch"}

\* LaunchOneMoreSection takes the first section in SS_STOPPED: no test, and no
\* lock, says that it has no thread, or that CreateSection is not about to
\* launch it.
LaunchOneMoreSection ==
  /\ pc[Owner] = "idle" /\ starts < MaxStarts /\ starts' = starts + 1
  /\ \E s \in 1..n :
       /\ state[s] = "STOPPED" /\ \A t \in 1..(s - 1) : state[t] # "STOPPED"
       /\ iStart' = s
       /\ odd' = odd \cup {o \in {"twice"} : pc[s] # "none" \/ BeingGiven(s)}
  /\ LoadRunning(Owner) /\ Goto(Owner, "one_launch")
  /\ UNCHANGED <<fields, state, n, threadV, tail, addV, flags, cCreating,
                 cRunning, bOneStarted, refused, written, faults>>

OneLaunch ==
  /\ pc[Owner] = "one_launch" /\ StoreRunning(Owner, 1)
  /\ pc' = [pc EXCEPT ![iStart] = "begin_nofile", ![Owner] = "idle"]
  /\ UNCHANGED <<fields, state, n, threadV, tail, addV, flags, cCreating, startV,
                 written, faults>>
-----------------------------------------------------------------------------
SectionThread(s) ==
  \/ ThreadBegin(s) \/ ThreadBeginNoFile(s) \/ NoFileError(s)
  \/ SectDownloadingReturn(s) \/ StopInLoop(s) \/ Read(s)
  \/ ReadError(s) \/ ReadStalled(s) \/ AwaitOtherError(s) \/ SetError(s)
  \/ ReopenGiveUp(s) \/ ReopenFails(s) \/ ReopenNoRanges(s) \/ Reopened(s)
  \/ FlushToCache(s) \/ FlushToDisk(s) \/ Advance(s) \/ LoopEnds(s)
  \/ WriteError(s) \/ Finish(s) \/ ExitFlush(s) \/ Leave(s) \/ CountOut(s)

TailThread == TailReturn \/ TailEnd

AddSteps(a) ==
  \/ AddLock(a) \/ AddRefused(a) \/ AddChoose(a) \/ AddNoCandidate(a)
  \/ AddPoint(a) \/ AddTooSmall(a) \/ AddOpen(a) \/ AddOpenFails(a)
  \/ AddOpenNoRanges(a) \/ AddRecheck(a) \/ AddTooLate(a) \/ AddShrink(a)
  \/ AddInsert(a) \/ AddStart(a) \/ AddLaunch(a) \/ AddFixup(a)

OwnerSteps ==
  \/ MainRefused \/ MainOpened \/ MainFails \/ MainStart \/ MainLaunch
  \/ MainNotInitialized \/ StartSkip \/ StartSection \/ StartOpened
  \/ StartNoFile \/ StartOpenFails \/ StartNoRanges \/ StartClear \/ StartLaunch
  \/ StartCount \/ StartEnd \/ OneLaunch

Ended == odd \cap {"blind", "twice"} # {}

Step ==
  \/ \E s \in SectId : SectionThread(s)
  \/ TailThread
  \/ \E a \in Actor : AddSection(a) \/ AddSteps(a)
  \/ MainBegin \/ StartBegin \/ LaunchOneMoreSection \/ OwnerSteps
  \/ StopDownloading

Next == ~Ended /\ Step

\* Every thread runs, in the code of CreateAdditionalSection too, and an owner
\* that asks for one section after another does not keep all others waiting for
\* m_csAddSection.  Nothing obliges it to start, to stop or to ask.
Fairness ==
  /\ \A s \in SectId : WF_vars(~Ended /\ (SectionThread(s) \/ AddSteps(s)))
  /\ WF_vars(~Ended /\ (TailThread \/ AddSteps(Tail)))
  /\ WF_vars(~Ended /\ (OwnerSteps \/ AddSteps(Owner)
                          \/ (MainBegin /\ pc[Owner] = "main")))
  /\ SF_vars(~Ended /\ \E a \in Actor \ {Owner} : AddLock(a))

Spec == Init /\ [][Next]_vars
FairSpec == Spec /\ Fairness
-----------------------------------------------------------------------------
\* The type of every variable.
FieldsOK ==
  /\ n \in 0..MaxSections
  /\ uStart \in [SectId -> 0..FileSize] /\ uEnd \in [SectId -> 0..FileSize]
  /\ uCurrent \in [SectId -> Nat] /\ dwCacheLen \in [SectId -> Nat]
  /\ buf \in [SectId -> Nat] /\ written \in SUBSET (0..(FileSize - 1))

ControlOK ==
  /\ state \in [SectId -> SectionState]
  /\ pc \in [Actor -> SectPC \cup OwnerPC \cup TailPC \cup AddPC]
  /\ tail \in [sect : SectId, kind : SectionState]
  /\ add \in [target : SectId, max : Nat, corr : Nat, split : Nat, end : Nat]
  /\ csAdd \in Actor \cup {None}

FlagsOK ==
  /\ bAdding \in BOOLEAN /\ bNoNew \in BOOLEAN /\ bNeedStop \in BOOLEAN
  /\ bErr \in BOOLEAN /\ noRanges \in BOOLEAN /\ bOneStarted \in BOOLEAN

CountersOK ==
  /\ cCreating \in Int /\ cRunning \in Int /\ old \in [Actor -> Int]
  /\ odd \subseteq {"lost", "blind", "twice"}
  /\ cAttempts \in [SectId -> 0..MaxAttempts]
  /\ iStart \in 1..(MaxSections + 1)
  /\ refused \in Nat /\ faults \in 0..MaxFaults /\ starts \in 0..MaxStarts

TypeOK == FieldsOK /\ ControlOK /\ FlagsOK /\ CountersOK

Bytes == 0..(FileSize - 1)

\* The part of the file the target has given up and no section has yet.
Pending == IF csAdd # None /\ pc[csAdd] = "add_insert"
           THEN add.split..(add.end - 1) ELSE {}

\* No byte of the file falls between two sections: whatever splits, failures
\* and restarts happened, each belongs to a section of m_vSections, or to the
\* one CreateAdditionalSection is about to append.
NoHole ==
  n > 0 => \A b \in Bytes \ Pending : \E s \in 1..n : uStart[s] <= b /\ b < uEnd[s]

\* No byte is left to two sections: where two overlap, after a cut that came too
\* late for its target, what they share is already in the file, and stays so
\* when the target rolls back or a write fails.
Extent(s) == uStart[s]..(uEnd[s] - 1)

SectionsApart ==
  \A s, t \in 1..n : s # t => Extent(s) \cap Extent(t) \subseteq written

\* uCurrent never claims a byte that is not in the file: what a resume skips
\* has been written, across caching, roll back, failed writes and splits.  No
\* roll back takes it below uStart, and no read takes it past the file.
PrefixWritten ==
  \A s \in 1..n : /\ uStart[s] <= uCurrent[s] /\ Pos(s) <= FileSize
                  /\ uStart[s]..(uCurrent[s] - 1) \subseteq written

\* When every section is SS_DONE the file is complete on disk, unless
\* CreateAdditionalSection is between its two critical sections.
DoneMeansComplete == IsDone => Bytes \ Pending \subseteq written

RunningCounted == "lost" \notin odd => cRunning = Cardinality(Live)

\* StartDownloading takes a run for over, by m_cRunningThreads, only when it is:
\* no section has a thread outside m_csDone and nobody is adding one, whatever
\* launches, handlers and ends of threads are under way, unless an update of
\* the count was lost.  The count goes wrong in no other way.
RunNotMissed == "blind" \in odd => "lost" \in odd

\* The parts of CreateAdditionalSection outside its ++ and -- of the count.
NotCreating == {"add_lock", "add_choose", "add_launch", "add_fixup"}

\* Every return of CreateMainSection, CreateAdditionalSection and
\* StartDownloading gives back its m_cBaseSectCreatingNow, except the ones
\* after a refused DE_NEEDFILE.
CreatingCounted ==
  cCreating = refused
    + Cardinality({a \in Actor : pc[a] \in AddPC \ NotCreating})
    + (IF pc[Owner] \in {"main_open", "main_start", "start_open",
                         "start_launch", "start_clear"} THEN 1 ELSE 0)

\* A section shown as downloading has a thread: it is not forgotten by a stop
\* or by a failure between the events.
DownloadingHasThread == \A s \in 1..n : state[s] = "DOWNLOADING" => pc[s] # "none"

\* A launch, by StartDownloading, CreateSection or LaunchOneMoreSection, never
\* finds a thread of the section that may still read, write or update the count:
\* no overlap of a restart with splits and ends of threads has two threads work
\* on one section, but for the one "twice" names.  It may find one inside
\* m_csDone, with its event to raise and SS_STOPPED still to write.
NoSecondWorker ==
  [][\A s \in SectId : pc'[s] \in Launched /\ pc[s] \notin Launched =>
                       pc[s] = "none"]_vars

\* A cut is committed: the adder passed its last test, or a stopped thread of
\* an earlier run has still to mark its section.
Committed ==
  \/ csAdd # None /\ pc[csAdd] \in {"add_shrink", "add_insert"}
  \/ pc[Tail] # "none" /\ tail.kind # "DONE"

\* A finished download stays finished: no late thread, split or restart takes
\* a section list that is all SS_DONE back.
DoneStays == [][IsDone /\ ~Committed => IsDone']_vars

\* The downloader comes to rest, whatever waits for a lock, a reconnection or a
\* stop: the threads of a run all end, with the event handlers they run inside
\* m_csDone; every call the owner makes returns; and m_cRunningThreads says so,
\* unless an update of it was lost.
AtRest ==
  /\ Live = {} /\ pc[Tail] = "none" /\ pc[Owner] = "idle"
  /\ IsRunning => "lost" \in odd

ComesToRest ==
  Live # {} \/ pc[Tail] # "none" \/ pc[Owner] # "idle" \/ IsRunning ~> AtRest \/ Ended
-----------------------------------------------------------------------------
(* The inductive invariant the proofs use.                                 *)

\* Each actor is in its own code; m_csAddSection is held where it must be.
PlacesInv ==
  /\ \A s \in SectId : pc[s] \in SectPC \cup AddPC
  /\ pc[Owner] \in OwnerPC \cup AddPC
  /\ pc[Tail] \in TailPC \cup AddPC
  /\ \A a \in Actor : pc[a] \in AddPC \ {"add_lock"} => csAdd = a
  /\ pc[Owner] \in {"main_open", "main_start", "main_launch"} => csAdd = Owner
  /\ pc[Owner] = "main_open" => n = 0
  /\ pc[Owner] \in {"main_start", "main_launch"} => n > 0
  /\ \A s, t \in SectId : pc[s] = "count_out" =>
       pc[Tail] = "none" /\ (pc[t] = "count_out" => t = s)

\* A thread is that of a listed section; it has left state SS_DOWNLOADING when
\* it is leaving, and has bytes in its hands only when it writes them.
ThreadInv(s) ==
  /\ pc[s] # "none" => s <= n
  /\ pc[s] \in {"exit", "exit_advance", "leave", "count_out"} =>
       state[s] # "DOWNLOADING"
  /\ pc[s] \notin {"flush", "advance", "last_advance", "exit_advance"} => buf[s] = 0

\* The section just created has no thread yet and is not complete.
LaunchInv ==
  \A a \in Actor : pc[a] \in {"add_start", "add_launch", "main_start", "main_launch"} =>
                     pc[n] = "none" /\ state[n] \in {"CREATING", "STOPPED"}

\* What a section's thread has done, up to where it is.
SectionInv(s) ==
  /\ uStart[s] <= uEnd[s] /\ uStart[s] <= uCurrent[s]
  /\ Pos(s) + buf[s] <= FileSize
  /\ uStart[s]..(uCurrent[s] - 1) \subseteq written
  /\ pc[s] \in {"advance", "last_advance", "exit_advance"} =>
       uCurrent[s]..(uCurrent[s] + buf[s] - 1) \subseteq written
  /\ pc[s] = "last_advance" => uEnd[s] <= uCurrent[s] + buf[s]
  /\ pc[s] = "finish" => uEnd[s] <= uCurrent[s]
  /\ state[s] = "DONE" => /\ uEnd[s] <= uCurrent[s]
                          /\ pc[s] \in {"exit", "exit_advance", "leave",
                                       "count_out", "none"}

\* What CreateAdditionalSection knows of its target.
AddInv(a) ==
  /\ pc[a] \in AddPC => n > 0
  /\ pc[a] \in AddPC \ {"add_lock", "add_choose"} => add.target <= n
  /\ pc[a] \in {"add_point", "add_open", "add_recheck", "add_shrink", "add_insert"} =>
       n < MaxSections
  /\ pc[a] \in {"add_open", "add_recheck", "add_shrink"} =>
       /\ uStart[add.target] <= add.split /\ add.split < add.end
       /\ add.end = uEnd[add.target]
  /\ pc[a] = "add_insert" => add.split < add.end /\ add.end <= FileSize

\* StartDownloading runs alone: no thread is adding a section, the sections it
\* has not reached have no thread, and before the first start none has.
StartInv ==
  ~Ended /\ pc[Owner] \in {"start_loop", "start_open", "start_launch",
                           "start_count", "start_clear"} =>
    /\ bNoNew /\ \A a \in Actor : pc[a] \notin AddPC
    /\ \A s \in SectId : s >= iStart => pc[s] = "none"
    /\ pc[Owner] # "start_loop" => iStart <= n
    /\ pc[Owner] \in {"start_launch", "start_count"} => bOneStarted
    /\ pc[Owner] = "start_clear" => ~bOneStarted
    /\ ~bOneStarted => Live = {}

\* The section LaunchOneMoreSection has taken has no thread, and nobody else
\* is about to launch one for it.
OneInv ==
  ~Ended /\ pc[Owner] = "one_launch" =>
    /\ iStart <= n /\ pc[iStart] = "none" /\ state[iStart] = "STOPPED"
    /\ \A a \in Actor : pc[a] \in {"add_start", "add_launch"} => iStart # n

\* A thread that adds a section in its DE_SECTIONDONE event is not the last.
TailAddInv == "lost" \notin odd /\ pc[Tail] \in AddPC => Live # {}

IndInv ==
  /\ TypeOK /\ PlacesInv /\ LaunchInv
  /\ \A s \in SectId : ThreadInv(s) /\ (s <= n => SectionInv(s))
  /\ \A a \in Actor : AddInv(a)
  /\ StartInv /\ OneInv /\ TailAddInv /\ NoHole
  /\ RunningCounted /\ RunNotMissed /\ DownloadingHasThread
=============================================================================
