# Free Download Manager: a verification project in TLA+

Free Download Manager is a Windows program (C++ and MFC, under `src/trunc`).
The modules here model the parts of it that keep state and run concurrently,
TLC checks them on small instances, and TLAPS proves the most important
properties for every value of the constants. Every definition is translated
from the source; `PROJECT.json` gives the lines of each ("map"), the mutations
that show that each property can fail ("mutants"), and the places where the code
could go wrong ("hazards").

Contents: 1 the system, 2 the modules, 3 the runs, 4 the proofs, 5 where the
code disagrees with what is said of it, 6 abstractions and limits, 7 plan.

## 1. The system

### 1.1 Components with state of their own

**Segmented downloader** (`fsInternetDownloader.*`, `fsDownloadSection.h`).
Downloads one file in several sections at once.
*State*: the sections `[uStart, uEnd)` with `uCurrent`, a write cache and a
state each; the counters `m_cRunningThreads` and `m_cBaseSectCreatingNow`; the
flags `m_bNeedStop`, `m_bNoNewSections`, `m_bErrDownloading`,
`m_bAddingSection`; what is known of the server's resume support.
*Operations*: `StartDownloading`, `StopDownloading`, `AddSection`
(`CreateMainSection` or `CreateAdditionalSection`), `StopSection`,
`LaunchOneMoreSection`, and the section thread `_threadDownload` with
`__threadDownload_flushdata`.
*Interacts* with its owner through events (`DE_SECTDOWNLOADING`,
`DE_SECTIONDONE`, `DE_SECTIONSTOPPED`, `DE_QUERYNEWSECTION`, `DE_NEEDFILE`...)
that are handled in the thread that raises them.
*Hard*: a section is cut in two while its thread reads and writes it; the cut is
computed, rechecked and committed in different critical sections with a network
request between them; an event handler runs inside `m_csDone` and may wait for
`m_csAddSection`; a read that failed rolls back into the cache; a start may come
while the threads of the last run are leaving.
*Correct when* no byte is left out or left to two sections, nothing is claimed
that is not on disk, a complete list is a complete file, a start takes no run for
over that is not, no two threads work on one section, and all threads and calls
end.

**Control thread of a download** (`fsDownloadMgr.*`). Starts the downloader, adds
sections until the wanted number runs, creates and renames the file, stops,
declares the download complete.
*State*: `m_dwState` (`DS_DONE`, `DS_NEEDSTOP`...), `m_bThreadRunning`,
`m_bFatalError`, `m_bNeedStartAgain`, the output file.
*Operations*: `StartDownloading`, `StopDownloading`, the thread
`_threadDownloadMgr` with `StartDownload`, `StopDownload` and `AddSection`, the
handlers in `_DownloaderEvents`.
*Interacts*: calls the downloader; handles its events; raises its own to the
manager of all downloads. *Hard*: `m_dwState` is written by callers, by the
control thread and by handlers in section threads, each write atomic, what it
rests on often out of date. *Correct when* there is one control thread at most,
no section runs without it, a stop ends it, it never waits for nothing, a
complete download is declared so once, and what the manager is told is true.

**Manager of all downloads** (`fsDownloadsMgr.*`). *State*: the list
`m_vDownloads` under a reader/writer lock, the recycle bin
`m_vDeletedDownloads` under a critical section, identifiers. *Operations*: add,
delete, restore, save, load, start, stop, and `ProcessDownloads`, which decides
what runs within the limits of the traffic mode. *Hard*: two lists and two locks;
two files saved one after the other; what a pass decides under the read lock is
carried out after it, while downloads end and users start, stop, queue and delete
them; the counters of the servers are a pass's budget and the events' count at
the same time. *Correct when* a download is in exactly one of the lists, also
after a crash; identifiers are unique; limits are kept; only what is in the
queue is started, and a queue is never left waiting for nothing; no deadlock.

**Reader/writer lock** (`Include.Add/vmsReaderWriterLock.h`). *State*: a critical
section, a count, an event, thread-local nesting. *Hard*: the count and the event
change in two steps. *Correct when* a writer is alone, and every waiting writer
gets in.

**Persistence** (`fsDownloadRegSaver.*`, `vmsPersistObject.*`). *State*: dirty bits
of a tree of objects; the files `.sav` and `.bak`. *Operations*: `Save`, `Load`,
`setDirty`, `getStateBuffer`, `onStateSavedSuccessfully`. *Hard*: downloads
change while they are saved; a crash may come between any two file operations.
*Correct when* no completed save is lost, and every change is saved in the end.

**Scheduler** (`fsScheduleMgr.*`): tasks with times and repetition. *Correct
when* a task runs once per due time, also across a change of the clock.
**Traffic usage mode** (`vmsTrafficUsageModeMgr.cpp`): limits per mode, read at
several places of a pass and of a start.
**Groups** (`vmsDownloadsGroupsMgr.*`): a tree with counters of downloads.
**Manager state** (`StateInfo.*`): the identifier counter in `dlmgrsi.sav`.
**BitTorrent downloads** (`vmsBt*.*`): a wrapper of libtorrent.
**Mirrors**, **web page downloader**, **history and sites**, **conversion
queue**, **deferred deletion**: smaller, each with a list and a thread or a file.

### 1.2 Who calls whom

```
 user interface, scheduler, browser integration, remote control
        |                                   autosave thread (MainFrm.cpp)
        v                                         |  Save
 fsDownloadsMgr -- m_rwlDownloads, m_csDeletedDownloads --+--> fsDownloadRegSaver
        |  starts, stops            ^ events                    .sav, .bak
        v                           |                     dirty bits ^
 fsDownloadMgr (control thread) ----+                                |
        |  AddSection, StartDownloading, StopDownloading             |
        v                           ^ DE_... events, in section      |
 fsInternetDownloader               |  threads                       |
        |  launches one thread per section -- setDirty --------------+
        v
 fsInternetURLFile (WinInet, libcurl) and the output file
```

### 1.3 What is not modelled

| Part | Why |
|---|---|
| Scheduler, groups | planned, section 7 |
| BitTorrent, web page downloader, conversion and merging | own threads and queues; candidates after the plan |
| Mirrors | the downloader is modelled with one server |
| History and sites, events queue, deferred deletion | lists with a file and no protocol beyond what `RegSaver` shows |
| Streaming downloads | drives a DLL that is not in the repository |
| Kinds of downloads, settings, plug-ins, program updates | facades, registry reads, sequential requests |
| Network files | opening and reading have arbitrary outcomes in the downloader |
| Archive preview, hashes, site parsers, speed measurement | parsing and arithmetic; arbitrary choices where the downloader uses them |
| Uploader, remote control, browser integration, sniffing, command line, user interface | programs and front ends of their own |
| Vendored libraries | third-party code |

## 2. The modules

| Module | Models |
|---|---|
| `InternetDownloader` | the segmented downloader |
| `InternetDownloaderProofs` | its theorems |
| `ReaderWriterLock` | the lock |
| `DownloadListReaders` | the list of downloads as the lock's client |
| `ReaderWriterLockProofs`, `DownloadListReadersProofs` | theorems about the two |
| `DurableList` | abstract: what saving a list promises |
| `RegSaver` | `Save`, `Load`, the dirty bits; implements `DurableList` |
| `RegSaverProofs` | its theorems and the refinement |
| `DownloadLists` | the list, the recycle bin, their locks, identifiers, what `Save` writes |
| `DownloadListsProofs` | its theorems |
| `DownloadMgr` | the control thread of a download, with callers and section threads |
| `DownloadMgrInv` | its inductive invariant |
| `DownloadMgrProofs` | its theorems |
| `ProcessDownloads` | which downloads run: the passes over the queue, `StartDownloads`, `StopDownloads`, their users |
| `ProcessDownloadsProofs` | its theorems |
| `MC...` | the modules TLC runs, with the symmetry sets |

A definition whose comment begins with "Mutation of" is a plausible slip of a
programmer in the definition that follows it. It is used by no action; it shows
that the property it names in `PROJECT.json` would notice.

### 2.1 InternetDownloader

*Actors.* `pc[s]` is the place in `_threadDownload` of the thread of section
`s`. `Owner` is the control thread of `fsDownloadMgr`, which starts and adds
sections. `Tail` is the thread that is inside `m_csDone` and has taken itself off
the count: there is at most one. A section thread enters `m_csDone` and reads the
count (`Leave`), stores it, and takes that name (`CountOut`), because from there
on a start may give the section a new thread while the old one still has an event
to raise and a state to write.

*The count.* `m_cRunningThreads` is all that tells a start, and a completion,
whether threads run. No lock protects it: `--` is done in `m_csDone` (line 1182),
`++` in `m_csAddSection` (436), and without a lock in `StartDownloading` (2249)
and `LaunchOneMoreSection` (2837). Each is a read and a store, two steps of the
model (`LoadRunning`, `StoreRunning`), so that an update can be lost. The history
variable `odd` says what the code does not exclude:

| `odd` | What has happened |
|---|---|
| `lost` | an update of the count was stored over another one |
| `blind` | a start began beside threads that the count did not show |
| `twice` | `LaunchOneMoreSection`, which tests only for `SS_STOPPED`, took a section that had a thread, or was about to be given one |

After `lost` everything goes on. Behaviours end at `blind` and `twice`: two
threads of one section share its fields without a lock, and their steps are not
modelled. TLC reaches all three. `twice` needs no lost update: a section that was
stopped is in `SS_STOPPED` from its last loop until its thread has left.

*Granularity.* `m_csAddSection` is held across many steps and is a variable,
`csAdd`. `m_csDone` is held by a thread at `count_out` and while
`pc[Tail] # "none"`. `m_csSections` and
`m_csWriteToFile` protect one step each. `OpenUrl` is one step with an arbitrary
outcome. The loop body of a section thread is read, then write, then advance
(`Read`, `FlushToDisk`, `Advance`); `FlushToCache` is the branch that only fills
the cache.

*A split*, `CreateAdditionalSection`, is ten steps:

| Step | Code | |
|---|---|---|
| `AddSection` | the tests at the top | without a lock |
| `AddLock` | enters `m_csAddSection` | |
| `AddChoose` | the section with most bytes left | reads others' `uCurrent` |
| `AddPoint` | the point of the cut | from `uCurrent` by now |
| `AddOpen` | `OpenUrl` | takes seconds |
| `AddRecheck` | is the part cut off untouched? | without a lock |
| `AddShrink` | the target's `uEnd` | |
| `AddInsert` | the new section | |
| `AddStart`, `AddLaunch` | its thread, and the count | |
| `AddFixup` | restores the target's `uEnd` if it read on | without a lock |

*Data.* A byte is its position; `written` is the set of positions on disk. Speeds,
which only influence where a section is expected to be, are arbitrary up to
`SpeedAhead`.

### 2.2 ReaderWriterLock and DownloadListReaders

One action per access to shared memory: `ReadCount` is `InterlockedIncrement`,
`ReadReset` is `ResetEvent`, `ReadRelease` is `InterlockedDecrement`, `ReadSet`
is `SetEvent`. `late` is a history variable: it is true from a `SetEvent` that
comes when readers are already inside again, until the next `ResetEvent`. The
client tests an index against the list's size and uses it in a later step, both
under the read lock, as the loops of `fsDownloadsMgr` do.

### 2.3 RegSaver and DurableList

A download is a version number that only grows: 0 before it is added,
`LastVersion` once deleted. `Change` writes the value and `MarkChanged` sets the
dirty bit, in this order and in two steps, as the setters do. `Save` is
`SaveOpen` (truncate `.bak`), `Mark` and `Copy` of each download in any order,
`SaveWrite`, `SaveDelete`, `SaveMove`; each file operation has a step where it
fails, and `Crash` may come anywhere. `saved` remembers what the last save that
reported success and was renamed wrote; `faults` counts crashes inside `Save`
and failed calls since.

`DurableList` says what a user expects: whatever happens, a restart brings back
a list no older than the last completed save and no newer than what the program
had.

### 2.4 DownloadLists

The list of downloads, the recycle bin and the temporary bin of a deletion are
sets: the order, and with it which download a full bin drops, is left out.
`Thread` are the threads that call `fsDownloadsMgr`: the interface, and the
threads of downloads that are deleted when they are finished. Each has its place
`pc[t]`, the downloads its call still has to handle `todo[t]`, and the one it
carries `hand[t]`.

| Actions | Code |
|---|---|
| `AddBegin`, `AddId`, `AddList` | `Add`: `setDirty`, `InterlockedIncrement`, `DownloadsList_Add` |
| `DeleteLock` ... `DeleteUnlock` | `DeleteDownloads2`, with `m_rwlDownloads` for writing |
| `RestoreBegin` ... `RestoreEnd` | `RestoreDownloads2`, with `m_csDeletedDownloads`; each download is put back by `AddList` |
| `DeleteDeleted` | `DeleteDeletedDownloads2` |
| `SaveList`, `SaveBin`, `SaveState...` | `Save`: two lists and, when dirty, the identifier |
| `Restart` | a stop at any step, and `LoadDownloads` |

`gone`, `kept`, `moved` and `reused` are history variables: what has been deleted
for good, what the files have held and still should, whether a move overlapped
the latest `Save`, whether a start took an identifier from `dlmgrsi.sav` that
was already in a list.

### 2.5 DownloadMgr

*Actors.* `Caller` are the threads that start and stop the download: the
interface, the scheduler, `ProcessDownloads`. `Ctl` are control threads: there
may be a second one, for `m_bThreadRunning` is reset before the thread raises its
last event. `Thread` are the section threads, `sect[t]` the section of each. `pc`
says where each is.

| Actions | Code |
|---|---|
| `StartCall`, `Launch`; `StopCall`, `StopDldr` | `StartDownloading`, `StopDownloading` of `fsDownloadMgr` |
| `ThreadStarts`, `LoopEnds`, `LoopNeedStart`, `LoopRuns` | the head of the loop of `_threadDownloadMgr` |
| `StartDownload`, `Main...`, `Start...` | `StartDownload` and the downloader's `StartDownloading`: the first section, or each section again |
| `StartResult` ... `FatalError` | what is made of the result: flags, the next attempt, the end of the loop |
| `StopCheck`, `Stopped` | `DS_NEEDSTOP`: stop the sections, wait, reset the flags |
| `WorkDone`, `Watchdog`, `WatchdogStopped`, `LaunchOneMoreSection` | the rest of a pass |
| `Close`, `ThreadEnds`, `StoppedOrDone` | the end of the thread |
| `AddRefused` ... `AddLaunch` | `AddSection`, from the loop, a section thread or a handler |
| `ThreadBegin`, `SectionEnds`, `Leave`, `ThreadExit` | the section thread |
| `SectionDone`, `NotAdded`, `OnDone`, `SetDone` | the handler of `DE_SECTIONDONE` |
| `OnSectionStopped` ... `SetNeedStop` | the handler of `DE_SECTIONSTOPPED` |

The handlers run inside `m_csDone` (`csDone`) after the thread has been
counted out, and each test and each write of `m_dwState` in them is a step.

*Overlaps.* The code relies on certain things not happening at the same time,
and nothing in it prevents them. Most need that a section ends within moments of
its start or that a thread is held up between two lines. The history variable
`odd` collects those that have happened:

| Overlap | What has happened | What no longer holds then |
|---|---|---|
| `two` | two callers have both found the download not running | one control thread; the steps of two are not modelled |
| `early` | the last section thread has ended before the start of the downloader was over, or is still in its handler at the next start | `ThreadsAttended`, `FatalIsReal`, `ToldTheTruth` |
| `again` | a handler that has found no thread running is about to clear `DS_DOWNLOADING`, to close the file or to set `DS_DONE`, and a thread runs again: the control thread has launched it meanwhile | `ThreadsAttended`, `FatalIsReal`, `ToldTheTruth` |
| `stop` | the control thread leaves its loop while that handler acts | `ToldTheTruth` |
| `late` | the download starts again before `DMEE_STOPPEDORDONE` | `ToldTheTruth` |
| `gone` | the list of sections was cleared under a thread that has not ended | `DoneSectionStays` |
| `add` | a section is added although all others are complete by now | `ThreadsAttended`, `CompletedOnce` |
| `twice` | a section has a thread that ends and one that begins | `DoneSectionStays` |

Each property names the overlaps after which it is not claimed, and each entry
of the table was found with TLC: without the exception the property is
violated (in the row of `again`, with three sections). What can follow: a section thread that runs with its file closed and
nobody to restart it; a complete download, or one whose restart has been
announced, reported as failed; the manager told that a download is done before
its file has its final name; a completion handled twice. Of `early` there is one
more consequence, without a property: a start whose threads have ended before it
returns sets `DS_NEEDSTOP` beside the handler's `DS_NEEDSTART`
(`fsDownloadMgr.cpp:737`), and the restart that was announced never comes.

### 2.6 ProcessDownloads

*Actors.* `Manager` is the thread `_threadDownloadsMgr`, which calls
`ProcessDownloads` when it has been asked to (`needPD`). `User` are the threads
that call `StartDownloads`, `StopDownloads`, `DeleteDownloads2` and change the
settings: the interface, the scheduler, the traffic mode. A download has one
thread at most (`DownloadMgr` is about that one), which ends, and raises its last
event in a later step (`ended`).

| Actions | Code |
|---|---|
| `ManagerWakes`, `Disabled`, `Begin` | the loop of the thread, `m_bDisablePD`, the three budgets |
| `LookDone`, `Reject`, `TooSoon`, `Accept` | one download of a pass: does it fit, may it start again yet, what it takes from the budgets |
| `Act`, `Unlock` | `IsRunning` read again, the lists to start and to stop; the one that starts when nobody has used a connection |
| `StopOne`, `StopsDone` | `StopDownloads` |
| `Count`, `StartSkipped`, `StartOne`, `StartQueued`, `StartsDone` | `StartDownloads` |
| `StartCall` ... `DeleteEnd` | the users |
| `Refused`, `Completes`, `Fails`, `ThreadEnds`, `StoppedOrDone` | a download's thread and its events |
| `Recount` | the events of a section change `cConnsNow` |

*Data.* The connections of a download are any number at every reading, which
`Share` bounds. `Look` takes the two readings of `IsRunning` at lines 445 and
513 for one: a download that ends between them is one that ends right after, and
`touched`. The events `DE_SECTION...` set a server's `cConnsNow` to what they
count, and the unsigned decrement of `OnSectionStop` may wrap (`Recount`: any
value). `touched`, `mixed`, `unseen` and `stirred` are history variables: what has
left the queue or ended since the pass has looked at it; that another thread has
started a download since this one has counted those that run; what
`StartDownloads` has put into the queue, which asks for no pass; that `cConnsNow`
has changed during a pass with nothing running, which needs a section that
outlives its download.

## 3. The runs

| Run | States | Properties |
|---|---|---|
| `downloader_split` | 812 k | `TypeOK`, `PrefixWritten`, `DoneMeansComplete`, `NoHole`, `SectionsApart` |
| `downloader_restart` | 1.2 M | `RunNotMissed`, `CreatingCounted`, `DownloadingHasThread`, `NoSecondWorker`, `DoneStays` |
| `downloader_liveness` | 235 k | `ComesToRest` |
| `readers_lock` | 5.4 k | `ExcludedUnlessLate`, `WriterWoken`, `IndexSoundUnlessLate`, `WriterGetsIn` |
| `readers_walk` | violation | `IndexAsserted` |
| `saver_durable` | 2.1 M | `TypeOK`, `SurvivesOneFault`, `CleanIsSaved`, `DurableWhileCalm`, `EventuallySaved` |
| `saver_grow` | violation | `ListProtected` |
| `lists_moves` | 3.3 M | `TypeOK`, `OneBin`, `NoneLost`, `IdsUnique`, `ListKeptUnlessMoved`, `BackNotBlocked`, `RestoringShown` |
| `lists_kept` | violation | `ListKept` |
| `control_overlaps` | 1.49 M | `TypeOK`, `RunningIsKnown`, `ThreadsAttended`, `FatalIsReal`, `CompletedOnce`, `ToldTheTruth`, `DoneSectionStays` |
| `control_ends` | 329 k | `StopHonoured`, `RunGoesOn` |
| `manager_queue` | 2.1 M | `TypeOK`, `NeverStuck`, `StartsWithinLimit`, `StartsOnlyQueued` |

### 3.1 What they show, and why the bounds are enough

`downloader_split`: a file of 3 bytes, two sections, reads of up to 2 bytes, a
cache of 2, a roll back of 1, an expected advance of 1, one fault. A split needs
two bytes left, the target can be anywhere relative to the cut when it is
committed (before it, at it, beyond it), with or without cached bytes, and the
roll back can reach across the cut. That is every order of the three numbers
the code compares (cut, position, end). `SectionsApart` is about the last case:
a target that has read beyond the cut gets its end back as far as it has written
(`AddFixup`), and what it still holds in its cache the two sections both write.
They overlap for ever after in the list, and only over bytes that are on disk.

`downloader_restart`: two calls of `StartDownloading` or `LaunchOneMoreSection`
beside the first, a stop at any step, one fault, on a file of two bytes, which is
one split. This is where a thread of the
first run meets the second, where the list is cleared because the server no
longer resumes, and where updates of `m_cRunningThreads` are lost. `RunNotMissed`
says that a start misses a run, or a section that is being added, only after a
lost update: it is the order of the launches, of the handlers that add sections
and of the tests in `StartDownloading` that the count rests on, and the mutant
that launches a thread without counting it breaks it. `NoSecondWorker` says of
every launch, up to `blind` or `twice`, that the section's thread is not at work.
It does not say that the last one is gone: inside `m_csDone` it may have its
event to raise and `SS_STOPPED` to write. What that write does is told by
`DoneStays` and `DownloadingHasThread`, which is about the new thread. `DoneStays` says that no
step takes a complete list back. Two cases are excepted, because the list is
complete only for a moment while a change is on its way (`Committed`): a split that has
passed its last test, and a stopped thread inside `m_csDone` that has still to
mark its section, which is the race in the hazard at line 1205. In the first
case the file is completed by the section about to be appended, and the handler of
`DE_SECTIONDONE`, which tests `IsDone` and `IsRunning`, relies on the target's
thread not being the last one to leave.

That a section which was itself cut off may be cut again needs three sections.
No run has three; `NoHoleAlways` and the other theorems of section 4.1 hold for
every number of them.

`downloader_liveness`: two sections and two faults, so that both may be
reconnecting at once; a file of two bytes, read one at a time without a cache,
for the waits do not depend on the data. `ComesToRest` says that the threads end,
with the event handlers they run inside `m_csDone`, that calls return, and that
the count is back at 0 unless an update was lost.

`readers_lock` and `readers_walk`: three threads are enough for the one hazard (one that
leaves, one that comes in, one that writes); nesting depth 2 tells the
outermost release from an inner one.

`saver_*`: two downloads, so that one can change after it was copied and the
other before; 4 versions are added, changed, changed again and deleted; one
fault between two completed saves. `saver_durable` lets downloads grow while they
are saved, which is where the code breaks its promise (`saver_grow`):
`DurableWhileCalm` says that every step is one of `DurableList` for as long as no
download has grown under a `Save` and no second fault has come, and the theorem
`ImplementsWhileCalm` says so for any number of faults.

`lists_moves`: two downloads, so that one can be moved while the other is in the
bin and a bin of one is full; two threads, so that a deletion meets a
restoration, an addition or another deletion; `Save` at any step of theirs, and
one stop, after which the lists may disagree with each other and with
`dlmgrsi.sav`. A call handles one download (`MaxBatch`); the theorems hold for
any number.

`control_overlaps`: two callers, who may start and stop the download at once; two
control threads, so that a restart meets the end of the last run; two sections
and three section threads, so that a section can have an old and a new thread;
one fault (a section that fails, a file that cannot be created, a stall that the
watchdog sees) and two calls. One attempt to start: a second would pass the same
steps again. Behaviours go on after `early`, `again`, `stop` and `late`, the
overlaps that are the most likely, and end at the others. `again` happens in this
run, but does its harm only with three sections, which the run has no time for;
what is claimed without it is proved for any number of sections (4.5). The
inductive invariant `MgrInv` has been checked with TLC for each set of overlaps.

`control_ends`: one caller, one control thread and two section threads, behaviours
that go on after `early`. The properties need no second control thread: each is
about the loop of the one that runs.

`manager_queue`: two downloads of one server, one that can resume and one that
cannot, so that one competes with the other for the limits; the settings allow
one of them to run when the behaviour begins, and a user may let both; a run
that has ended and not yet been reported for each (`MaxEnds`), so that an old end
meets a new start; one user with one call at any step of a pass. A pass, and the
start and stop that follow it, meet a completion, a failure, a refusal, a start, a
stop, a deletion, a change of the queue and one of the settings. `UIntMax = 2`:
the counters of connections are at 0, in between and at their largest.

`NeverStuck` is what a user would call a hung queue: no call, no pass and no end
of a run is on its way, a download waits, and none runs whose end would wake the
manager. It rests on three things together: the manager clears the request before
the pass and not after it; the end of a download asks for a pass after it no
longer runs; and the first download that was stopped a moment ago is started
after all when nobody else has used a connection, without which it would wait for
an event that never comes.

`CHECK_DEADLOCK FALSE` is in the runs of the downloader, of the control thread, of the two lists and of the queue. A download that is
complete, or that nobody starts again, really stops; that its threads and calls do
not stop before is `ComesToRest` (or, in the model, at `blind` and `twice`). The two lists really deadlock:
`RestoreDownloads2` holds `m_csDeletedDownloads` and waits for `m_rwlDownloads`
(`fsDownloadsMgr.cpp:2591`), and `DeleteDownloads2` takes the two in the other
order (line 1773); `Save` and every other call then wait for the two.
`BackNotBlocked` says that the second time a deletion takes
`m_csDeletedDownloads` it cannot happen, because the bin it has emptied leaves
nothing to restore. In the other runs deadlock is checked.

### 3.2 Fairness

*Downloader.* Weak fairness of each section thread, of the thread in `m_csDone`
and of the owner inside a call, each with the steps of `CreateAdditionalSection`
that it takes itself: the operating system runs ready threads, and every wait in the code other than for a lock is bounded
(sockets time out, a reconnection has `m_uMaxAttempts`). `AddLock` has strong
fairness for the threads of the sections together, while the owner may add one
section after another: a critical section is free again and again while the owner
takes it, and Windows does not keep all others out for ever. More is not needed,
for each of them asks once. The owner is not
obliged to start, stop or add anything. `m_uMaxAttempts` may be `UINT_MAX` in
the program; the run is about a finite number, and without it a download whose
server never answers rightly never ends.

*Control thread.* Weak fairness of each caller inside a call, of each control
thread and of each section thread that does not read: the operating system runs
ready threads. A section may read for ever, unless it is to stop
(`SF(bNeedStop /\ SectionEnds)`): it tests `m_bNeedStop` between two reads, each
of which has a time-out or is closed by `StopDownloading`. `SF(WorkDone)`: a pass
of the loop ends, which in the code has no loop inside it. Nobody is obliged to
call.

*Readers.* A call in progress goes on, and a walk over the list is a bounded loop
whose lock is given up in the end. Nobody is obliged to read or write.

*Saver.* The autosave thread calls `Save` again and again (`MainFrm.cpp`), a
thread that has changed a member goes on to `setDirty`, a program that was
stopped is started again. `EventuallySaved` does not claim anything when the
program is stopped infinitely often, or after a rename that failed: the
dirty bits are cleared then although nothing was saved (hazard at
`fsDownloadRegSaver.cpp:308`).

## 4. The proofs

All theorems hold for every value of the constants that satisfies the named
assumptions (`SizesAssumption`, `ActorsAssumption`, `ThreadAssumption`,
`NestAssumption`, `VersionAssumption`, `BoundAssumption`, `NameAssumption`,
`FileAssumption`, `SizeAssumption`, `NamesAssumption`, `MgrAssumption`,
`QueueAssumption`). TLC evaluates the assumptions. The inductive invariants were
checked with TLC before they were proved; no run repeats that, since `Invariance`,
`ListsInvariant`, `MgrInvariant` and `MeaningInvariant` prove them.

### 4.1 InternetDownloaderProofs

`IndInv` is proved inductive, one lemma per action or family of actions, and
`TypeCorrect`, `NoHoleAlways`, `PrefixWrittenAlways`, `DoneMeansCompleteAlways`,
`RunNotMissedAlways`, `DownloadingHasThreadAlways` and `NoSecondWorkerAlways`
follow. None of these is inductive by itself:

- `PrefixWritten` needs to know what a thread holds between the write and the
  advance of `uCurrent`, and that a section that is finishing has reached `uEnd`
  (`SectionInv`). It is the reason that a cut can only make `uEnd` smaller while
  a thread finishes, never larger than `uCurrent`.
- `NoHole` needs what the adder knows of its target between the computation of
  the cut and the appending of the new section: the end it remembers is still the
  target's (`AddInv`), because all changes of an `uEnd` hold `m_csAddSection`
  (`PlacesInv`).
- `RunNotMissed` needs that the count is exact as long as no update was lost
  (`RunningCounted`): a store that overwrites none changes the count by the one
  thread that begins or ends in the same step. The thread in `m_csDone` is not
  counted any more and may still add a section, but only when other threads run
  (`TailAddInv`), which is where the tests in the handler of `DE_SECTIONDONE`
  matter.
- `NoSecondWorker` needs that a section which has just been created has no thread
  (`LaunchInv`); that during a start that is not blind nobody adds a section and
  the sections it has not reached have no thread (`StartInv`), for it sets
  `m_bNoNewSections` before it looks at the first; and that the section
  `LaunchOneMoreSection` has taken stays without one until the launch (`OneInv`).
  An update lost during a start does no harm to it.

`SectionsApartAlways` has an invariant of its own on top of `IndInv`
(`ApartInv`): the extents of two sections share written bytes only, and so does
the part that has been cut off and not been appended (`Pending`) with every
section. A fix-up gives the target back what it has written and no more.

`CreatingCountedAlways` needs an exact count (`CreateInv`): the counter is the
number of refused additions that have still to take theirs back, plus one if the
holder of `m_csAddSection` is past its increment, plus one if a start is. That
the lock has one holder is in `IndInv`. `DoneStaysAlways` needs that
`StartDownloading` works on a section that is not complete and has no thread that
could complete it meanwhile (`StartUndone`).

### 4.2 ReaderWriterLockProofs and DownloadListReadersProofs

`LockInv` says who owns `m_csWrite`, that the count is the number of reading
threads, and that the event agrees with the count but for three windows: a
reader between its increment and its `ResetEvent`, one between its decrement and
its `SetEvent`, and a late `SetEvent`. `Exclusion` and `NoLostWakeup` follow.
`IndexSound` extends them to the list: an index is kept only under a read lock
(`HeldInv`), and a thread that is about to reset the event is the only one inside
(`AloneInv`), so that the reset that ends `late` finds no index that has become
stale meanwhile.

### 4.3 RegSaverProofs

`SaverInv` relates the copy to the list (`CopyInv`: what differs shows in a bit
or will), the files to the place in `Save` (`FileInv`) and to the last completed
save (`SafeInv`). `SafeInv` distinguishes no fault from one: before a fault
`.sav` alone holds the last save except between `DeleteFile` and `MoveFile`,
and then `.bak` does. `OneFaultSurvived`, `CleanListIsSaved` and the refinement
`ImplementsWhileCalm` follow: each step that does not begin after a second fault,
or after a download has grown under a `Save`, is one of `DurableList` or a
stutter. With `MaxFaults <= 1` and `MayGrow = FALSE` there are no others, so
that `ImplementsDurable` is plain refinement.

### 4.4 DownloadListsProofs

`ListsInv` adds to the properties who holds which lock at which place (`Owned`),
who carries a download (`Handed`), and that no identifier is above the
counter (`IdsFresh`). `OneBin` needs `Owned`: the temporary bin is protected by
`m_rwlDownloads` alone, and it is because a deletion holds that for writing that no
second one overwrites the first one's bin. `NothingLost` needs `OneBin`, for
`DeleteTmp` and `DeleteBack` each overwrite one of the bins, and `Handed`, for a
thread that takes a download must have no other in hand. `BackFree` needs
`OneBin` too. `KeptInFiles` adds `SavedInv`: between the two writes of `Save` the
list alone is saved and nothing has moved, after them every download that is
kept is saved wherever it has gone. It needs that a download which is being added
is in no list and in no file (`NewInv`) and that all others have an identifier
(`NamedInv`), or a deletion could take what `Save` counts on. The theorems assume the lock to exclude (section 5, `readers_walk`).

### 4.5 DownloadMgrProofs and DownloadMgrMeaningProofs

`MgrInv` is proved inductive with one case per action for each of its parts. For
`RunningKnown` it adds that a caller between its test and the launch is the
only one there and meets no control thread (`ControlInv`). `DoneStays` needs
most of the rest. A thread writes the state of its section in three places: when
it begins, when the section ends, and after its last event. None of them undoes
`SS_DONE` if the section is not complete while its thread runs and if
`DE_SECTIONSTOPPED` is raised for sections that are not complete (`ThreadState`), which
in turn needs that no two threads have the same section (`NewSection`, and `odd`
without `twice`) and that the state is not that of another list (`odd` without
`gone`). A section that is being added is the thread's own from the insertion to
the launch, because `m_csAddSection` is held (`LockInv`) and because a start that
begins meanwhile finds a thread counted (`CountInv`, `HandlerInv`) or sets
`m_bNoNewSections` first (`StartInv`).

*What the flags mean.* `DownloadMgrMeaningProofs` proves the other four properties
of `control_overlaps`, with a second inductive invariant, `MeaningInv`, on top of
`MgrInv`. Unlike `SectInv` it may not assume that no section has two threads and that
no list was cleared under a thread: its parts speak of the threads *counted* by
`m_cRunningThreads`, whose sections are always in the list (`InWork`), and leave the
one in its handler out.

- `CompletesOnce`. The thread that is counted out last holds `m_csDone`, and finds
  the download complete if it is (`LastDecides`); what a handler has found of the others
  stays true, because nobody can be counted out before it is over
  (`HandlerKeeps`). From `OnDone` on the download is `Over`: nothing is left that
  could launch, add or reset a section (`Declared`).
- `FatalReal`. `Outcome` follows the result of a start through the places where it
  is looked at. Other threads write `m_dwState` and `m_lastError` in between, and each
  write leaves one of four reasons standing: a flag that forbids the fatal error, an error
  that a running thread explains, a success, or nothing that runs. It needs that a thread
  writes `m_lastError` only while `DS_DOWNLOADING` is set (`AddFlag`): where the
  handler clears the flag no other thread runs, unless `again`.
- `AttendsThreads`. A thread is launched from the loop, or by a thread that runs
  already; the loop is left when none runs, or after `DS_DONE`, when the download is `Over`
  (`Attended`). The file is closed at those places and in `OnDone` only (`FileInv`).
- `TellsTheTruth`. When the manager asks `IsDone` and the completion has not been
  declared, the last thread has yet to do it (`LastDecides`), which is `stop`, or a thread
  runs and so does its control thread, which is `late`.

The steps of the sections are first sorted into fifteen kinds (`Kinds`), so that each
part is proved kind by kind; the parts about flags are proved action by action.

The attempt to prove `FatalReal` refuted it as it had been stated. With three sections
(the run had two) TLC found the overlap `again`: the last thread, in its handler, has
found nothing running; the control thread launches another section thread; the
handler clears `DS_DOWNLOADING`; the new thread's `AddSection` writes its error into
`m_lastError` while the control thread tests it after the next start, and
the loop ends with a fatal error while sections are running. The overlap was added to
the model. With it `twice`, which had covered part of it, is no longer an exception of
any of the four.

### 4.6 ProcessDownloadsProofs

`TypeCorrect` needs that a pass is at a download of the list while it looks and
acts (`Walks`), which rests on the well-foundedness of the naturals: what is left
of the list has a first element. `WithinLimit` is proved from `Counted`: the count
that a call of `StartDownloads` keeps is never below the number of downloads
that run, as long as no other thread has started one since; downloads that end
only make it too large. `OnlyQueued` is proved from `Asking`: what the manager
has noted for a start was in the queue when the pass looked at it, and is there
still unless something has touched it. The difficulty is that looking at a download
forgets what has touched it before; so what has been noted lies behind the place
of the pass, and a pass leaves nothing behind for the next one. A download
accepted while it runs need not be in the queue: it is noted only if it ends
before `Act` reads `IsRunning` again.

`QueueGoesOn` proves `NeverStuck`, for servers whose limit is above 0 (no download
of another server can ever start). Its invariant `QueueInv` has two halves. Once
something is pending (`Pending`: a request, a user between a change and its
request, an end not reported), it is so until the next pass has begun
(`ExcuseKept`): no event is lost between the clearing of the request and the pass,
and a deletion that disables the manager wakes it afterwards. In a state with
nothing pending and nothing running, the pass in progress has found nothing running
either, so that its budgets are whole until it accepts a download, and whatever it
has passed by is answered by something that it is sure to start (`Attended`).

### 4.7 Only model-checked

Every safety property of a passing run is stated by a theorem. What remains are the
liveness properties (`ComesToRest`, `WriterGetsIn`, `EventuallySaved`,
`StopHonoured`, `RunGoesOn`). Liveness under
fairness and `ENABLED`, induction over data and `RECURSIVE` operators are beyond
the prover; the modules declare no `RECURSIVE` operator.

## 5. Where the code disagrees with what is said of it

- `readers_walk`. `operator []` asserts that the index is within the list
  (`vmsPersistObject.h:151`), and its callers rely on the read lock for it. A reader that
  leaves decrements the count (`vmsReaderWriterLock.h:41`) and signals the event
  (line 42) in two steps. If another reader comes in between, the event is
  signaled while there is a reader, a writer gets in beside it, and the element
  the reader has tested for may be gone. `ExcludedUnlessLate` shows that this is
  the only way.
- `saver_grow`. The interface promises that the list is protected from a power
  failure (`Language/eng.lng:389`). `Save` measures the downloads in one pass and copies them in
  another. One that needs more room by then is skipped though its size is counted; the file
  written does not load, replaces the good one, and is reported as saved.
- `lists_kept`. The same promise. `Save` writes the list, gives its lock up, and
  writes the recycle bin under another lock. A download that is restored in
  between is in neither file, although earlier ones had it, until the next
  `Save`. A deletion makes the window wider: while it lasts, the bin is in a
  temporary list that `Save` does not write. `ListKeptUnlessMoved` shows that such an
  overlap is the only way.

No run is about two faults in a row, which break the same promise: a stop between
`DeleteFile` and `MoveFile`, or a `MoveFile` that fails, leaves `.bak` the only
copy. `Load` reads it, but the next `Save` truncates it first
(`fsDownloadRegSaver.cpp:235`), and a second stop before that save is complete
loses the list. `SurvivesOneFault` shows that one fault does not.

## 6. Abstractions and limits

*Downloader.* The size of the file is known, there is one server and its copy does
not change; no redirect, no mirror, no preview of an archive. Left out as well: speed
limits, the pause `bSleep`, ASCII mode of FTP, which extends the end of the last
section by 100, and the special case of one mail server. The cache keeps its
size, which the code redistributes among the sections. The search for the largest
section is one step, and so is an update of `m_cBaseSectCreatingNow`, for two never
overlap before `blind`: those of `CreateAdditionalSection` hold `m_csAddSection`,
and while `StartDownloading` or `CreateMainSection` works nobody adds another
section (`StartInv`). The owner's test
`IsSectionCreatingNow` before it adds a section is left open: it may call at any
time, which allows more than the code does. `StopSection` is not modelled.
`m_cThreads` is not either: only `IsDownloading`, `ResetSections` and the
destructor read it.

*Control thread.* Its downloader is a reduction of the one in
`InternetDownloader`: no bytes, `m_cRunningThreads++` and `--` in one step each
(what a lost update does to a start is `RunNotMissed`; what it does to the control
thread is not looked into), a section that reconnects counts as one that
downloads, and the choice of the section to cut is left out. The steps of two
control threads that two callers have launched (`two`) are not modelled; those of a
thread that ends and the next one are. A new address or size
(`m_bURLUpdated`, `DS_NEEDRESTARTFROM`), `QuerySize`, `StopSection`, the policies
`DFEP_ONLYNOTIFY` and those of one video site, how the file is named and created, and what
the manager does with an event beyond noting it are left out.

*Lock.* The event and the interlocked operations are sequentially consistent. A
writer's own read locks are no-ops and left out. That no thread asks for the write lock
with a read lock in its hands is an assumption: no caller found does.

*Saver.* A file is complete or does not load; a rename is atomic, and data written is
on disk once `FlushFileBuffers` has returned. The readers of older formats of the
list are not modelled.

*Two lists.* `m_rwlDownloads` excludes, and each of the two lists is written to
disk in one step, which `ReaderWriterLock` and `RegSaver` look into.
What is deleted from a list is freed in a thread of its own, with the files,
later; that thread changes none of the state here. The settings of the bin do not change
(`ReadDeletedSettings`). The walk of the interface over the bin
(`Get_DeletedDownload`) is left out. `m_bRestoringNow` is only waited for, and so are
the locks: nobody is obliged to go on, and no liveness is claimed.

*Queue.* One bit says whether a download runs; how it does is in `DownloadMgr`.
The order of the list does not change. Left out: BitTorrent and streaming
downloads, whose end returns from the handler without asking for a pass; mirrors;
the time limit `m_dwPDTimeLimit` and `m_bAllowStart`, which stop a pass when the
program exits; the retries of `m_dldErrorsMap`; traffic limits; what is done with a
complete download. Whether a section may be added to a download that runs is
decided elsewhere and left open. No fairness is assumed: `NeverStuck` is about
states in which nothing is on its way.

What the model showed beside the properties:

- Two calls of `StartDownloads` at once each count what runs before the other
  starts anything, and exceed "Maximum number of running downloads"
  (`Language/eng.lng:715`) together (`mixed`).
- `StartDownloads` counts a download that runs already once more, so that it may
  queue the next one within the limit, and queues it without asking for a pass
  (`unseen`): it waits until something else asks.
- A download that a user has started and that is not in the queue is stopped by a
  pass that it does not fit, and is never started again.
- A start of a download that is being stopped is lost: `StartDownloading` returns
  at once when the download runs, and does not take the stop back.
- `RebuildServerList` tests `vMirrsCalculated` the wrong way round: connections
  that are being opened are never counted.

*Bounds.* `MaxSections`, `MaxRead`, `CacheSize`, `SpeedAhead`, `MaxFaults`,
`MaxStarts`, `MaxNest`, `MaxSize`, `LastVersion`, `MaxBatch`, `MaxCrashes`,
`MaxThreads`, `MaxCalls`, `MaxEnds`, `UIntMax`, and the set `Overlapping`. The proofs hold for all values of
them, so what they prove does not depend on a bound.

## 7. Plan

In this order:

1. `InternetDownloader`: `StopSection` (state `SS_NEEDSTOP`; hazard at line 2634),
   then size changes on resume (line 2212), with the invariant.
2. `DownloadLists`: changes of the settings of the bin, the walk of the
   interface over it, and an abstract specification (each download in the list, in
   the bin or deleted) that the module implements.
3. The refinement between the downloader of `DownloadMgr` and
   `InternetDownloader` (threads run, sections complete, all end).
4. `ProcessDownloads`: what is done with a complete download (move, delete,
   automatic start of others), retries after an error, the groups' counters.
5. `ScheduleMgr`, then the BitTorrent manager.

Runs that ask the same question of a module are merged as modules are added.
