----------------------------- MODULE DownloadMgrInv ---------------------------
(***************************************************************************)
(* The inductive invariants of the control thread: MgrInv, proved in       *)
(* DownloadMgrProofs, and MeaningInv, proved in DownloadMgrMeaningProofs.  *)
(* TLC found its parts wrong or right on small instances; no run repeats   *)
(* that.  The parts about the sections hold as long as the list was not    *)
(* cleared under a section thread and no section got a second one          *)
(* (NoGhost).                                                              *)
(***************************************************************************)
EXTENDS DownloadMgr, FiniteSets

OneControl == \A c, d \in Controls : c = d

\* A caller that is about to launch the control thread is alone, and so will
\* that thread be.
ControlInv ==
  /\ bThreadRunning <=> Controls # {}
  /\ OneControl
  /\ "two" \notin odd =>
       \A p \in Caller : pc[p] = "go" =>
         Controls = {} /\ \A q \in Caller : pc[q] = "go" => p = q

\* Who is in a critical section holds its lock.
LockInv ==
  /\ \A a \in Actor : pc[a] \in AddPC \cup {"main_open", "main_launch"} => csAdd = a
  /\ \A t \in Thread : pc[t] \in HandlerPC => csDone = t
  /\ \A t \in Thread : csDone = t => pc[t] \in HandlerPC \cup AddPC

\* The list has room for a section that is being added.
SlotInv ==
  /\ \A a \in Actor : pc[a] \in {"add_open", "add_insert"} => n < MaxSections
  /\ \A c \in Ctl : pc[c] = "main_open" => n = 0
  /\ \A c \in Ctl : pc[c] = "main_launch" => n = 1
  /\ \A c \in Ctl : pc[c] = "sleep" => attempt < MaxAttempts

\* The threads that m_cRunningThreads counts: not the one in its handler.
Counted ==
  {t \in Thread : \/ pc[t] \in {"begin", "run", "leave"}
                  \/ pc[t] \in AddPC /\ csDone # t}

CountInv == cRunning = Cardinality(Counted)

HasSection == \A t \in Thread : pc[t] # "none" => sect[t] # 0

\* The section of a thread is not complete before the thread ends, and not
\* complete when its handler is that of DE_SECTIONSTOPPED.
ThreadState ==
  /\ \A t \in Thread : pc[t] \in {"begin", "run"} => state[sect[t]] # "DONE"
  /\ \A t \in Thread : pc[t] \in AddPC /\ csDone # t => state[sect[t]] # "DONE"
  /\ \A t \in Thread : csDone = t => (bSectDone <=> state[sect[t]] = "DONE")

\* A section that has been inserted and not launched is nobody else's.
NewSection ==
  /\ \A a \in Actor : pc[a] = "add_launch" =>
       /\ n > 0 /\ state[n] = "CREATING"
       /\ \A t \in Thread : pc[t] # "none" => sect[t] # n
  /\ \A c \in Ctl : pc[c] = "main_launch" =>
       state[1] = "CREATING" /\ \A t \in Thread : pc[t] = "none"

LiveSections ==
  \A s \in 1..n : state[s] = "DOWNLOADING" =>
    \E t \in Thread : pc[t] # "none" /\ sect[t] = s

\* A handler adds a section while another thread runs, which cannot leave
\* before the handler has, or in vain.
HandlerInv ==
  \A t \in Thread : csDone = t =>
    /\ pc[t] = "done_event" => bSectDone
    /\ pc[t] = "done_add" =>
         DldrRunning \/ IsDone \/ \E c \in Ctl : pc[c] = "add_launch"
    /\ pc[t] = "add_open" => DldrRunning \/ IsDone
    /\ pc[t] \in {"add_insert", "add_launch"} => DldrRunning

\* Nobody adds a section while the sections are started.
StartInv ==
  \A c \in Ctl : pc[c] = "start_sect" =>
    bNoNew /\ \A a \in Actor : pc[a] \notin AddPC

NoGhost == odd \cap {"gone", "twice"} = {}

SectInv ==
  HasSection /\ ThreadState /\ NewSection /\ LiveSections /\ HandlerInv /\ StartInv

\* The inductive invariant: types, locks, counters, and what each place of an
\* actor says of the sections.
MgrInv ==
  /\ TypeOK /\ ControlInv /\ LockInv /\ SlotInv /\ CountInv
  /\ Overlap \subseteq odd
  /\ NoGhost => SectInv
-----------------------------------------------------------------------------
(* What the threads counted, the flags and the outcome of a start say.     *)
(* These parts hold although the list may be cleared under a thread in its *)
(* handler, and a section may have two threads.                            *)

\* The threads whose section may be in work: counted and not about to leave.
Working == {t \in Counted : pc[t] # "leave"}

\* A thread that is counted has a section of the list, and a section in work
\* has such a thread.
InWork ==
  /\ \A t \in Counted : sect[t] \in 1..n
  /\ \A s \in 1..n : state[s] = "DOWNLOADING" => \E t \in Working : sect[t] = s

\* No thread is counted out while a handler runs: what the handler has found
\* of the others stays true, or the download is complete.
HandlerKeeps ==
  \A t \in Thread : csDone = t =>
    /\ pc[t] \in {"done_event", "done_add", "done_close", "done_set"} => bSectDone
    /\ pc[t] = "done_add" =>
         \/ DldrRunning \/ IsDone \/ n = 0
         \/ \E c \in Ctl : pc[c] \in {"main_launch", "add_launch"}
    /\ pc[t] = "add_open" => DldrRunning \/ IsDone
    /\ pc[t] \in {"add_insert", "add_launch"} => DldrRunning

\* Nobody adds a section to an empty list, nor while the sections are started.
StartKeeps ==
  /\ \A a \in Actor : pc[a] \in AddPC => n > 0
  /\ \A c \in Ctl : pc[c] = "start_sect" =>
       /\ bNoNew /\ \A a \in Actor : pc[a] \notin AddPC
       /\ ~bOneStarted => ~DldrRunning

\* A section the control thread has inserted is in nobody's hands.
Fresh ==
  /\ \A c \in Ctl : pc[c] = "main_launch" =>
       ~DldrRunning /\ state[1] \in {"CREATING", "STOPPED"}
  /\ \A c \in Ctl : pc[c] = "add_launch" =>
       state[n] \in {"CREATING", "STOPPED"} /\ \A t \in Counted : sect[t] # n

\* A caller about to launch a control thread is right: there is work to do.
GoInv == \A p \in Caller : pc[p] = "go" => ~DldrRunning /\ ~IsDone

Completing == \E t \in Thread : pc[t] \in {"done_close", "done_set"}

\* The thread counted out last finds the download complete if it is.
LastDecides ==
  /\ "DONE" \in dw => completions > 0
  /\ IsDone /\ ~DldrRunning /\ completions = 0 =>
       \E t \in Thread : pc[t] \in {"done_event", "done_close", "done_set"}

\* All sections are complete, and nobody is left to change one.
Over ==
  /\ IsDone /\ ~DldrRunning
  /\ \A a \in Actor : pc[a] \notin {"add_insert", "add_launch", "main_launch"}
  /\ \A t \in Thread : pc[t] \in {"none", "done_close", "done_set", "end"}
  /\ \A t \in Thread : csDone = t => bSectDone

\* The download is declared complete when it is over, and not again.
Declared ==
  /\ completions > 0 \/ Completing => Over
  /\ completions <= 1 /\ (completions > 0 => ~Completing)

OverInv == "add" \notin odd => Declared

\* A thread adds sections while DS_DOWNLOADING is set, or in vain.
AddFlag ==
  \A t \in Thread : pc[t] \in AddPC => "DOWNLOADING" \in dw \/ (IsDone /\ ~DldrRunning)

\* What the result of a start says of the threads: the flags or the error tell
\* whether one runs, whatever other threads write into the error meanwhile.
OutcomeOf(c) ==
    /\ pc[c] \in StartPC \ {"start"} => ~announced
    /\ pc[c] = "result" =>
         /\ ir = "SUCCESS" => DldrRunning
         /\ ir \in {"ERROR", "BREAK", "STOP"} => ~DldrRunning /\ ~IsDone
    /\ pc[c] \in {"tests", "set_downloading", "sleep", "after"} =>
         \/ dw \cap {"DOWNLOADING", "NEEDSTOP"} # {}
         \/ DldrRunning /\ lastError = "S_FALSE" /\ pc[c] \in {"tests", "after"}
         \/ DldrRunning /\ lastError = "SUCCESS" /\ pc[c] \in {"tests", "set_downloading"}
         \/ ~DldrRunning /\ ~IsDone /\ lastError \notin {"SUCCESS", "S_FALSE"}
    /\ pc[c] = "tests" /\ lastError = "SUCCESS" => DldrRunning
    /\ pc[c] = "set_downloading" => DldrRunning
    /\ pc[c] = "fatal" => ~DldrRunning /\ ~IsDone

Outcome == \A c \in Ctl : OutcomeOf(c)

\* While a thread runs, the control thread is where it starts and stops them.
Attending == \E c \in Ctl : pc[c] \in LoopPC \ {"starting", "fatal"}

Attended == completions = 0 \/ "add" \notin odd => (DldrRunning => Attending)

FlagInv == odd \cap {"early", "again"} = {} => AddFlag /\ Outcome /\ Attended

Finished == completions > 0 \/ \E t \in Thread : pc[t] = "done_set"

\* The file is open while a thread is counted or may be launched.
FileOf(c) ==
  /\ pc[c] \in {"starting", "loop"} => "NEEDSTART" \in dw \/ fileOpen \/ Finished
  /\ pc[c] = "stopcheck" => "NEEDSTOP" \in dw \/ fileOpen \/ Finished
  /\ pc[c] \in {"work", "watchwait"} \cup AddPC => fileOpen \/ Finished
  /\ pc[c] = "main_launch" => fileOpen
  /\ pc[c] = "close" => "DOWNLOADING" \notin dw \/ Finished

FileKept ==
  /\ DldrRunning => fileOpen
  /\ "DOWNLOADING" \in dw => fileOpen \/ Finished
  /\ \A c \in Ctl : FileOf(c)

FileInv == odd \cap {"early", "again", "add"} = {} => FileKept

MeaningInv ==
  /\ InWork /\ HandlerKeeps /\ StartKeeps /\ Fresh /\ GoInv /\ LastDecides
  /\ OverInv /\ FlagInv /\ FileInv /\ ToldTheTruth
=============================================================================
