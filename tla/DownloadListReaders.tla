------------------------- MODULE DownloadListReaders -------------------------
(***************************************************************************)
(* The list of downloads under its lock.  Readers of fsDownloadsMgr walk   *)
(* m_vDownloads by index, "for (i = 0; i < size (); i++) ... [i]", under a  *)
(* read lock; DownloadsList_Add and DownloadsList_Del change the list under *)
(* a write lock.                                                           *)
(***************************************************************************)
EXTENDS ReaderWriterLock

CONSTANT MaxSize   \* bound: length of the list

ASSUME SizeAssumption == MaxSize \in Nat

VARIABLES
  size,    \* m_vDownloads.size ()
  index    \* the index a reader has tested and not yet used; -1 if none

vars == <<lockVars, size, index>>

ListInit == Init /\ size = 0 /\ index = [t \in Thread |-> -1]

\* A reader compares its index with the size of the list ...
TestIndex(t) ==
  /\ Reading(t) /\ index[t] = -1
  /\ \E i \in 0..(size - 1) : index' = [index EXCEPT ![t] = i]
  /\ UNCHANGED <<lockVars, size>>

\* ... and then takes the element.
UseIndex(t) ==
  /\ index[t] # -1 /\ index' = [index EXCEPT ![t] = -1]
  /\ UNCHANGED <<lockVars, size>>

DownloadsList_Add(t) ==
  /\ Writing(t) /\ size < MaxSize /\ size' = size + 1
  /\ UNCHANGED <<lockVars, index>>

DownloadsList_Del(t) ==
  /\ Writing(t) /\ size > 0 /\ size' = size - 1
  /\ UNCHANGED <<lockVars, index>>

\* The lock is not released between the test and the use.
Lock(t) ==
  /\ Acquire(t) \/ Proceed(t) \/ (index[t] = -1 /\ Release(t))
  /\ UNCHANGED <<size, index>>

ListNext ==
  \E t \in Thread : \/ Lock(t) \/ TestIndex(t) \/ UseIndex(t)
                    \/ DownloadsList_Add(t) \/ DownloadsList_Del(t)

\* A read lock is given up, and in particular the outermost one.
Leave(t) == Lock(t) /\ ReadRelease(t)
LeaveList(t) == cReads[t] = 1 /\ Leave(t)

\* Calls in progress go on.  Every walk of the list is a bounded loop, so the
\* locks it holds are given up, however often it tests and takes an element.
ListFairness ==
  \A t \in Thread : /\ WF_vars(Lock(t) /\ Proceed(t)) /\ WF_vars(UseIndex(t))
                    /\ SF_vars(Leave(t)) /\ SF_vars(LeaveList(t))

ListSpec == ListInit /\ [][ListNext]_vars /\ ListFairness
-----------------------------------------------------------------------------
\* The element a reader takes exists: the assertion of operator [].
IndexAsserted == \A t \in Thread : index[t] < size \/ index[t] = -1

\* So it does as long as the event is not signaled late.
IndexSoundUnlessLate == IndexAsserted \/ late

\* A writer that waits gets in: new readers are kept out by m_csWrite, and the
\* last of the old ones wakes it.
WriterGetsIn == \A t \in Thread : pc[t] = "wait" ~> Writing(t)
=============================================================================
