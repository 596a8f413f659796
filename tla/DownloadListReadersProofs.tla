----------------------- MODULE DownloadListReadersProofs -----------------------
(***************************************************************************)
(* A reader's index stays inside the list for any number of threads, any   *)
(* nesting of their locks and any length of the list, as long as the event *)
(* of the lock is not signaled late.                                       *)
(***************************************************************************)
EXTENDS DownloadListReaders, ReaderWriterLockProofs

\* An index is kept only under a read lock.
HeldInv ==
  /\ size \in Nat /\ index \in [Thread -> Nat \cup {-1}]
  /\ \A t \in Thread : index[t] # -1 => Reading(t)

\* The thread that is about to reset the event is the only one inside.
AloneInv == \A t, u \in Thread : pc[t] = "reset" => ~Reading(u)

WalkInv == LockInv /\ HeldInv /\ AloneInv /\ IndexSoundUnlessLate
-----------------------------------------------------------------------------
\* A step inside the lock changes neither the list nor the indices, and a thread
\* gives up no lock while it keeps an index.
LEMMA LockWalk ==
  ASSUME WalkInv, NEW t \in Thread, Lock(t) PROVE WalkInv'
<1> USE DEF WalkInv, Lock, Reading
<1>1. LockInv'
  <2>1. Next BY DEF Next
  <2> QED BY <2>1, StepInv
<1>2. HeldInv'
  <2>1. \A u \in Thread : index[u] # -1 => Reading(u)'
    <3> SUFFICES ASSUME NEW u \in Thread, index[u] # -1 PROVE Reading(u)'
      OBVIOUS
    <3>1. Reading(u) BY DEF HeldInv
    <3>2. cReads \in [Thread -> 0..MaxNest] BY DEF LockInv, TypeOK
    <3>3. CASE Acquire(t)
      BY <3>1, <3>2, <3>3 DEF Acquire, ReadEnter, ReadAgain, WriteEnter, WriteAgain
    <3>4. CASE Proceed(t)
      BY <3>1, <3>2, <3>4 DEF Proceed, ReadCount, ReadReset, ReadSet, WriteWait
    <3>5. CASE Release(t) /\ index[t] = -1
      BY <3>1, <3>2, <3>5 DEF Release, ReadRelease, WriteRelease
    <3> QED BY <3>3, <3>4, <3>5
  <2> QED BY <2>1 DEF HeldInv
<1>3. AloneInv'
  <2> SUFFICES ASSUME NEW s \in Thread, NEW u \in Thread, pc'[s] = "reset"
               PROVE  ~Reading(u)'
    BY DEF AloneInv
  <2>1. /\ cReads \in [Thread -> 0..MaxNest]
        /\ pc \in [Thread -> {"out", "count", "reset", "set", "wait"}]
    BY DEF LockInv, TypeOK
  <2>2. CASE pc[s] = "reset"
    <3>1. ~Reading(u) /\ ~Reading(t) BY <2>2 DEF AloneInv
    <3>2. csWrite = s BY <2>2 DEF LockInv, OwnerInv
    <3>3. pc[t] \in {"count", "reset"} => t = s BY <3>2 DEF LockInv, OwnerInv
    <3>4. CASE Acquire(t)
      BY <2>1, <3>1, <3>4 DEF Acquire, ReadEnter, ReadAgain, WriteEnter, WriteAgain
    <3>5. CASE Proceed(t)
      BY <2>1, <2>2, <3>1, <3>3, <3>5
         DEF Proceed, ReadCount, ReadReset, ReadSet, WriteWait, Goto
    <3>6. CASE Release(t)
      BY <2>1, <3>1, <3>6, ThreadAssumption, <3>2
         DEF Release, ReadRelease, WriteRelease, Writing, LockInv, OwnerInv
    <3> QED BY <3>4, <3>5, <3>6
  <2>3. CASE pc[s] # "reset"
    <3>1. s = t /\ ReadCount(t) /\ cTotal = 0
      BY <2>1, <2>3 DEF Acquire, ReadEnter, ReadAgain, WriteEnter, WriteAgain,
                        Proceed, ReadCount, ReadReset, ReadSet, WriteWait,
                        Release, ReadRelease, WriteRelease, Goto
    <3>2. Counted = {} BY <3>1, CountedFinite DEF LockInv, CountInv
    <3> QED BY <3>1, <3>2 DEF ReadCount, Counted
  <2> QED BY <2>2, <2>3
<1>4. IndexSoundUnlessLate'
  <2>1. CASE ReadReset(t)
    <3>1. \A u \in Thread : index[u] = -1 BY <2>1 DEF ReadReset, HeldInv, AloneInv
    <3> QED BY <3>1 DEF IndexSoundUnlessLate, IndexAsserted
  <2>2. CASE ~ReadReset(t)
    <3>1. late => late'
      BY <2>2 DEF Acquire, ReadEnter, ReadAgain, WriteEnter, WriteAgain,
                  Proceed, ReadCount, ReadSet, WriteWait,
                  Release, ReadRelease, WriteRelease
    <3> QED BY <3>1 DEF IndexSoundUnlessLate, IndexAsserted
  <2> QED BY <2>1, <2>2
<1> QED BY <1>1, <1>2, <1>3, <1>4

\* What a step of the list leaves alone when it leaves the lock alone.
LEMMA LockKept ==
  ASSUME WalkInv, UNCHANGED lockVars
  PROVE  /\ LockInv' /\ AloneInv'
         /\ \A t \in Thread : Reading(t)' <=> Reading(t)
<1>1. LockInv' BY StepInv DEF WalkInv
<1>2. AloneInv' BY DEF WalkInv, AloneInv, lockVars, Reading
<1> QED BY <1>1, <1>2 DEF lockVars, Reading

\* A reader tests an index against the size, and takes the element.
LEMMA IndexWalk ==
  ASSUME WalkInv, NEW t \in Thread, TestIndex(t) \/ UseIndex(t) PROVE WalkInv'
<1>1. UNCHANGED lockVars BY DEF TestIndex, UseIndex
<1>2. size' = size /\ \A u \in Thread : u # t => index'[u] = index[u]
  BY DEF TestIndex, UseIndex, WalkInv, HeldInv
<1>3. \/ index'[t] = -1
      \/ Reading(t) /\ index'[t] \in Nat /\ index'[t] < size
  BY DEF TestIndex, UseIndex, WalkInv, HeldInv
<1>4. index' \in [Thread -> Nat \cup {-1}]
  BY DEF TestIndex, UseIndex, WalkInv, HeldInv
<1>5. HeldInv' BY <1>1, <1>2, <1>3, <1>4, LockKept DEF HeldInv, WalkInv
<1>6. IndexSoundUnlessLate'
  BY <1>1, <1>2, <1>3 DEF WalkInv, IndexSoundUnlessLate, IndexAsserted, lockVars
<1> QED BY <1>1, <1>5, <1>6, LockKept DEF WalkInv

\* The list grows or shrinks under a write lock: a reader that is inside
\* nevertheless came in before the event was signaled late.
LEMMA ListWalk ==
  ASSUME WalkInv, NEW t \in Thread, DownloadsList_Add(t) \/ DownloadsList_Del(t)
  PROVE  WalkInv'
<1>1. UNCHANGED lockVars /\ index' = index /\ Writing(t)
  BY DEF DownloadsList_Add, DownloadsList_Del
<1>2. size' \in Nat BY DEF DownloadsList_Add, DownloadsList_Del, WalkInv, HeldInv
<1>3. HeldInv' BY <1>1, <1>2, LockKept DEF HeldInv, WalkInv
<1>4. IndexSoundUnlessLate'
  <2>1. CASE late BY <1>1, <2>1 DEF IndexSoundUnlessLate, lockVars
  <2>2. CASE ~late
    <3>1. \A u \in Thread : ~Reading(u)
      <4>1. SUFFICES ASSUME NEW u \in Thread, Reading(u) PROVE FALSE OBVIOUS
      <4>2. Counted # {} BY <4>1 DEF Counted
      <4>3. cTotal > 0
        BY <4>2, CountedFinite DEF WalkInv, LockInv, CountInv
      <4> QED BY <1>1, <2>2, <4>3 DEF WalkInv, LockInv
    <3>2. \A u \in Thread : index[u] = -1 BY <3>1 DEF WalkInv, HeldInv
    <3> QED BY <1>1, <3>2 DEF IndexSoundUnlessLate, IndexAsserted
  <2> QED BY <2>1, <2>2
<1> QED BY <1>1, <1>3, <1>4, LockKept DEF WalkInv
-----------------------------------------------------------------------------
\* Readers of fsDownloadsMgr that walk m_vDownloads by index never take an
\* element that DownloadsList_Del has just made the list too short for: the
\* assertion of operator [] holds unless vmsReaderWriterLock signaled late.
THEOREM IndexSound == ListSpec => []IndexSoundUnlessLate
<1>1. ListInit => WalkInv
  <2> SUFFICES ASSUME ListInit PROVE WalkInv OBVIOUS
  <2>1. LockInv BY InitInv DEF ListInit
  <2>2. HeldInv /\ AloneInv /\ IndexSoundUnlessLate
    BY DEF ListInit, Init, HeldInv, AloneInv, IndexSoundUnlessLate, IndexAsserted
  <2> QED BY <2>1, <2>2 DEF WalkInv
<1>2. WalkInv /\ [ListNext]_vars => WalkInv'
  <2> SUFFICES ASSUME WalkInv, [ListNext]_vars PROVE WalkInv' OBVIOUS
  <2>1. CASE UNCHANGED vars
    <3>1. UNCHANGED lockVars /\ UNCHANGED <<size, index>> BY <2>1 DEF vars
    <3>2. HeldInv' BY <3>1, LockKept DEF HeldInv, WalkInv
    <3>3. IndexSoundUnlessLate'
      BY <3>1 DEF WalkInv, IndexSoundUnlessLate, IndexAsserted, lockVars
    <3> QED BY <3>1, <3>2, <3>3, LockKept DEF WalkInv
  <2> QED BY <2>1, LockWalk, IndexWalk, ListWalk DEF ListNext
<1>3. WalkInv => IndexSoundUnlessLate BY DEF WalkInv
<1> QED BY <1>1, <1>2, <1>3, PTL DEF ListSpec
=============================================================================
