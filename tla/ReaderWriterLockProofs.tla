------------------------ MODULE ReaderWriterLockProofs ------------------------
(***************************************************************************)
(* LockInv is an invariant of the lock for any number of threads, and with *)
(* it the exclusion and the wake-up that the runs check.                   *)
(***************************************************************************)
EXTENDS ReaderWriterLock, FiniteSetTheorems, TLAPS

-----------------------------------------------------------------------------
(* The count.                                                              *)

\* Counted is finite, and its cardinality a natural number.
LEMMA CountedFinite ==
  /\ IsFiniteSet(Counted) /\ Cardinality(Counted) \in Nat
  /\ Cardinality(Counted) = 0 <=> Counted = {}
<1>1. IsFiniteSet(Counted)
  BY ThreadAssumption, FS_Subset DEF Counted
<1> QED BY <1>1, FS_CardinalityType, FS_EmptySet

\* The count is right again when one thread has been added to Counted.
LEMMA CountUp ==
  ASSUME CountInv, NEW t, t \notin Counted,
         Counted' = Counted \cup {t}, cTotal' = cTotal + 1
  PROVE  CountInv'
<1>1. Cardinality(Counted \cup {t}) = Cardinality(Counted) + 1
  BY CountedFinite, FS_AddElement
<1> QED BY <1>1 DEF CountInv

\* The count is right again when one thread has been taken from Counted.
LEMMA CountDown ==
  ASSUME CountInv, NEW t, t \in Counted,
         Counted' = Counted \ {t}, cTotal' = cTotal - 1
  PROVE  CountInv'
<1>1. Cardinality(Counted \ {t}) = Cardinality(Counted) - 1
  BY CountedFinite, FS_RemoveElement
<1> QED BY <1>1 DEF CountInv

\* The count is right as long as neither it nor Counted changes.
LEMMA CountSame ==
  ASSUME CountInv, Counted' = Counted, cTotal' = cTotal
  PROVE  CountInv'
BY DEF CountInv
-----------------------------------------------------------------------------
(* AcquireReaderLock keeps the invariant.                                  *)

\* A thread that begins to read takes m_csWrite.
LEMMA ReadEnterInv ==
  ASSUME LockInv, NEW t \in Thread, ReadEnter(t) PROVE LockInv'
<1> USE DEF LockInv, ReadEnter, Goto, Reading, Writing
<1>1. TypeOK' BY DEF TypeOK
<1>2. OwnerInv' BY ThreadAssumption DEF OwnerInv, TypeOK
<1>3. Counted' = Counted BY DEF Counted, TypeOK
<1>4. CountInv' BY <1>3, CountSame
<1>5. EventInv' BY DEF EventInv, TypeOK
<1> QED BY <1>1, <1>2, <1>4, <1>5 DEF TypeOK

\* A thread is counted, and is the first or one more.
LEMMA ReadCountInv ==
  ASSUME LockInv, NEW t \in Thread, ReadCount(t) PROVE LockInv'
<1> USE DEF LockInv, ReadCount, Goto, Reading, Writing
<1>1. TypeOK' BY NestAssumption DEF TypeOK
<1>2. OwnerInv' BY ThreadAssumption DEF OwnerInv, TypeOK
<1>3. ~Reading(t) BY DEF OwnerInv
<1>4. t \notin Counted BY <1>3 DEF Counted
<1>5. Counted' = Counted \cup {t} BY DEF Counted, TypeOK
<1>6. CountInv' BY <1>4, <1>5, CountUp
<1>7. EventInv' BY CountedFinite DEF EventInv, TypeOK, CountInv
<1>8. \A w \in Thread : ~Writing(w)' BY ThreadAssumption DEF OwnerInv, TypeOK
<1> QED BY <1>1, <1>2, <1>6, <1>7, <1>8

\* The first reader resets the event.
LEMMA ReadResetInv ==
  ASSUME LockInv, NEW t \in Thread, ReadReset(t) PROVE LockInv'
<1> USE DEF LockInv, ReadReset, Goto, Reading, Writing
<1>1. TypeOK'
  <2>1. 1 \in 0..MaxNest BY NestAssumption
  <2>2. cReads' \in [Thread -> 0..MaxNest] BY <2>1 DEF TypeOK
  <2>3. pc' \in [Thread -> {"out", "count", "reset", "set", "wait"}] BY DEF TypeOK
  <2> QED BY <2>2, <2>3 DEF TypeOK
<1>2. OwnerInv' BY ThreadAssumption DEF OwnerInv, TypeOK
<1>3. Counted' = Counted BY DEF Counted, TypeOK
<1>4. CountInv' BY <1>3, CountSame
<1>5. t \in Counted BY DEF Counted
<1>6. cTotal # 0 BY <1>5, CountedFinite DEF CountInv
<1>7. EventInv' BY <1>6 DEF EventInv, TypeOK
<1>8. \A w \in Thread : ~Writing(w)' BY ThreadAssumption DEF OwnerInv, TypeOK
<1> QED BY <1>1, <1>2, <1>4, <1>7, <1>8

\* A nested read lock is only counted by its thread.
LEMMA ReadAgainInv ==
  ASSUME LockInv, NEW t \in Thread, ReadAgain(t) PROVE LockInv'
<1> USE DEF LockInv, ReadAgain, Reading, Writing
<1>1. TypeOK' BY NestAssumption DEF TypeOK
<1>2. OwnerInv' BY ThreadAssumption DEF OwnerInv, TypeOK
<1>3. Counted' = Counted BY DEF Counted, TypeOK
<1>4. CountInv' BY <1>3, CountSame
<1>5. EventInv' BY DEF EventInv, TypeOK
<1> QED BY <1>1, <1>2, <1>4, <1>5 DEF TypeOK
-----------------------------------------------------------------------------
(* ReleaseReaderLock keeps the invariant.                                  *)

\* A thread gives up a read lock; the last reader is about to set the event.
LEMMA ReadReleaseInv ==
  ASSUME LockInv, NEW t \in Thread, ReadRelease(t) PROVE LockInv'
<1> USE DEF LockInv, ReadRelease, Goto, Reading, Writing
<1>1. t \in Counted BY DEF Counted
<1>2. cTotal \in Nat \ {0} BY <1>1, CountedFinite DEF CountInv
<1>3. TypeOK'
  <2>1. cReads[t] - 1 \in 0..MaxNest BY NestAssumption DEF TypeOK
  <2>2. cReads' \in [Thread -> 0..MaxNest] BY <2>1 DEF TypeOK
  <2>3. pc' \in [Thread -> {"out", "count", "reset", "set", "wait"}] BY DEF TypeOK
  <2>4. cTotal' \in Nat BY <1>2
  <2> QED BY <2>2, <2>3, <2>4 DEF TypeOK
<1>4. OwnerInv'
  <2>1. \A s \in Thread : s # t => cReads'[s] = cReads[s] /\ pc'[s] = pc[s]
    BY DEF TypeOK
  <2>2. pc'[t] \in {"out", "set"} BY DEF TypeOK
  <2>3. Reading(t)' => pc'[t] = "out"
    <3>1. cReads'[t] = cReads[t] - 1 BY DEF TypeOK
    <3>2. cReads[t] = 1 => ~Reading(t)' BY <3>1
    <3> QED BY <3>2
  <2>4. writer # t BY ThreadAssumption DEF OwnerInv, TypeOK
  <2> QED BY <2>1, <2>2, <2>3, <2>4 DEF OwnerInv, TypeOK
<1>5. CountInv'
  <2>1. CASE cReads[t] = 1
    <3>1. Counted' = Counted \ {t} BY <2>1 DEF Counted, TypeOK
    <3> QED BY <1>1, <2>1, <3>1, CountDown
  <2>2. CASE cReads[t] # 1
    <3>1. Counted' = Counted BY <2>2 DEF Counted, TypeOK
    <3> QED BY <2>2, <3>1, CountSame
  <2> QED BY <2>1, <2>2
<1>6. EventInv' BY <1>2 DEF EventInv, TypeOK
<1>7. \A w \in Thread : Writing(w)' => Writing(w)
  BY DEF OwnerInv, TypeOK
<1> QED BY <1>2, <1>3, <1>4, <1>5, <1>6, <1>7 DEF TypeOK

\* The event is signaled, late when somebody has come in to read.
LEMMA ReadSetInv ==
  ASSUME LockInv, NEW t \in Thread, ReadSet(t) PROVE LockInv'
<1> USE DEF LockInv, ReadSet, Goto, Reading, Writing
<1>1. TypeOK' BY DEF TypeOK
<1>2. OwnerInv' BY DEF OwnerInv, TypeOK
<1>3. Counted' = Counted BY DEF Counted, TypeOK
<1>4. CountInv' BY <1>3, CountSame
<1>5. EventInv' BY DEF EventInv, TypeOK
<1> QED BY <1>1, <1>2, <1>4, <1>5 DEF TypeOK
-----------------------------------------------------------------------------
(* The writer's calls keep the invariant.                                  *)

\* A writer takes m_csWrite and goes on to wait.
LEMMA WriteEnterInv ==
  ASSUME LockInv, NEW t \in Thread, WriteEnter(t) PROVE LockInv'
<1> USE DEF LockInv, WriteEnter, Goto, Reading, Writing
<1>1. TypeOK' BY NestAssumption DEF TypeOK
<1>2. OwnerInv' BY ThreadAssumption DEF OwnerInv, TypeOK
<1>3. Counted' = Counted BY DEF Counted, TypeOK
<1>4. CountInv' BY <1>3, CountSame
<1>5. EventInv' BY DEF EventInv, TypeOK
<1>6. \A w \in Thread : ~Writing(w)' BY DEF TypeOK
<1> QED BY <1>1, <1>2, <1>4, <1>5, <1>6

\* A writer that comes in while there are readers saw an event signaled late.
LEMMA WriteWaitInv ==
  ASSUME LockInv, NEW t \in Thread, WriteWait(t) PROVE LockInv'
<1> USE DEF LockInv, WriteWait, Goto, Reading, Writing
<1>1. TypeOK' BY DEF TypeOK
<1>2. OwnerInv' BY DEF OwnerInv, TypeOK
<1>3. Counted' = Counted BY DEF Counted, TypeOK
<1>4. CountInv' BY <1>3, CountSame
<1>5. EventInv' BY DEF EventInv, TypeOK
<1>6. \A s \in Thread : pc[s] # "reset" BY ThreadAssumption DEF OwnerInv
<1>7. cTotal > 0 => late BY <1>6 DEF EventInv
<1> QED BY <1>1, <1>2, <1>4, <1>5, <1>7

\* A nested write lock.
LEMMA WriteAgainInv ==
  ASSUME LockInv, NEW t \in Thread, WriteAgain(t) PROVE LockInv'
<1> USE DEF LockInv, WriteAgain, Reading, Writing
<1>1. TypeOK' BY NestAssumption DEF TypeOK
<1>2. OwnerInv' BY ThreadAssumption DEF OwnerInv, TypeOK
<1>3. Counted' = Counted BY DEF Counted
<1>4. CountInv' BY <1>3, CountSame
<1>5. EventInv' BY DEF EventInv
<1> QED BY <1>1, <1>2, <1>4, <1>5

\* The last write lock gives m_csWrite back.
LEMMA WriteReleaseInv ==
  ASSUME LockInv, NEW t \in Thread, WriteRelease(t) PROVE LockInv'
<1> USE DEF LockInv, WriteRelease, Reading, Writing
<1>1. cWrites # 0 BY ThreadAssumption DEF OwnerInv
<1>2. TypeOK' BY <1>1, NestAssumption DEF TypeOK
<1>3. OwnerInv' BY <1>1, ThreadAssumption DEF OwnerInv, TypeOK
<1>4. Counted' = Counted BY DEF Counted
<1>5. CountInv' BY <1>4, CountSame
<1>6. EventInv' BY DEF EventInv
<1>7. \A w \in Thread : Writing(w)' => Writing(w) BY ThreadAssumption
<1> QED BY <1>2, <1>3, <1>5, <1>6, <1>7
-----------------------------------------------------------------------------
\* The lock begins with nobody inside and the event signaled.
LEMMA InitInv == Init => LockInv
<1> SUFFICES ASSUME Init PROVE LockInv OBVIOUS
<1> USE DEF Init, Reading, Writing
<1>1. TypeOK
  <2>1. 0 \in 0..MaxNest BY NestAssumption
  <2> QED BY <2>1 DEF TypeOK
<1>2. OwnerInv BY DEF OwnerInv
<1>3. Counted = {} BY DEF Counted
<1>4. CountInv BY <1>3, FS_EmptySet DEF CountInv
<1>5. EventInv BY DEF EventInv
<1> QED BY <1>1, <1>2, <1>4, <1>5 DEF LockInv

\* Every step of every thread keeps the invariant.
LEMMA StepInv == LockInv /\ [Next]_lockVars => LockInv'
<1> SUFFICES ASSUME LockInv, [Next]_lockVars PROVE LockInv' OBVIOUS
<1>1. ASSUME NEW t \in Thread, Acquire(t) PROVE LockInv'
  BY <1>1, ReadEnterInv, ReadAgainInv, WriteEnterInv, WriteAgainInv DEF Acquire
<1>2. ASSUME NEW t \in Thread, Proceed(t) PROVE LockInv'
  BY <1>2, ReadCountInv, ReadResetInv, ReadSetInv, WriteWaitInv DEF Proceed
<1>3. ASSUME NEW t \in Thread, Release(t) PROVE LockInv'
  BY <1>3, ReadReleaseInv, WriteReleaseInv DEF Release
<1>4. ASSUME UNCHANGED lockVars PROVE LockInv'
  BY <1>4 DEF lockVars, LockInv, TypeOK, OwnerInv, CountInv, Counted, EventInv,
              Reading, Writing
<1> QED BY <1>1, <1>2, <1>3, <1>4 DEF Next

\* The count of reading threads, the owner of m_csWrite and the event agree
\* with what the threads do, in every state of the lock.
THEOREM LockInvariance == Spec => []LockInv
BY InitInv, StepInv, PTL DEF Spec

\* No writer is inside with a reader unless the event was signaled late.
THEOREM Exclusion == Spec => []ExcludedUnlessLate
<1>1. LockInv => ExcludedUnlessLate
  <2> SUFFICES ASSUME LockInv, NEW r \in Thread, NEW w \in Thread,
                      Reading(r), Writing(w)
               PROVE  late
    BY DEF ExcludedUnlessLate
  <2>1. Counted # {} BY DEF Counted
  <2>2. cTotal > 0 BY <2>1, CountedFinite DEF LockInv, CountInv
  <2> QED BY <2>2 DEF LockInv
<1> QED BY <1>1, LockInvariance, PTL

\* A writer never waits for readers that have all gone.
THEOREM NoLostWakeup == Spec => []WriterWoken
<1>1. LockInv => WriterWoken
  BY CountedFinite DEF LockInv, CountInv, EventInv, WriterWoken
<1> QED BY <1>1, LockInvariance, PTL
=============================================================================
