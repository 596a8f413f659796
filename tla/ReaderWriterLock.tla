--------------------------- MODULE ReaderWriterLock ---------------------------
(***************************************************************************)
(* Class vmsReaderWriterLock, which guards the list of downloads           *)
(* (m_rwlDownloads) and the BitTorrent session.                            *)
(*                                                                         *)
(* The lock is a critical section m_csWrite, which a writer keeps and a    *)
(* new reader passes through, a count of reading threads, and an event,    *)
(* m_hevNoReads, that a writer waits for.  A reader that leaves decrements *)
(* the count and signals the event in two steps and without m_csWrite:     *)
(* another reader may come in between them.                                *)
(*                                                                         *)
(* A thread's read locks nest, and are counted in a TLS slot; a writer's   *)
(* locks nest too.  A writer's own read locks are no-ops and do not appear *)
(* here.  No thread that reads asks to write, and locks are released in    *)
(* the reverse of the order they are taken in, as the callers do.          *)
(***************************************************************************)
EXTENDS Integers, FiniteSets

CONSTANTS
  Thread,
  MaxNest,   \* bound: how deep a thread's locks nest
  None

ASSUME ThreadAssumption == IsFiniteSet(Thread) /\ None \notin Thread
ASSUME NestAssumption == MaxNest \in Nat \ {0}

VARIABLES
  cReads,    \* m_cTlsReadLocks of each thread
  cTotal,    \* m_cTotalThreadsHavingReadLocks
  noReads,   \* m_hevNoReads is signaled
  csWrite,   \* the owner of m_csWrite
  writer,    \* m_dwWritingThreadId
  cWrites,   \* m_cWritingThreadLocks
  pc,        \* where a thread is inside a call, "out" between calls
  late       \* history: the last SetEvent came when a thread had already
             \* come in to read, and no ResetEvent has come since

lockVars == <<cReads, cTotal, noReads, csWrite, writer, cWrites, pc, late>>

Goto(t, l) == pc' = [pc EXCEPT ![t] = l]

Init ==
  /\ cReads = [t \in Thread |-> 0] /\ cTotal = 0 /\ noReads = TRUE
  /\ csWrite = None /\ writer = None /\ cWrites = 0
  /\ pc = [t \in Thread |-> "out"] /\ late = FALSE

Reading(t) == cReads[t] > 0
Writing(t) == writer = t /\ pc[t] = "out"
-----------------------------------------------------------------------------
(* AcquireReaderLock                                                       *)

ReadEnter(t) ==
  /\ pc[t] = "out" /\ writer # t /\ ~Reading(t) /\ csWrite = None
  /\ csWrite' = t /\ Goto(t, "count")
  /\ UNCHANGED <<cReads, cTotal, noReads, writer, cWrites, late>>

\* InterlockedIncrement: the first reader goes on to reset the event.
ReadCount(t) ==
  /\ pc[t] = "count" /\ cTotal' = cTotal + 1
  /\ IF cTotal = 0
     THEN Goto(t, "reset") /\ UNCHANGED <<cReads, csWrite>>
     ELSE /\ Goto(t, "out") /\ csWrite' = None
          /\ cReads' = [cReads EXCEPT ![t] = 1]
  /\ UNCHANGED <<noReads, writer, cWrites, late>>

ReadReset(t) ==
  /\ pc[t] = "reset" /\ noReads' = FALSE /\ late' = FALSE
  /\ Goto(t, "out") /\ csWrite' = None
  /\ cReads' = [cReads EXCEPT ![t] = 1]
  /\ UNCHANGED <<cTotal, writer, cWrites>>

ReadAgain(t) ==
  /\ pc[t] = "out" /\ Reading(t) /\ cReads[t] < MaxNest
  /\ cReads' = [cReads EXCEPT ![t] = @ + 1]
  /\ UNCHANGED <<cTotal, noReads, csWrite, writer, cWrites, pc, late>>
-----------------------------------------------------------------------------
(* ReleaseReaderLock                                                       *)

\* Mutation of ReadRelease: the outermost lock is not told from the inner ones.
ReadReleaseAny(t) ==
  /\ pc[t] = "out" /\ Reading(t)
  /\ cReads' = [cReads EXCEPT ![t] = @ - 1]
  /\ cTotal' = cTotal - 1
  /\ Goto(t, IF cTotal = 1 THEN "set" ELSE "out")
  /\ UNCHANGED <<noReads, csWrite, writer, cWrites, late>>

\* Mutation of ReadRelease: the event waits for the count before the decrement.
ReadReleaseUnset(t) ==
  /\ pc[t] = "out" /\ Reading(t)
  /\ cReads' = [cReads EXCEPT ![t] = @ - 1]
  /\ IF cReads[t] = 1
     THEN cTotal' = cTotal - 1 /\ Goto(t, IF cTotal = 0 THEN "set" ELSE "out")
     ELSE UNCHANGED <<cTotal, pc>>
  /\ UNCHANGED <<noReads, csWrite, writer, cWrites, late>>

\* InterlockedDecrement: the last reader goes on to signal the event.
ReadRelease(t) ==
  /\ pc[t] = "out" /\ Reading(t)
  /\ cReads' = [cReads EXCEPT ![t] = @ - 1]
  /\ IF cReads[t] = 1
     THEN cTotal' = cTotal - 1 /\ Goto(t, IF cTotal = 1 THEN "set" ELSE "out")
     ELSE UNCHANGED <<cTotal, pc>>
  /\ UNCHANGED <<noReads, csWrite, writer, cWrites, late>>

ReadSet(t) ==
  /\ pc[t] = "set" /\ noReads' = TRUE /\ Goto(t, "out")
  /\ late' = (late \/ cTotal > 0)
  /\ UNCHANGED <<cReads, cTotal, csWrite, writer, cWrites>>
-----------------------------------------------------------------------------
(* AcquireWriterLock and ReleaseWriterLock                                 *)

WriteEnter(t) ==
  /\ pc[t] = "out" /\ ~Reading(t) /\ csWrite = None
  /\ csWrite' = t /\ writer' = t /\ cWrites' = 1 /\ Goto(t, "wait")
  /\ UNCHANGED <<cReads, cTotal, noReads, late>>

\* Mutation of WriteWait: a writer does not wait for the readers.
WriteAtOnce(t) ==
  /\ pc[t] = "wait" /\ Goto(t, "out")
  /\ UNCHANGED <<cReads, cTotal, noReads, csWrite, writer, cWrites, late>>

WriteWait(t) ==
  /\ pc[t] = "wait" /\ noReads /\ Goto(t, "out")
  /\ UNCHANGED <<cReads, cTotal, noReads, csWrite, writer, cWrites, late>>

WriteAgain(t) ==
  /\ Writing(t) /\ cWrites < MaxNest /\ cWrites' = cWrites + 1
  /\ UNCHANGED <<cReads, cTotal, noReads, csWrite, writer, pc, late>>

WriteRelease(t) ==
  /\ Writing(t) /\ cWrites' = cWrites - 1
  /\ IF cWrites = 1 THEN writer' = None /\ csWrite' = None
                    ELSE UNCHANGED <<writer, csWrite>>
  /\ UNCHANGED <<cReads, cTotal, noReads, pc, late>>
-----------------------------------------------------------------------------
\* The calls that only begin when the caller wishes ...
Acquire(t) == ReadEnter(t) \/ ReadAgain(t) \/ WriteEnter(t) \/ WriteAgain(t)

\* ... and the steps of a call in progress.
Proceed(t) == ReadCount(t) \/ ReadReset(t) \/ ReadSet(t) \/ WriteWait(t)

Release(t) == ReadRelease(t) \/ WriteRelease(t)

Next == \E t \in Thread : Acquire(t) \/ Proceed(t) \/ Release(t)

Spec == Init /\ [][Next]_lockVars

TypeOK ==
  /\ cReads \in [Thread -> 0..MaxNest] /\ cTotal \in Nat
  /\ noReads \in BOOLEAN /\ late \in BOOLEAN
  /\ csWrite \in Thread \cup {None} /\ writer \in Thread \cup {None}
  /\ cWrites \in 0..MaxNest
  /\ pc \in [Thread -> {"out", "count", "reset", "set", "wait"}]

\* The threads m_cTotalThreadsHavingReadLocks counts.
Counted == {t \in Thread : Reading(t) \/ pc[t] = "reset"}

\* Readers and a writer are inside together only when the event was signaled
\* late: one thread had left and not yet signaled when the next one came in.
ExcludedUnlessLate ==
  \A r, w \in Thread : Reading(r) /\ Writing(w) => late

\* No wake-up is lost: when the last reader has gone the event is signaled, or
\* a thread is about to signal it, so a waiting writer never waits for nobody.
WriterWoken == Counted = {} => noReads \/ \E t \in Thread : pc[t] = "set"
-----------------------------------------------------------------------------
(* The inductive invariant.                                                *)

\* m_csWrite belongs to a reader that is coming in, or to the writer.
OwnerInv ==
  /\ \A t \in Thread : pc[t] \in {"count", "reset"} => csWrite = t /\ writer # t
  /\ \A t \in Thread : pc[t] = "wait" => writer = t
  /\ writer # None => csWrite = writer /\ ~Reading(writer) /\ pc[writer] \in {"out", "wait"}
  /\ writer = None <=> cWrites = 0
  /\ \A t \in Thread : Reading(t) => pc[t] = "out"

CountInv == cTotal = Cardinality(Counted)

\* The event tells whether there are readers, but for the three windows.
EventInv ==
  /\ cTotal > 0 /\ noReads => late \/ \E t \in Thread : pc[t] = "reset"
  /\ cTotal = 0 /\ ~noReads => \E t \in Thread : pc[t] = "set"

LockInv ==
  /\ TypeOK /\ OwnerInv /\ CountInv /\ EventInv
  /\ \A w \in Thread : Writing(w) /\ cTotal > 0 => late
=============================================================================
