------------------------- MODULE DownloadListsProofs -------------------------
(***************************************************************************)
(* ListsInv is an invariant of DownloadLists for any downloads, threads and *)
(* size of the bin.                                                         *)
(***************************************************************************)
EXTENDS DownloadLists, FiniteSetTheorems, TLAPS

\* A part of a bin that is small enough is so, and so is a bin that has grown by
\* one download and dropped one.
LEMMA SmallBins ==
  ASSUME NEW B \in SUBSET Download, Cardinality(B) <= MaxDeleted
  PROVE  /\ Cardinality({}) <= MaxDeleted
         /\ \A D \in SUBSET B : Cardinality(D) <= MaxDeleted
         /\ \A d \in Download, e \in Download :
              e \in B \cup {d} => Cardinality((B \cup {d}) \ {e}) <= MaxDeleted
<1> USE SizeAssumption
<1>1. IsFiniteSet(B) /\ Cardinality(B) \in Nat BY FS_Subset, FS_CardinalityType
<1>2. Cardinality({}) <= MaxDeleted BY FS_EmptySet
<1>3. ASSUME NEW D \in SUBSET B PROVE Cardinality(D) <= MaxDeleted
  BY <1>1, <1>3, FS_Subset, FS_CardinalityType
<1>4. ASSUME NEW d \in Download, NEW e \in Download, e \in B \cup {d}
      PROVE  Cardinality((B \cup {d}) \ {e}) <= MaxDeleted
  <2>1. IsFiniteSet(B \cup {d}) /\ Cardinality(B \cup {d}) <= Cardinality(B) + 1
    BY SMTT(30), <1>1, FS_AddElement
  <2>2. Cardinality(B \cup {d}) \in Nat BY <2>1, FS_CardinalityType
  <2>3. Cardinality((B \cup {d}) \ {e}) = Cardinality(B \cup {d}) - 1
    BY <1>4, <2>1, FS_RemoveElement
  <2> QED BY <1>1, <2>1, <2>2, <2>3
<1> QED BY <1>2, <1>3, <1>4

LEMMA AddBeginInv ==
  ASSUME ListsInv, NEW t \in Thread, NEW d \in Download, AddBegin(t, d) PROVE ListsInv'
<1> USE NamesAssumption, SizeAssumption DEF ListsInv, TypeOK, PCs, AddBegin, Goto, Take,
        lists, threads, locks, ids, saving, disk
<1>1. BinBounded' BY DEF BinBounded
<1>2. TypeOK' BY <1>1 DEF Overlaps, Batch
<1>3. Owned' BY DEF Owned
<1>4. Handed' BY DEF Handed
<1>5. OneBin' BY DEF OneBin, Owned
<1>6. BackNotBlocked' BY DEF BackNotBlocked, Owned, OneBin
<1>7. NoneLost' BY DEF NoneLost, Hands, Handed, OneBin, Owned
<1>8. IdsFresh' BY DEF IdsFresh, Given
<1>9. IdsUnique' BY DEF IdsUnique, IdsFresh, Given
<1> QED BY <1>2, <1>3, <1>4, <1>5, <1>6, <1>7, <1>8, <1>9

LEMMA AddIdInv ==
  ASSUME ListsInv, NEW t \in Thread, AddId(t) PROVE ListsInv'
<1> USE NamesAssumption, SizeAssumption DEF ListsInv, TypeOK, PCs, AddId, Goto, Take,
        lists, threads, locks, ids, saving, disk
<1>1. BinBounded' BY DEF BinBounded
<1>2. TypeOK' BY <1>1 DEF Handed
<1>3. Owned' BY DEF Owned
<1>4. Handed' BY DEF Handed
<1>5. OneBin' BY DEF OneBin, Owned
<1>6. BackNotBlocked' BY DEF BackNotBlocked, Owned, OneBin
<1>7. NoneLost' BY DEF NoneLost, Hands, Handed, OneBin, Owned
<1>8. IdsFresh' BY DEF IdsFresh, Given
<1>9. IdsUnique' BY DEF IdsUnique, IdsFresh, Given
<1> QED BY <1>2, <1>3, <1>4, <1>5, <1>6, <1>7, <1>8, <1>9

LEMMA AddListInv ==
  ASSUME ListsInv, NEW t \in Thread, AddList(t) PROVE ListsInv'
<1> USE NamesAssumption, SizeAssumption DEF ListsInv, TypeOK, PCs, AddList, Goto, Take,
        lists, threads, locks, ids, saving, disk
<1>1. BinBounded' BY DEF BinBounded
<1>a. hand[t] \in Download BY DEF Handed
<1>2. TypeOK' BY ZenonT(40), <1>1, <1>a DEF Overlaps
<1>3. Owned' BY DEF Owned
<1>4. Handed' BY DEF Handed
<1>5. OneBin' BY DEF OneBin, Owned
<1>6. BackNotBlocked' BY DEF BackNotBlocked, Owned, OneBin
<1>7. NoneLost' BY DEF NoneLost, Hands, Handed, OneBin, Owned
<1>8. IdsFresh' BY DEF IdsFresh, Given
<1>9. IdsUnique' BY DEF IdsUnique, IdsFresh, Given
<1> QED BY <1>2, <1>3, <1>4, <1>5, <1>6, <1>7, <1>8, <1>9

LEMMA DeleteLockInv ==
  ASSUME ListsInv, NEW t \in Thread, DeleteLock(t) PROVE ListsInv'
<1> USE NamesAssumption, SizeAssumption DEF ListsInv, TypeOK, PCs, DeleteLock, Goto, Take,
        lists, threads, locks, ids, saving, disk
<1>1. BinBounded' BY DEF BinBounded
<1>2. TypeOK' BY <1>1 DEF Overlaps, Batch
<1>3. Owned' BY DEF Owned
<1>4. Handed' BY DEF Handed
<1>5. OneBin' BY DEF OneBin, Owned
<1>6. BackNotBlocked' BY DEF BackNotBlocked, Owned, OneBin
<1>7. NoneLost' BY DEF NoneLost, Hands, Handed, OneBin, Owned
<1>8. IdsFresh' BY DEF IdsFresh, Given
<1>9. IdsUnique' BY DEF IdsUnique, IdsFresh, Given
<1> QED BY <1>2, <1>3, <1>4, <1>5, <1>6, <1>7, <1>8, <1>9

LEMMA DeleteTmpInv ==
  ASSUME ListsInv, NEW t \in Thread, DeleteTmp(t) PROVE ListsInv'
<1> USE NamesAssumption, SizeAssumption DEF ListsInv, TypeOK, PCs, DeleteTmp, Goto, Take,
        lists, threads, locks, ids, saving, disk
<1>1. BinBounded' BY SmallBins DEF BinBounded
<1>2. TypeOK' BY <1>1 DEF Overlaps, Batch
<1>3. Owned' BY DEF Owned
<1>4. Handed' BY DEF Handed
<1>5. OneBin' BY DEF OneBin, Owned
<1>6. BackNotBlocked' BY DEF BackNotBlocked, Owned, OneBin
<1>7. NoneLost' BY DEF NoneLost, Hands, Handed, OneBin, Owned
<1>8. IdsFresh' BY DEF IdsFresh, Given
<1>9. IdsUnique' BY DEF IdsUnique, IdsFresh, Given
<1> QED BY <1>2, <1>3, <1>4, <1>5, <1>6, <1>7, <1>8, <1>9

LEMMA SkipInv ==
  ASSUME ListsInv, NEW t \in Thread, Skip(t) PROVE ListsInv'
<1> USE NamesAssumption, SizeAssumption DEF ListsInv, TypeOK, PCs, Skip, Goto, Take,
        lists, threads, locks, ids, saving, disk
<1>1. BinBounded' BY DEF BinBounded
<1>2. TypeOK' BY <1>1 DEF Overlaps, Batch
<1>3. Owned' BY DEF Owned
<1>4. Handed' BY DEF Handed
<1>5. OneBin' BY DEF OneBin, Owned
<1>6. BackNotBlocked' BY DEF BackNotBlocked, Owned, OneBin
<1>7. NoneLost' BY DEF NoneLost, Hands, Handed, OneBin, Owned
<1>8. IdsFresh' BY DEF IdsFresh, Given
<1>9. IdsUnique' BY DEF IdsUnique, IdsFresh, Given
<1> QED BY <1>2, <1>3, <1>4, <1>5, <1>6, <1>7, <1>8, <1>9

LEMMA DeleteToBinInv ==
  ASSUME ListsInv, NEW t \in Thread, NEW d \in Download, DeleteToBin(t, d) PROVE ListsInv'
<1> USE NamesAssumption, SizeAssumption DEF ListsInv, TypeOK, PCs, DeleteToBin, Goto, Take,
        lists, threads, locks, ids, saving, disk
<1>1. BinBounded'
  <2>1. CASE ~OverFull(d)
    <3>1. tmp \cup {d} \in SUBSET Download BY DEF BinBounded
    <3>2. Cardinality(tmp \cup {d}) \in Nat
      BY <3>1, FS_Subset, FS_CardinalityType
    <3>3. Cardinality(tmp \cup {d}) <= MaxDeleted BY <2>1, <3>2 DEF OverFull
    <3> QED BY <2>1, <3>3 DEF BinBounded
  <2>2. CASE OverFull(d) BY <2>2, SmallBins DEF BinBounded
  <2> QED BY <2>1, <2>2
<1>2. TypeOK' BY <1>1 DEF Overlaps, Batch
<1>3. Owned' BY DEF Owned
<1>4. Handed' BY DEF Handed
<1>5. OneBin' BY DEF OneBin, Owned
<1>6. BackNotBlocked' BY DEF BackNotBlocked, Owned, OneBin
<1>7. NoneLost' BY DEF NoneLost, Hands, Handed, OneBin, Owned
<1>8. IdsFresh' BY DEF IdsFresh, Given
<1>9. IdsUnique' BY DEF IdsUnique, IdsFresh, Given
<1> QED BY <1>2, <1>3, <1>4, <1>5, <1>6, <1>7, <1>8, <1>9

LEMMA DeleteFullyInv ==
  ASSUME ListsInv, NEW t \in Thread, NEW d \in Download, DeleteFully(t, d) PROVE ListsInv'
<1> USE NamesAssumption, SizeAssumption DEF ListsInv, TypeOK, PCs, DeleteFully, Goto, Take,
        lists, threads, locks, ids, saving, disk
<1>1. BinBounded' BY DEF BinBounded
<1>2. TypeOK' BY <1>1 DEF Overlaps, Batch
<1>3. Owned' BY DEF Owned
<1>4. Handed' BY DEF Handed
<1>5. OneBin' BY DEF OneBin, Owned
<1>6. BackNotBlocked' BY DEF BackNotBlocked, Owned, OneBin
<1>7. NoneLost' BY DEF NoneLost, Hands, Handed, OneBin, Owned
<1>8. IdsFresh' BY DEF IdsFresh, Given
<1>9. IdsUnique' BY DEF IdsUnique, IdsFresh, Given
<1> QED BY <1>2, <1>3, <1>4, <1>5, <1>6, <1>7, <1>8, <1>9

LEMMA DeleteBackInv ==
  ASSUME ListsInv, NEW t \in Thread, DeleteBack(t) PROVE ListsInv'
<1> USE NamesAssumption, SizeAssumption DEF ListsInv, TypeOK, PCs, DeleteBack, Goto, Take,
        lists, threads, locks, ids, saving, disk
<1>1. BinBounded' BY SmallBins DEF BinBounded
<1>2. TypeOK' BY <1>1 DEF Overlaps, Batch
<1>3. Owned' BY DEF Owned
<1>4. Handed' BY DEF Handed
<1>5. OneBin' BY DEF OneBin, Owned
<1>6. BackNotBlocked' BY DEF BackNotBlocked, Owned, OneBin
<1>7. NoneLost' BY DEF NoneLost, Hands, Handed, OneBin, Owned
<1>8. IdsFresh' BY DEF IdsFresh, Given
<1>9. IdsUnique' BY DEF IdsUnique, IdsFresh, Given
<1> QED BY <1>2, <1>3, <1>4, <1>5, <1>6, <1>7, <1>8, <1>9

LEMMA DeleteUnlockInv ==
  ASSUME ListsInv, NEW t \in Thread, DeleteUnlock(t) PROVE ListsInv'
<1> USE NamesAssumption, SizeAssumption DEF ListsInv, TypeOK, PCs, DeleteUnlock, Goto, Take,
        lists, threads, locks, ids, saving, disk
<1>1. BinBounded' BY DEF BinBounded
<1>2. TypeOK' BY <1>1 DEF Overlaps, Batch
<1>3. Owned' BY DEF Owned
<1>4. Handed' BY DEF Handed
<1>5. OneBin' BY DEF OneBin, Owned
<1>6. BackNotBlocked' BY DEF BackNotBlocked, Owned, OneBin
<1>7. NoneLost' BY DEF NoneLost, Hands, Handed, OneBin, Owned
<1>8. IdsFresh' BY DEF IdsFresh, Given
<1>9. IdsUnique' BY DEF IdsUnique, IdsFresh, Given
<1> QED BY <1>2, <1>3, <1>4, <1>5, <1>6, <1>7, <1>8, <1>9

LEMMA RestoreBeginInv ==
  ASSUME ListsInv, NEW t \in Thread, RestoreBegin(t) PROVE ListsInv'
<1> USE NamesAssumption, SizeAssumption DEF ListsInv, TypeOK, PCs, RestoreBegin, Goto, Take,
        lists, threads, locks, ids, saving, disk
<1>1. BinBounded' BY DEF BinBounded
<1>2. TypeOK' BY <1>1 DEF Overlaps, Batch
<1>3. Owned' BY DEF Owned
<1>4. Handed' BY DEF Handed
<1>5. OneBin' BY DEF OneBin, Owned
<1>6. BackNotBlocked' BY DEF BackNotBlocked, Owned, OneBin
<1>7. NoneLost' BY DEF NoneLost, Hands, Handed, OneBin, Owned
<1>8. IdsFresh' BY DEF IdsFresh, Given
<1>9. IdsUnique' BY DEF IdsUnique, IdsFresh, Given
<1> QED BY <1>2, <1>3, <1>4, <1>5, <1>6, <1>7, <1>8, <1>9

LEMMA RestoreLockInv ==
  ASSUME ListsInv, NEW t \in Thread, RestoreLock(t) PROVE ListsInv'
<1> USE NamesAssumption, SizeAssumption DEF ListsInv, TypeOK, PCs, RestoreLock, Goto, Take,
        lists, threads, locks, ids, saving, disk
<1>1. BinBounded' BY DEF BinBounded
<1>2. TypeOK' BY <1>1 DEF Overlaps, Batch
<1>3. Owned' BY DEF Owned
<1>4. Handed' BY DEF Handed
<1>5. OneBin' BY DEF OneBin, Owned
<1>6. BackNotBlocked' BY DEF BackNotBlocked, Owned, OneBin
<1>7. NoneLost' BY DEF NoneLost, Hands, Handed, OneBin, Owned
<1>8. IdsFresh' BY DEF IdsFresh, Given
<1>9. IdsUnique' BY DEF IdsUnique, IdsFresh, Given
<1> QED BY <1>2, <1>3, <1>4, <1>5, <1>6, <1>7, <1>8, <1>9

LEMMA RestoreOneInv ==
  ASSUME ListsInv, NEW t \in Thread, NEW d \in Download, RestoreOne(t, d) PROVE ListsInv'
<1> USE NamesAssumption, SizeAssumption DEF ListsInv, TypeOK, PCs, RestoreOne, Goto, Take,
        lists, threads, locks, ids, saving, disk
<1>1. BinBounded' BY SmallBins DEF BinBounded
<1>2. TypeOK' BY <1>1 DEF Overlaps, Batch
<1>3. Owned' BY DEF Owned
<1>4. Handed' BY DEF Handed
<1>5. OneBin' BY DEF OneBin, Owned
<1>6. BackNotBlocked' BY DEF BackNotBlocked, Owned, OneBin
<1>7. NoneLost' BY DEF NoneLost, Hands, Handed, OneBin, Owned
<1>8. IdsFresh' BY DEF IdsFresh, Given
<1>9. IdsUnique' BY DEF IdsUnique, IdsFresh, Given
<1> QED BY <1>2, <1>3, <1>4, <1>5, <1>6, <1>7, <1>8, <1>9

LEMMA RestoreEndInv ==
  ASSUME ListsInv, NEW t \in Thread, RestoreEnd(t) PROVE ListsInv'
<1> USE NamesAssumption, SizeAssumption DEF ListsInv, TypeOK, PCs, RestoreEnd, Goto, Take,
        lists, threads, locks, ids, saving, disk
<1>1. BinBounded' BY DEF BinBounded
<1>2. TypeOK' BY <1>1 DEF Overlaps, Batch
<1>3. Owned' BY DEF Owned
<1>4. Handed' BY DEF Handed
<1>5. OneBin' BY DEF OneBin, Owned
<1>6. BackNotBlocked' BY DEF BackNotBlocked, Owned, OneBin
<1>7. NoneLost' BY DEF NoneLost, Hands, Handed, OneBin, Owned
<1>8. IdsFresh' BY DEF IdsFresh, Given
<1>9. IdsUnique' BY DEF IdsUnique, IdsFresh, Given
<1> QED BY <1>2, <1>3, <1>4, <1>5, <1>6, <1>7, <1>8, <1>9

LEMMA DeleteDeletedInv ==
  ASSUME ListsInv, NEW t \in Thread, DeleteDeleted(t) PROVE ListsInv'
<1> USE NamesAssumption, SizeAssumption DEF ListsInv, TypeOK, PCs, DeleteDeleted, Goto, Take,
        lists, threads, locks, ids, saving, disk
<1>1. BinBounded' BY SmallBins DEF BinBounded
<1>2. TypeOK' BY <1>1 DEF Overlaps, Batch
<1>3. Owned' BY DEF Owned
<1>4. Handed' BY DEF Handed
<1>5. OneBin' BY DEF OneBin, Owned
<1>6. BackNotBlocked' BY DEF BackNotBlocked, Owned, OneBin
<1>7. NoneLost' BY DEF NoneLost, Hands, Handed, OneBin, Owned
<1>8. IdsFresh' BY DEF IdsFresh, Given
<1>9. IdsUnique' BY DEF IdsUnique, IdsFresh, Given
<1> QED BY <1>2, <1>3, <1>4, <1>5, <1>6, <1>7, <1>8, <1>9

LEMMA SaveListInv ==
  ASSUME ListsInv, SaveList PROVE ListsInv'
<1> USE NamesAssumption, SizeAssumption DEF ListsInv, TypeOK, PCs, SaveList, Goto, Take,
        lists, threads, locks, ids, saving, disk
<1>1. BinBounded' BY DEF BinBounded
<1>2. TypeOK' BY <1>1 DEF Overlaps, Batch
<1>3. Owned' BY DEF Owned
<1>4. Handed' BY DEF Handed
<1>5. OneBin' BY DEF OneBin, Owned
<1>6. BackNotBlocked' BY DEF BackNotBlocked, Owned, OneBin
<1>7. NoneLost' BY DEF NoneLost, Hands, Handed, OneBin, Owned
<1>8. IdsFresh' BY DEF IdsFresh, Given
<1>9. IdsUnique' BY DEF IdsUnique, IdsFresh, Given
<1> QED BY <1>2, <1>3, <1>4, <1>5, <1>6, <1>7, <1>8, <1>9

LEMMA SaveBinInv ==
  ASSUME ListsInv, SaveBin PROVE ListsInv'
<1> USE NamesAssumption, SizeAssumption DEF ListsInv, TypeOK, PCs, SaveBin, Goto, Take,
        lists, threads, locks, ids, saving, disk
<1>1. BinBounded' BY DEF BinBounded
<1>2. TypeOK' BY <1>1 DEF Overlaps, Batch
<1>3. Owned' BY DEF Owned
<1>4. Handed' BY DEF Handed
<1>5. OneBin' BY DEF OneBin, Owned
<1>6. BackNotBlocked' BY DEF BackNotBlocked, Owned, OneBin
<1>7. NoneLost' BY DEF NoneLost, Hands, Handed, OneBin, Owned
<1>8. IdsFresh' BY DEF IdsFresh, Given
<1>9. IdsUnique' BY DEF IdsUnique, IdsFresh, Given
<1> QED BY <1>2, <1>3, <1>4, <1>5, <1>6, <1>7, <1>8, <1>9

LEMMA SaveStateInv ==
  ASSUME ListsInv, SaveState PROVE ListsInv'
<1> USE NamesAssumption, SizeAssumption DEF ListsInv, TypeOK, PCs, SaveState, Goto, Take,
        lists, threads, locks, ids, saving, disk
<1>1. BinBounded' BY DEF BinBounded
<1>2. TypeOK' BY <1>1 DEF Overlaps, Batch
<1>3. Owned' BY DEF Owned
<1>4. Handed' BY DEF Handed
<1>5. OneBin' BY DEF OneBin, Owned
<1>6. BackNotBlocked' BY DEF BackNotBlocked, Owned, OneBin
<1>7. NoneLost' BY DEF NoneLost, Hands, Handed, OneBin, Owned
<1>8. IdsFresh' BY DEF IdsFresh, Given
<1>9. IdsUnique' BY DEF IdsUnique, IdsFresh, Given
<1> QED BY <1>2, <1>3, <1>4, <1>5, <1>6, <1>7, <1>8, <1>9

LEMMA SaveStateWriteInv ==
  ASSUME ListsInv, SaveStateWrite PROVE ListsInv'
<1> USE NamesAssumption, SizeAssumption DEF ListsInv, TypeOK, PCs, SaveStateWrite, Goto, Take,
        lists, threads, locks, ids, saving, disk
<1>1. BinBounded' BY DEF BinBounded
<1>2. TypeOK' BY <1>1 DEF Overlaps, Batch
<1>3. Owned' BY DEF Owned
<1>4. Handed' BY DEF Handed
<1>5. OneBin' BY DEF OneBin, Owned
<1>6. BackNotBlocked' BY DEF BackNotBlocked, Owned, OneBin
<1>7. NoneLost' BY DEF NoneLost, Hands, Handed, OneBin, Owned
<1>8. IdsFresh' BY DEF IdsFresh, Given
<1>9. IdsUnique' BY DEF IdsUnique, IdsFresh, Given
<1> QED BY <1>2, <1>3, <1>4, <1>5, <1>6, <1>7, <1>8, <1>9

LEMMA SaveStateDoneInv ==
  ASSUME ListsInv, SaveStateDone PROVE ListsInv'
<1> USE NamesAssumption, SizeAssumption DEF ListsInv, TypeOK, PCs, SaveStateDone, Goto, Take,
        lists, threads, locks, ids, saving, disk
<1>1. BinBounded' BY DEF BinBounded
<1>2. TypeOK' BY <1>1 DEF Overlaps, Batch
<1>3. Owned' BY DEF Owned
<1>4. Handed' BY DEF Handed
<1>5. OneBin' BY DEF OneBin, Owned
<1>6. BackNotBlocked' BY DEF BackNotBlocked, Owned, OneBin
<1>7. NoneLost' BY DEF NoneLost, Hands, Handed, OneBin, Owned
<1>8. IdsFresh' BY DEF IdsFresh, Given
<1>9. IdsUnique' BY DEF IdsUnique, IdsFresh, Given
<1> QED BY <1>2, <1>3, <1>4, <1>5, <1>6, <1>7, <1>8, <1>9

LEMMA RestartInv ==
  ASSUME ListsInv, Restart PROVE ListsInv'
<1> USE NamesAssumption, SizeAssumption DEF ListsInv, TypeOK, PCs, Restart, Goto, Take,
        lists, threads, locks, ids, saving, disk
<1>1. BinBounded' BY SmallBins DEF BinBounded
<1>a. Given \subseteq Nat BY DEF Given
<1>2. TypeOK'
  <2>1. nId' \in Nat BY <1>a
  <2>2. reused' \in BOOLEAN OBVIOUS
  <2>3. id' \in [Download -> Nat] OBVIOUS
  <2>4. /\ list' \subseteq Download /\ bin' \subseteq Download /\ tmp' \subseteq Download
        /\ gone' \subseteq Download /\ kept' \subseteq Download
    OBVIOUS
  <2>5. crashes' \in 0..MaxCrashes OBVIOUS
  <2>6. pc' \in [Thread -> PCs] /\ todo' \in [Thread -> SUBSET Download]
        /\ hand' \in [Thread -> Download \cup {None}]
    OBVIOUS
  <2> QED BY <1>1, <2>1, <2>2, <2>3, <2>4, <2>5, <2>6
<1>3. Owned' BY DEF Owned
<1>4. Handed' BY DEF Handed
<1>5. OneBin' BY DEF OneBin, Owned
<1>6. BackNotBlocked' BY DEF BackNotBlocked, Owned, OneBin
<1>7. NoneLost' BY DEF NoneLost, Hands, Handed, OneBin, Owned
<1>8. IdsFresh'
  <2>1. ASSUME ~reused', NEW d \in Download PROVE id'[d] <= nId'
    <3>1. CASE dId = Bad
      <4>1. PICK m \in Given \cup {0} : (\A i \in Given : i <= m) /\ nId' = m + 1
        BY <3>1
      <4> QED BY SMTT(30), <1>a, <4>1 DEF Given
    <3>2. CASE dId # Bad
      <4>1. nId' = dId /\ dId \in Nat BY <3>2
      <4>2. \A i \in Given : ~(dId < i) BY <2>1, <3>2
      <4>3. id'[d] = 0 \/ id'[d] \in Given BY DEF Given
      <4> QED BY <1>a, <4>1, <4>2, <4>3
    <3> QED BY <3>1, <3>2
  <2> QED BY <2>1 DEF IdsFresh
<1>9. IdsUnique' BY DEF IdsUnique, IdsFresh, Given
<1> QED BY <1>2, <1>3, <1>4, <1>5, <1>6, <1>7, <1>8, <1>9

LEMMA InitInv == Init => ListsInv
<1> SUFFICES ASSUME Init PROVE ListsInv OBVIOUS
<1> USE NamesAssumption, SizeAssumption DEF Init, ListsInv
<1>1. BinBounded BY FS_EmptySet DEF BinBounded
<1>2. TypeOK
  <2>1. crashes \in 0..MaxCrashes OBVIOUS
  <2>2. id \in [Download -> Nat] /\ nId \in Nat OBVIOUS
  <2>3. /\ pc \in [Thread -> PCs] /\ todo \in [Thread -> SUBSET Download]
        /\ hand \in [Thread -> Download \cup {None}]
    BY DEF PCs
  <2> QED BY <1>1, <2>1, <2>2, <2>3 DEF TypeOK
<1>3. Owned /\ Handed BY DEF Owned, Handed
<1>4. OneBin /\ BackNotBlocked BY DEF OneBin, BackNotBlocked
<1>5. NoneLost /\ IdsFresh /\ IdsUnique BY DEF NoneLost, IdsFresh, IdsUnique
<1> QED BY <1>2, <1>3, <1>4, <1>5

LEMMA NextInv == ListsInv /\ [Next]_vars => ListsInv'
<1> SUFFICES ASSUME ListsInv, [Next]_vars PROVE ListsInv' OBVIOUS
<1>1. ASSUME NEW t \in Thread, Add(t) PROVE ListsInv'
  BY <1>1, AddBeginInv, AddIdInv, AddListInv DEF Add
<1>2. ASSUME NEW t \in Thread, Delete(t) PROVE ListsInv'
  BY <1>2, DeleteLockInv, DeleteTmpInv, DeleteBackInv, DeleteUnlockInv,
     DeleteToBinInv, DeleteFullyInv DEF Delete
<1>3. ASSUME NEW t \in Thread, Restore(t) PROVE ListsInv'
  BY <1>3, RestoreBeginInv, RestoreLockInv, RestoreEndInv, RestoreOneInv DEF Restore
<1>4. ASSUME Save PROVE ListsInv'
  BY <1>4, SaveListInv, SaveBinInv, SaveStateInv, SaveStateWriteInv, SaveStateDoneInv
     DEF Save
<1>5. ASSUME UNCHANGED vars PROVE ListsInv'
  BY <1>5 DEF vars, lists, threads, locks, ids, saving, disk, ListsInv, TypeOK,
     BinBounded, Owned, Handed, OneBin, BackNotBlocked, NoneLost, Hands, IdsFresh,
     IdsUnique
<1> QED BY <1>1, <1>2, <1>3, <1>4, <1>5, SkipInv, DeleteDeletedInv, RestartInv DEF Next

\* ListsInv holds in every state.
THEOREM ListsInvariant == Spec => []ListsInv
<1>1. Init => ListsInv BY InitInv
<1>2. ListsInv /\ [Next]_vars => ListsInv' BY NextInv
<1> QED BY <1>1, <1>2, PTL DEF Spec

\* Every variable has its type, and no bin has more than m_cMaxDeleted downloads.
THEOREM TypeInvariant == Spec => []TypeOK
<1>1. ListsInv => TypeOK BY DEF ListsInv
<1> QED BY <1>1, ListsInvariant, PTL

\* The assertions about the two bins in PutDownloadToDeleted and
\* DeletedDownloads_UseTmpList hold, with any number of threads deleting,
\* restoring and saving.
THEOREM OneBinAtATime == Spec => []OneBin
<1>1. ListsInv => OneBin BY DEF ListsInv
<1> QED BY <1>1, ListsInvariant, PTL

\* Whatever moves between the list and the bin, in whatever number of threads, no
\* download is left out of both.
THEOREM NothingLost == Spec => []NoneLost
<1>1. ListsInv => NoneLost BY DEF ListsInv
<1> QED BY <1>1, ListsInvariant, PTL

\* IncIdSafely and LoadDownloads give no identifier twice, unless dlmgrsi.sav was
\* older than the lists when a start read them.
THEOREM UniqueIds == Spec => []IdsUnique
<1>1. ListsInv => IdsUnique BY DEF ListsInv
<1> QED BY <1>1, ListsInvariant, PTL

\* A deletion and a restoration wait for each other only before the bin has been
\* moved to the temporary list.
THEOREM BackFree == Spec => []BackNotBlocked
<1>1. ListsInv => BackNotBlocked BY DEF ListsInv
<1> QED BY <1>1, ListsInvariant, PTL

\* m_bRestoringNow is TRUE exactly while a restoration goes on.
THEOREM RestoringFlag == Spec => []RestoringShown
<1>1. ListsInv => RestoringShown
  BY NamesAssumption DEF ListsInv, Owned, RestoringShown, TypeOK
<1> QED BY <1>1, ListsInvariant, PTL
-----------------------------------------------------------------------------
(* What the files hold of the list.                                        *)

Adding(t) == pc[t] \in {"add_id", "add_list"}

\* A download has an identifier wherever it is, once it has been added.
NamedInv ==
  /\ \A d \in list \cup bin \cup tmp \cup kept \cup dList \cup dBin : id[d] # 0
  /\ \A t \in Thread : pc[t] \in {"add_list", "restore_list"} => id[hand[t]] # 0

\* A download that is being added is nowhere else, and in no file.
NewInv ==
  \A t \in Thread : Adding(t) =>
    /\ hand[t] \notin list \cup bin \cup tmp \cup kept
    /\ \A u \in Thread \ {t} : hand[u] # hand[t]

\* Between Save's two writes the list alone is saved, and nothing has moved;
\* after them every download that is kept is saved, wherever it has gone.
SavedInv ==
  ~moved => IF saveAt = "bin"
            THEN list \cap kept \subseteq dList /\ \A t \in Thread : pc[t] # "delete"
            ELSE kept \cap (list \cup bin \cup tmp \cup Hands) \subseteq dList \cup dBin

KeptInv == NamedInv /\ NewInv /\ SavedInv

\* A download that is added comes from nowhere, and no file holds it.
LEMMA AddKept ==
  ASSUME ListsInv, KeptInv, NEW t \in Thread, Add(t)
  PROVE  KeptInv'
<1> USE NamesAssumption DEF ListsInv, KeptInv, TypeOK, Owned, Handed, OneBin, Adding,
        Goto, Take, Overlaps, Hands, lists, threads, locks, ids, saving, disk
<1>1. ASSUME NEW d \in Download, AddBegin(t, d) PROVE KeptInv'
  <2> USE <1>1 DEF AddBegin
  <2>1. NamedInv' BY DEF NamedInv
  <2>2. NewInv' BY DEF NewInv, NamedInv
  <2>3. SavedInv' BY DEF SavedInv, NewInv, NamedInv
  <2> QED BY <2>1, <2>2, <2>3
<1>2. CASE AddId(t)
  <2> USE <1>2 DEF AddId
  <2>1. NamedInv' BY DEF NamedInv
  <2>2. NewInv' BY DEF NewInv, NamedInv
  <2>3. SavedInv' BY DEF SavedInv, NewInv, NamedInv
  <2> QED BY <2>1, <2>2, <2>3
<1>3. CASE AddList(t)
  <2> USE <1>3 DEF AddList
  <2>1. NamedInv' BY DEF NamedInv
  <2>2. NewInv' BY DEF NewInv, NamedInv
  <2>3. SavedInv' BY DEF SavedInv, NewInv, NamedInv
  <2> QED BY <2>1, <2>2, <2>3
<1> QED BY <1>1, <1>2, <1>3 DEF Add

\* A deletion moves the bin aside and back, which overlaps a Save between its
\* writes, and drops nothing that should be kept.
LEMMA DeleteKept ==
  ASSUME ListsInv, KeptInv, NEW t \in Thread, Delete(t)
  PROVE  KeptInv'
<1> USE NamesAssumption DEF ListsInv, KeptInv, TypeOK, Owned, Handed, OneBin, Adding,
        Goto, Take, Overlaps, Hands, lists, threads, locks, ids, saving, disk
<1>1. CASE DeleteLock(t)
  <2> USE <1>1 DEF DeleteLock
  <2>1. NamedInv' BY DEF NamedInv
  <2>2. NewInv' BY DEF NewInv, NamedInv
  <2>3. SavedInv' BY DEF SavedInv, NewInv, NamedInv
  <2> QED BY <2>1, <2>2, <2>3
<1>2. CASE DeleteTmp(t)
  <2> USE <1>2 DEF DeleteTmp
  <2>1. NamedInv' BY DEF NamedInv
  <2>2. NewInv' BY DEF NewInv, NamedInv
  <2>3. SavedInv'
    <3>1. Hands' = Hands /\ bin' \cup tmp' = bin OBVIOUS
    <3>2. saveAt' # "bin" /\ ~moved' => ~moved /\ saveAt # "bin" OBVIOUS
    <3>3. saveAt' = "bin" => moved' OBVIOUS
    <3>4. <<kept, list, dList, dBin>>' = <<kept, list, dList, dBin>> OBVIOUS
    <3> HIDE DEF Hands
    <3> QED BY <3>1, <3>2, <3>3, <3>4 DEF SavedInv
  <2> QED BY <2>1, <2>2, <2>3
<1>3. CASE DeleteBack(t)
  <2> USE <1>3 DEF DeleteBack
  <2>1. NamedInv' BY DEF NamedInv
  <2>2. NewInv' BY DEF NewInv, NamedInv
  <2>3. SavedInv' BY DEF SavedInv, NewInv, NamedInv
  <2> QED BY <2>1, <2>2, <2>3
<1>4. CASE DeleteUnlock(t)
  <2> USE <1>4 DEF DeleteUnlock
  <2>1. NamedInv' BY DEF NamedInv
  <2>2. NewInv' BY DEF NewInv, NamedInv
  <2>3. SavedInv' BY DEF SavedInv, NewInv, NamedInv
  <2> QED BY <2>1, <2>2, <2>3
<1>5. ASSUME NEW d \in Download, DeleteToBin(t, d) PROVE KeptInv'
  <2> USE <1>5 DEF DeleteToBin
  <2>1. NamedInv' BY DEF NamedInv
  <2>2. NewInv' BY DEF NewInv, NamedInv
  <2>3. SavedInv' BY DEF SavedInv, NewInv, NamedInv
  <2> QED BY <2>1, <2>2, <2>3
<1>6. ASSUME NEW d \in Download, DeleteFully(t, d) PROVE KeptInv'
  <2> USE <1>6 DEF DeleteFully
  <2>1. NamedInv' BY DEF NamedInv
  <2>2. NewInv' BY DEF NewInv, NamedInv
  <2>3. SavedInv' BY DEF SavedInv, NewInv, NamedInv
  <2> QED BY <2>1, <2>2, <2>3
<1> QED BY <1>1, <1>2, <1>3, <1>4, <1>5, <1>6 DEF Delete

\* A restoration takes a download out of the bin, which overlaps a Save.
LEMMA RestoreKept ==
  ASSUME ListsInv, KeptInv, NEW t \in Thread, Restore(t)
  PROVE  KeptInv'
<1> USE NamesAssumption DEF ListsInv, KeptInv, TypeOK, Owned, Handed, OneBin, Adding,
        Goto, Take, Overlaps, Hands, lists, threads, locks, ids, saving, disk
<1>1. CASE RestoreBegin(t)
  <2> USE <1>1 DEF RestoreBegin
  <2>1. NamedInv' BY DEF NamedInv
  <2>2. NewInv' BY DEF NewInv, NamedInv
  <2>3. SavedInv' BY DEF SavedInv, NewInv, NamedInv
  <2> QED BY <2>1, <2>2, <2>3
<1>2. CASE RestoreLock(t)
  <2> USE <1>2 DEF RestoreLock
  <2>1. NamedInv' BY DEF NamedInv
  <2>2. NewInv' BY DEF NewInv, NamedInv
  <2>3. SavedInv' BY DEF SavedInv, NewInv, NamedInv
  <2> QED BY <2>1, <2>2, <2>3
<1>3. CASE RestoreEnd(t)
  <2> USE <1>3 DEF RestoreEnd
  <2>1. NamedInv' BY DEF NamedInv
  <2>2. NewInv' BY DEF NewInv, NamedInv
  <2>3. SavedInv' BY DEF SavedInv, NewInv, NamedInv
  <2> QED BY <2>1, <2>2, <2>3
<1>4. ASSUME NEW d \in Download, RestoreOne(t, d) PROVE KeptInv'
  <2> USE <1>4 DEF RestoreOne
  <2>1. NamedInv' BY DEF NamedInv
  <2>2. NewInv' BY DEF NewInv, NamedInv
  <2>3. SavedInv' BY DEF SavedInv, NewInv, NamedInv
  <2> QED BY <2>1, <2>2, <2>3
<1> QED BY <1>1, <1>2, <1>3, <1>4 DEF Restore

\* What is skipped or deleted from the bin needs no file.
LEMMA SkipKept ==
  ASSUME ListsInv, KeptInv, NEW t \in Thread, Skip(t) \/ DeleteDeleted(t)
  PROVE  KeptInv'
<1> USE NamesAssumption DEF ListsInv, KeptInv, TypeOK, Owned, Handed, OneBin, Adding,
        Goto, Take, Overlaps, Hands, lists, threads, locks, ids, saving, disk
<1>1. CASE Skip(t)
  <2> USE <1>1 DEF Skip
  <2>1. NamedInv' BY DEF NamedInv
  <2>2. NewInv' BY DEF NewInv, NamedInv
  <2>3. SavedInv' BY DEF SavedInv, NewInv, NamedInv
  <2> QED BY <2>1, <2>2, <2>3
<1>2. CASE DeleteDeleted(t)
  <2> USE <1>2 DEF DeleteDeleted
  <2>1. NamedInv' BY DEF NamedInv
  <2>2. NewInv' BY DEF NewInv, NamedInv
  <2>3. SavedInv' BY DEF SavedInv, NewInv, NamedInv
  <2> QED BY <2>1, <2>2, <2>3
<1> QED BY <1>1, <1>2 DEF Skip

\* Save begins when no deletion goes on and ends its second write when no
\* restoration does: the two files hold what was in either place.
LEMMA SaveKept ==
  ASSUME ListsInv, KeptInv, Save
  PROVE  KeptInv'
<1> USE NamesAssumption DEF ListsInv, KeptInv, TypeOK, Owned, Handed, OneBin, Adding,
        Goto, Take, Overlaps, Hands, lists, threads, locks, ids, saving, disk
<1>1. CASE SaveList
  <2> USE <1>1 DEF SaveList
  <2>1. NamedInv' BY DEF NamedInv
  <2>2. NewInv' BY DEF NewInv, NamedInv
  <2>3. SavedInv' BY DEF SavedInv, NewInv, NamedInv
  <2> QED BY <2>1, <2>2, <2>3
<1>2. CASE SaveBin
  <2> USE <1>2 DEF SaveBin
  <2>1. NamedInv' BY DEF NamedInv
  <2>2. NewInv' BY DEF NewInv, NamedInv
  <2>3. SavedInv' BY DEF SavedInv, NewInv, NamedInv
  <2> QED BY <2>1, <2>2, <2>3
<1>3. CASE SaveState
  <2> USE <1>3 DEF SaveState
  <2>1. NamedInv' BY DEF NamedInv
  <2>2. NewInv' BY DEF NewInv, NamedInv
  <2>3. SavedInv' BY DEF SavedInv, NewInv, NamedInv
  <2> QED BY <2>1, <2>2, <2>3
<1>4. CASE SaveStateWrite
  <2> USE <1>4 DEF SaveStateWrite
  <2>1. NamedInv' BY DEF NamedInv
  <2>2. NewInv' BY DEF NewInv, NamedInv
  <2>3. SavedInv' BY DEF SavedInv, NewInv, NamedInv
  <2> QED BY <2>1, <2>2, <2>3
<1>5. CASE SaveStateDone
  <2> USE <1>5 DEF SaveStateDone
  <2>1. NamedInv' BY DEF NamedInv
  <2>2. NewInv' BY DEF NewInv, NamedInv
  <2>3. SavedInv' BY DEF SavedInv, NewInv, NamedInv
  <2> QED BY <2>1, <2>2, <2>3
<1> QED BY <1>1, <1>2, <1>3, <1>4, <1>5 DEF Save

\* A start reads both files, and nothing else is kept.
LEMMA RestartKept ==
  ASSUME ListsInv, KeptInv, Restart PROVE KeptInv'
<1> USE NamesAssumption DEF ListsInv, KeptInv, TypeOK, Owned, Handed, OneBin, Adding,
        Goto, Take, Overlaps, Hands, lists, threads, locks, ids, saving, disk
<1> USE DEF Restart
<1>1. NamedInv' BY DEF NamedInv
<1>2. NewInv' BY DEF NewInv
<1>3. SavedInv' BY DEF SavedInv
<1> QED BY <1>1, <1>2, <1>3

\* A download that DeleteDownloads2, RestoreDownloads2 and Save pass around is in
\* downloads.sav or downloads.del.sav again after every Save that no move
\* overlaps, in whatever order the two locks are taken.
THEOREM KeptInFiles == Spec => []ListKeptUnlessMoved
<1>1. Init => KeptInv
  BY NamesAssumption DEF Init, KeptInv, NamedInv, NewInv, SavedInv, Adding, Hands
<1>2. ListsInv /\ KeptInv /\ [Next]_vars => KeptInv'
  <2> SUFFICES ASSUME ListsInv, KeptInv, [Next]_vars PROVE KeptInv' OBVIOUS
  <2>1. CASE UNCHANGED vars
    BY <2>1 DEF vars, lists, threads, ids, saving, disk, KeptInv, NamedInv, NewInv,
       SavedInv, Adding, Hands
  <2> QED BY <2>1, AddKept, DeleteKept, RestoreKept, SkipKept, SaveKept, RestartKept
          DEF Next
<1>3. KeptInv => ListKeptUnlessMoved
  BY DEF KeptInv, SavedInv, ListKeptUnlessMoved, ListKept
<1> QED BY <1>1, <1>2, <1>3, ListsInvariant, PTL DEF Spec
=============================================================================
