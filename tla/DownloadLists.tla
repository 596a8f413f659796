----------------------------- MODULE DownloadLists -----------------------------
(***************************************************************************)
(* The list of downloads and the recycle bin of fsDownloadsMgr, the locks   *)
(* of each, the identifiers, and what Save writes of the three.             *)
(*                                                                         *)
(* DeleteDownloads2 holds m_rwlDownloads for writing throughout.  It moves  *)
(* the bin to m_vDeletedDownloads_tmp, works on that, and moves it back; it *)
(* takes m_csDeletedDownloads for each of the two moves.  RestoreDownloads2 *)
(* holds m_csDeletedDownloads throughout and takes m_rwlDownloads for each  *)
(* download it puts back.                                                   *)
(*                                                                         *)
(* The order of the downloads is left out, and with it which one a full bin *)
(* drops.  That m_rwlDownloads excludes is what it promises (see            *)
(* ReaderWriterLock for what it does), and each file is written in one step *)
(* (RegSaver models the steps).                                             *)
(***************************************************************************)
EXTENDS Integers, FiniteSets

CONSTANTS
  Download,
  Thread,      \* the threads that call fsDownloadsMgr
  MaxDeleted,  \* m_cMaxDeleted: how many downloads the bin holds
  MaxBatch,    \* bound: downloads that one call deletes or restores
  MaxCrashes,  \* bound: stops of the program
  Bad,         \* the state file is missing or too short to be read
  None

ASSUME SizeAssumption ==
  /\ IsFiniteSet(Download) /\ MaxDeleted \in Nat
  /\ MaxBatch \in Nat /\ MaxCrashes \in Nat
ASSUME NamesAssumption ==
  None \notin Download \cup Thread /\ Bad \notin Nat

VARIABLES
  list, bin, tmp,  \* m_vDownloads, m_vDeletedDownloads, m_vDeletedDownloads_tmp
  gone,            \* history: downloads deleted for good
  pc, todo, hand,  \* each thread: where it is, its vDlds, the download it moves
  writer,          \* the thread that has m_rwlDownloads for writing
  csBin,           \* the owner of m_csDeletedDownloads
  bRestoring,      \* m_bRestoringNow
  id,              \* nID of each download; 0 before it has one
  nId,             \* m_siStateInfo.m_nId
  siDirty, siNotModified,  \* the dirty bits of m_siStateInfo
  saveAt,          \* where Save is
  dList, dBin, dId,  \* the files: downloads.sav, downloads.del.sav, dlmgrsi.sav
  kept,            \* history: downloads the files have held and still should
  moved,           \* history: a move overlapped the latest Save
  reused,          \* history: a start took an identifier already given
  crashes          \* counter of the bound

lists   == <<list, bin, tmp, gone>>
threads == <<pc, todo, hand>>
locks   == <<writer, csBin, bRestoring>>
ids     == <<id, nId, siDirty, siNotModified>>
disk    == <<dList, dBin, dId>>
saving  == <<saveAt, kept, moved>>
vars == <<lists, threads, locks, ids, saving, disk, reused, crashes>>

Init ==
  /\ list = {} /\ bin = {} /\ tmp = {} /\ gone = {}
  /\ pc = [t \in Thread |-> "idle"] /\ todo = [t \in Thread |-> {}]
  /\ hand = [t \in Thread |-> None]
  /\ writer = None /\ csBin = None /\ bRestoring = FALSE
  /\ id = [d \in Download |-> 0] /\ nId = 1
  /\ siDirty = FALSE /\ siNotModified = TRUE
  /\ saveAt = "idle" /\ dList = {} /\ dBin = {} /\ dId = Bad
  /\ kept = {} /\ moved = FALSE /\ reused = FALSE /\ crashes = 0

Goto(t, l) == pc' = [pc EXCEPT ![t] = l]
Take(t, d) == hand' = [hand EXCEPT ![t] = d]
Hands == {hand[t] : t \in Thread} \ {None}

\* What a call is asked to delete or to restore.
Batch == {D \in (SUBSET Download) \ {{}} : Cardinality(D) <= MaxBatch}

\* A step that moves downloads between Save's two writes.
Overlaps == moved' = (moved \/ saveAt = "bin")
-----------------------------------------------------------------------------
(* Add: a new download gets its identifier and joins the list.             *)

\* IncIdSafely sets the dirty bit ...
AddBegin(t, d) ==
  /\ pc[t] = "idle" /\ id[d] = 0 /\ d \notin Hands /\ d \notin list \cup bin \cup tmp
  /\ siDirty' = TRUE /\ siNotModified' = FALSE
  /\ Take(t, d) /\ Goto(t, "add_id")
  /\ UNCHANGED <<lists, todo, locks, id, nId, saving, disk, reused, crashes>>

\* ... before it increments m_nId.
AddId(t) ==
  /\ pc[t] = "add_id" /\ nId' = nId + 1
  /\ id' = [id EXCEPT ![hand[t]] = nId + 1] /\ Goto(t, "add_list")
  /\ UNCHANGED <<lists, todo, hand, locks, siDirty, siNotModified, saving, disk,
                 reused, crashes>>

\* DownloadsList_Add or _Insert, of a new download or of one restored.
AddList(t) ==
  /\ pc[t] \in {"add_list", "restore_list"} /\ writer = None
  /\ list' = list \cup {hand[t]} /\ Take(t, None)
  /\ IF pc[t] = "add_list" THEN Goto(t, "idle") /\ UNCHANGED moved
                           ELSE Goto(t, "restore") /\ Overlaps
  /\ UNCHANGED <<bin, tmp, gone, todo, locks, ids, saveAt, kept, disk, reused,
                 crashes>>
-----------------------------------------------------------------------------
(* DeleteDownloads2                                                        *)

\* Mutation of DeleteLock: another may be deleting.
DeleteLockShared(t) ==
  /\ pc[t] = "idle"
  /\ \E D \in Batch : todo' = [todo EXCEPT ![t] = D]
  /\ writer' = t /\ Goto(t, "delete_tmp")
  /\ UNCHANGED <<lists, hand, csBin, bRestoring, ids, saving, disk, reused, crashes>>

\* The caller's downloads need not be in the list any more.
DeleteLock(t) ==
  /\ pc[t] = "idle" /\ writer = None
  /\ \E D \in Batch : todo' = [todo EXCEPT ![t] = D]
  /\ writer' = t /\ Goto(t, "delete_tmp")
  /\ UNCHANGED <<lists, hand, csBin, bRestoring, ids, saving, disk, reused, crashes>>

\* Mutation of DeleteTmp: the bin is copied and not emptied.
DeleteTmpCopy(t) ==
  /\ pc[t] = "delete_tmp" /\ csBin = None /\ Goto(t, "delete")
  /\ tmp' = bin /\ Overlaps
  /\ UNCHANGED <<list, bin, gone, todo, hand, locks, ids, saveAt, kept, disk, reused,
                 crashes>>

\* DeletedDownloads_UseTmpList (TRUE)
DeleteTmp(t) ==
  /\ pc[t] = "delete_tmp" /\ csBin = None /\ Goto(t, "delete")
  /\ tmp' = bin /\ bin' = {} /\ Overlaps
  /\ UNCHANGED <<list, gone, todo, hand, locks, ids, saveAt, kept, disk, reused,
                 crashes>>

\* What the loop deletes, or all that is left when the user cancels.
Skip(t) ==
  /\ pc[t] \in {"delete", "restore"} /\ todo[t] # {}
  /\ \/ todo' = [todo EXCEPT ![t] = {}]
     \/ \E d \in todo[t] \ (IF pc[t] = "delete" THEN list ELSE bin) :
          todo' = [todo EXCEPT ![t] = @ \ {d}]
  /\ UNCHANGED <<lists, pc, hand, locks, ids, saving, disk, reused, crashes>>

\* Mutation of OverFull: the size before the download is put in.
OverFullBefore(d) == Cardinality(tmp) > MaxDeleted

\* The bin with one more download.
OverFull(d) == Cardinality(tmp \cup {d}) > MaxDeleted

\* PutDownloadToDeleted: into the bin, which drops one when it is full.
DeleteToBin(t, d) ==
  /\ pc[t] = "delete" /\ d \in todo[t] \cap list
  /\ list' = list \ {d} /\ todo' = [todo EXCEPT ![t] = @ \ {d}]
  /\ \/ ~OverFull(d) /\ tmp' = tmp \cup {d} /\ UNCHANGED <<gone, kept>>
     \/ OverFull(d) /\ \E e \in tmp \cup {d} :
          tmp' = (tmp \cup {d}) \ {e} /\ gone' = gone \cup {e} /\ kept' = kept \ {e}
  /\ UNCHANGED <<bin, pc, hand, locks, ids, saveAt, moved, disk, reused, crashes>>

\* The bin is bypassed.
DeleteFully(t, d) ==
  /\ pc[t] = "delete" /\ d \in todo[t] \cap list
  /\ list' = list \ {d} /\ todo' = [todo EXCEPT ![t] = @ \ {d}]
  /\ gone' = gone \cup {d} /\ kept' = kept \ {d}
  /\ UNCHANGED <<bin, tmp, pc, hand, locks, ids, saveAt, moved, disk, reused, crashes>>

\* DeletedDownloads_UseTmpList (FALSE)
DeleteBack(t) ==
  /\ pc[t] = "delete" /\ todo[t] = {} /\ csBin = None
  /\ bin' = tmp /\ tmp' = {} /\ Goto(t, "delete_unlock") /\ Overlaps
  /\ UNCHANGED <<list, gone, todo, hand, locks, ids, saveAt, kept, disk, reused, crashes>>

DeleteUnlock(t) ==
  /\ pc[t] = "delete_unlock" /\ writer' = None /\ Goto(t, "idle")
  /\ UNCHANGED <<lists, todo, hand, csBin, bRestoring, ids, saving, disk, reused,
                 crashes>>
-----------------------------------------------------------------------------
(* RestoreDownloads2 and DeleteDeletedDownloads2                           *)

\* The end of the wait for another restoration; the flag is set in a later step.
RestoreBegin(t) ==
  /\ pc[t] = "idle" /\ ~bRestoring /\ Goto(t, "restore_lock")
  /\ \E D \in Batch : todo' = [todo EXCEPT ![t] = D]
  /\ UNCHANGED <<lists, hand, locks, ids, saving, disk, reused, crashes>>

RestoreLock(t) ==
  /\ pc[t] = "restore_lock" /\ csBin = None
  /\ csBin' = t /\ bRestoring' = TRUE /\ Goto(t, "restore")
  /\ UNCHANGED <<lists, todo, hand, writer, ids, saving, disk, reused, crashes>>

RestoreOne(t, d) ==
  /\ pc[t] = "restore" /\ d \in todo[t] \cap bin
  /\ bin' = bin \ {d} /\ Take(t, d) /\ todo' = [todo EXCEPT ![t] = @ \ {d}]
  /\ Goto(t, "restore_list") /\ Overlaps
  /\ UNCHANGED <<list, tmp, gone, locks, ids, saveAt, kept, disk, reused, crashes>>

\* Mutation of RestoreEnd: the early end keeps m_bRestoringNow.
RestoreEndFlagged(t) ==
  /\ pc[t] = "restore" /\ todo[t] = {} /\ csBin' = None /\ Goto(t, "idle")
  /\ UNCHANGED <<lists, todo, hand, writer, bRestoring, ids, saving, disk, reused,
                 crashes>>

RestoreEnd(t) ==
  /\ pc[t] = "restore" /\ todo[t] = {}
  /\ csBin' = None /\ bRestoring' = FALSE /\ Goto(t, "idle")
  /\ UNCHANGED <<lists, todo, hand, writer, ids, saving, disk, reused, crashes>>

\* Downloads are deleted from the bin, under m_csDeletedDownloads alone.
DeleteDeleted(t) ==
  /\ pc[t] = "idle" /\ csBin = None
  /\ \E D \in (SUBSET bin) \ {{}} :
       bin' = bin \ D /\ gone' = gone \cup D /\ kept' = kept \ D
  /\ UNCHANGED <<list, tmp, threads, locks, ids, saveAt, moved, disk, reused, crashes>>
-----------------------------------------------------------------------------
(* Save: the list, the bin, and the identifier if it is dirty.             *)

\* Mutation of SaveList: the list is written without m_rwlDownloads.
SaveListUnlocked ==
  /\ saveAt = "idle"
  /\ dList' = list /\ saveAt' = "bin" /\ moved' = FALSE
  /\ kept' = (kept \cup list) \ gone
  /\ UNCHANGED <<lists, threads, locks, ids, dBin, dId, reused, crashes>>

SaveList ==
  /\ saveAt = "idle" /\ writer = None
  /\ dList' = list /\ saveAt' = "bin" /\ moved' = FALSE
  /\ kept' = (kept \cup list) \ gone
  /\ UNCHANGED <<lists, threads, locks, ids, dBin, dId, reused, crashes>>

SaveBin ==
  /\ saveAt = "bin" /\ csBin = None
  /\ dBin' = bin /\ saveAt' = "si" /\ kept' = (kept \cup bin) \ gone
  /\ UNCHANGED <<lists, threads, locks, ids, moved, dList, dId, reused, crashes>>

\* CREATE_ALWAYS truncates the file; getStateBuffer begins with the bit.
SaveState ==
  /\ saveAt = "si"
  /\ IF siDirty THEN siNotModified' = TRUE /\ dId' = Bad /\ saveAt' = "si_write"
                ELSE saveAt' = "idle" /\ UNCHANGED <<siNotModified, dId>>
  /\ UNCHANGED <<lists, threads, locks, id, nId, siDirty, kept, moved, dList, dBin,
                 reused, crashes>>

SaveStateWrite ==
  /\ saveAt = "si_write" /\ dId' = nId /\ saveAt' = "si_saved"
  /\ UNCHANGED <<lists, threads, locks, ids, kept, moved, dList, dBin, reused, crashes>>

\* onStateSavedSuccessfully
SaveStateDone ==
  /\ saveAt = "si_saved" /\ saveAt' = "idle"
  /\ siDirty' = (siDirty /\ ~siNotModified)
  /\ UNCHANGED <<lists, threads, locks, id, nId, siNotModified, kept, moved, disk,
                 reused, crashes>>

\* Mutation of Given: those of the bin are not counted.
GivenInList == {id[d] : d \in dList}

\* The identifiers a start finds in the two lists.
Given == {id[d] : d \in dList \cup dBin}

\* The program stops and starts again: LoadDownloads, whose last step replaces
\* the identifier it has computed from the lists by the one in the file.
Restart ==
  /\ crashes < MaxCrashes /\ crashes' = crashes + 1
  /\ list' = dList /\ bin' = dBin /\ tmp' = {} /\ gone' = gone \ (dList \cup dBin)
  /\ pc' = [t \in Thread |-> "idle"] /\ todo' = [t \in Thread |-> {}]
  /\ hand' = [t \in Thread |-> None]
  /\ writer' = None /\ csBin' = None /\ bRestoring' = FALSE
  /\ id' = [d \in Download |-> IF d \in dList \cup dBin THEN id[d] ELSE 0]
  /\ IF dId # Bad
     THEN nId' = dId /\ reused' = (reused \/ \E i \in Given : dId < i)
     ELSE /\ \E m \in Given \cup {0} : (\A i \in Given : i <= m) /\ nId' = m + 1
          /\ UNCHANGED reused
  /\ siDirty' = FALSE /\ siNotModified' = TRUE
  /\ saveAt' = "idle" /\ kept' = dList \cup dBin /\ moved' = FALSE
  /\ UNCHANGED disk
-----------------------------------------------------------------------------
Add(t) == (\E d \in Download : AddBegin(t, d)) \/ AddId(t) \/ AddList(t)

Delete(t) ==
  \/ DeleteLock(t) \/ DeleteTmp(t) \/ DeleteBack(t) \/ DeleteUnlock(t)
  \/ \E d \in Download : DeleteToBin(t, d) \/ DeleteFully(t, d)

Restore(t) ==
  \/ RestoreBegin(t) \/ RestoreLock(t) \/ RestoreEnd(t)
  \/ \E d \in Download : RestoreOne(t, d)

Save == SaveList \/ SaveBin \/ SaveState \/ SaveStateWrite \/ SaveStateDone

Next ==
  \/ \E t \in Thread : Add(t) \/ Delete(t) \/ Restore(t) \/ Skip(t) \/ DeleteDeleted(t)
  \/ Save \/ Restart

Spec == Init /\ [][Next]_vars
-----------------------------------------------------------------------------
PCs == {"idle", "add_id", "add_list", "delete_tmp", "delete",
        "delete_unlock", "restore_lock", "restore", "restore_list"}

BinBounded == \A B \in {bin, tmp, dBin} : Cardinality(B) <= MaxDeleted

TypeOK ==
  /\ list \subseteq Download /\ bin \subseteq Download /\ tmp \subseteq Download
  /\ gone \subseteq Download /\ kept \subseteq Download
  /\ BinBounded
  /\ pc \in [Thread -> PCs] /\ todo \in [Thread -> SUBSET Download]
  /\ hand \in [Thread -> Download \cup {None}]
  /\ writer \in Thread \cup {None} /\ csBin \in Thread \cup {None}
  /\ id \in [Download -> Nat] /\ nId \in Nat
  /\ siDirty \in BOOLEAN /\ siNotModified \in BOOLEAN /\ bRestoring \in BOOLEAN
  /\ moved \in BOOLEAN /\ reused \in BOOLEAN
  /\ saveAt \in {"idle", "bin", "si", "si_write", "si_saved"}
  /\ dList \subseteq Download /\ dBin \subseteq Download /\ dId \in Nat \cup {Bad}
  /\ crashes \in 0..MaxCrashes

\* While a deletion works on the temporary bin the other one stays empty, and at
\* all other times the temporary one is: the assertions of PutDownloadToDeleted
\* and DeletedDownloads_UseTmpList, whatever is restored or deleted meanwhile.
OneBin == IF \E t \in Thread : pc[t] = "delete" THEN bin = {} ELSE tmp = {}

\* A download that has been added and not deleted for good is in the list, in
\* the bin or on its way between them, at every step of every move.
NoneLost ==
  \A d \in Download : id[d] # 0 => d \in list \cup bin \cup tmp \cup gone \cup Hands

\* Two downloads never have the same identifier, unless a start took one from
\* dlmgrsi.sav that was older than the lists.
IdsUnique ==
  ~reused => \A d, e \in Download : id[d] = id[e] /\ id[d] # 0 => d = e

\* A download of the list that was in one of the files before stays in one.
ListKept == \A d \in list \cap kept : d \in dList \cup dBin

\* So it does unless a deletion or a restoration overlapped the latest Save.
ListKeptUnlessMoved == moved \/ ListKept

\* A deletion that has emptied the bin gets it back: no restoration that holds
\* m_csDeletedDownloads waits for its list.  The locks are taken in both orders,
\* and the two threads do wait for each other for ever before the bin is emptied.
BackNotBlocked ==
  \A t, u \in Thread : pc[t] = "delete" => ~(csBin = u /\ pc[u] = "restore_list")

\* m_bRestoringNow says whether a restoration is going on, although two threads
\* may both have read it as FALSE before they began.
RestoringShown == bRestoring <=> \E t \in Thread : pc[t] \in {"restore", "restore_list"}
-----------------------------------------------------------------------------
(* What the proofs in DownloadListsProofs carry from step to step.         *)

\* The locks are held where the code holds them, and the flag with the bin's.
Owned ==
  /\ \A t \in Thread : writer = t <=> pc[t] \in {"delete_tmp", "delete", "delete_unlock"}
  /\ \A t \in Thread : csBin = t <=> pc[t] \in {"restore", "restore_list"}
  /\ bRestoring <=> csBin # None

Handed ==
  \A t \in Thread : hand[t] # None <=> pc[t] \in {"add_id", "add_list", "restore_list"}

IdsFresh == ~reused => \A d \in Download : id[d] <= nId

ListsInv ==
  TypeOK /\ Owned /\ Handed /\ OneBin /\ BackNotBlocked /\ NoneLost /\ IdsFresh /\ IdsUnique
=============================================================================
