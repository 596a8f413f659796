------------------------------- MODULE RegSaver -------------------------------
(***************************************************************************)
(* How a list of downloads is kept on disk: fsDownloadRegSaver::Save and   *)
(* Load, the dirty bits of vmsPersistObject that Save consults, and the    *)
(* threads of the downloads, which change them while they are saved.       *)
(*                                                                         *)
(* Save writes the list to ".bak", deletes ".sav" and renames ".bak"; Load  *)
(* takes ".sav", or ".bak" if there is no good ".sav".  The list itself     *)
(* changes under a write lock and Save holds the read lock; a download      *)
(* changes at any time: its value first, its dirty bit in a later step.     *)
(*                                                                         *)
(* A download stands for its tree of persistent objects, and its value is a *)
(* version number: 0 not yet in the list, LastVersion deleted from it.      *)
(***************************************************************************)
EXTENDS Integers

CONSTANTS
  Download,
  List,           \* the list object itself, which has dirty bits of its own
  LastVersion,    \* bound: versions of a download
  MaxFaults,      \* bound: faults between two completed saves
  MayGrow,        \* a download may need more room while the list is copied
  Missing, Bad,   \* no file; a file that does not load
  None

ASSUME VersionAssumption == LastVersion \in Nat \ {0}
ASSUME BoundAssumption == MaxFaults \in Nat /\ MayGrow \in BOOLEAN
ASSUME NameAssumption == List \notin Download /\ None \notin Download

Version == 0..LastVersion
Content == [Download -> Version]
Empty == [d \in Download |-> 0]
Object == Download \cup {List}

ASSUME FileAssumption == Missing # Bad /\ {Missing, Bad} \cap Content = {}

VARIABLES
  value,         \* the list in memory
  changing,      \* downloads whose value has changed and whose bit has not
  dirty,         \* POS_DIRTY of m_bState
  notModified,   \* POS_NOTMODIFIEDSINCELASTSAVE of m_bState
  pc,            \* where Save is; "idle" outside it, "down" if not running
  todo,          \* downloads Save has not copied yet
  marked,        \* the download Save has marked and is about to copy
  buf,           \* what Save has copied
  grown,         \* a download has outgrown the buffer of this Save
  sav, bak,      \* the two files
  saved,         \* history: the list that the last completed save wrote
  faults,        \* history: faults since the last completed save
  stale,         \* history: bits were cleared though ".bak" was not renamed
  garbled        \* history: an outgrown buffer was written

memVars == <<value, changing, dirty, notModified>>
saveVars == <<pc, todo, marked, buf, grown>>
diskVars == <<sav, bak>>
history == <<saved, faults, stale, garbled>>
vars == <<memVars, saveVars, diskVars, history>>

Init ==
  /\ value = Empty /\ changing = {}
  /\ dirty = [x \in Object |-> FALSE] /\ notModified = [x \in Object |-> TRUE]
  /\ pc = "idle" /\ todo = {} /\ marked = None /\ buf = Empty /\ grown = FALSE
  /\ sav = Missing /\ bak = Missing
  /\ saved = Empty /\ faults = 0 /\ stale = FALSE /\ garbled = FALSE

Listed == {d \in Download : value[d] \in 1..(LastVersion - 1)}

Good(file) == file \notin {Missing, Bad}

\* The list that Load brings back.
Recovered == IF Good(sav) THEN sav ELSE IF Good(bak) THEN bak ELSE Empty
-----------------------------------------------------------------------------
(* The dirty bits: vmsPersistObject.                                       *)

IsDirty == \E x \in Listed \cup {List} : dirty[x]

SetDirty(x) ==
  /\ dirty' = [dirty EXCEPT ![x] = TRUE]
  /\ notModified' = [notModified EXCEPT ![x] = FALSE]

\* Mutation of OnStateSavedSuccessfully: changes since the copy are forgotten.
ClearAll == dirty' = [x \in Object |-> dirty[x] /\ x \notin Listed \cup {List}]

OnStateSavedSuccessfully ==
  dirty' = [x \in Object |->
              dirty[x] /\ ~(x \in Listed \cup {List} /\ notModified[x])]
-----------------------------------------------------------------------------
(* Changes.                                                                *)

\* vmsPersistObjectsArray::Add and Delete, with the list locked for writing.
Add(d) ==
  /\ pc = "idle" /\ value[d] = 0
  /\ value' = [value EXCEPT ![d] = 1] /\ SetDirty(List)
  /\ UNCHANGED <<changing, saveVars, diskVars, history>>

Delete(d) ==
  /\ pc = "idle" /\ d \in Listed
  /\ value' = [value EXCEPT ![d] = LastVersion] /\ SetDirty(List)
  /\ UNCHANGED <<changing, saveVars, diskVars, history>>

\* Mutation of Change: a thread goes on with a download that has been deleted.
ChangeDeleted(d) ==
  /\ pc # "down" /\ d \notin changing /\ value[d] > 0
  /\ value' = [value EXCEPT ![d] = @ + 1] /\ changing' = changing \cup {d}
  /\ UNCHANGED <<dirty, notModified, saveVars, diskVars, history>>

\* A thread of the download writes a member that is saved.  A new section or
\* a longer string needs room that the first pass of Save has not counted.
Change(d) ==
  /\ pc # "down" /\ d \in Listed \ changing /\ value[d] < LastVersion - 1
  /\ value' = [value EXCEPT ![d] = @ + 1] /\ changing' = changing \cup {d}
  /\ \/ UNCHANGED grown
     \/ MayGrow /\ pc = "fill" /\ d \in todo /\ grown' = TRUE
  /\ UNCHANGED <<dirty, notModified, pc, todo, marked, buf, diskVars, history>>

\* Mutation of MarkChanged: the bit of an object already dirty is left alone.
MarkChangedOnce(d) ==
  /\ d \in changing /\ changing' = changing \ {d}
  /\ IF dirty[d] THEN UNCHANGED <<dirty, notModified>> ELSE SetDirty(d)
  /\ UNCHANGED <<value, saveVars, diskVars, history>>

\* ... and then calls setDirty.
MarkChanged(d) ==
  /\ d \in changing /\ changing' = changing \ {d} /\ SetDirty(d)
  /\ UNCHANGED <<value, saveVars, diskVars, history>>
-----------------------------------------------------------------------------
(* Save.                                                                   *)

\* Mutation of SaveOpen: ".sav" is deleted before ".bak" is complete.
SaveOpenDeleting ==
  /\ pc = "idle" /\ IsDirty
  /\ bak' = Bad /\ sav' = Missing
  /\ pc' = "fill" /\ todo' = Listed /\ buf' = value /\ grown' = FALSE
  /\ notModified' = [notModified EXCEPT ![List] = TRUE]
  /\ UNCHANGED <<value, changing, dirty, marked, history>>

\* CREATE_ALWAYS truncates ".bak"; the header is written, the first pass
\* asks how much room is needed, the second begins with the list object.
SaveOpen ==
  /\ pc = "idle" /\ IsDirty
  /\ bak' = Bad /\ pc' = "fill" /\ todo' = Listed /\ buf' = value
  /\ grown' = FALSE
  /\ notModified' = [notModified EXCEPT ![List] = TRUE]
  /\ UNCHANGED <<value, changing, dirty, marked, sav, history>>

\* getStateBuffer marks an object as not modified ...
Mark(d) ==
  /\ pc = "fill" /\ marked = None /\ d \in todo
  /\ marked' = d /\ notModified' = [notModified EXCEPT ![d] = TRUE]
  /\ UNCHANGED <<value, changing, dirty, pc, todo, buf, grown, diskVars, history>>

\* ... and then copies it.
Copy ==
  /\ pc = "fill" /\ marked # None
  /\ buf' = [buf EXCEPT ![marked] = value[marked]]
  /\ todo' = todo \ {marked} /\ marked' = None
  /\ UNCHANGED <<memVars, pc, grown, diskVars, history>>

\* An outgrown buffer is written beyond its end, without what did not fit.
SaveWrite ==
  /\ pc = "fill" /\ todo = {} /\ pc' = "delete"
  /\ bak' = IF grown THEN Bad ELSE buf
  /\ garbled' = (garbled \/ grown)
  /\ UNCHANGED <<memVars, todo, marked, buf, grown, sav, saved, faults, stale>>

SaveDelete ==
  /\ pc = "delete" /\ pc' = "move" /\ sav' = Missing
  /\ UNCHANGED <<memVars, todo, marked, buf, grown, bak, history>>

\* The rename succeeds if ".sav" is gone.  The bits are cleared in any case.
SaveMove ==
  /\ pc = "move" /\ pc' = "idle" /\ OnStateSavedSuccessfully
  /\ IF sav = Missing
     THEN /\ sav' = bak /\ bak' = Missing /\ saved' = buf /\ faults' = 0
          /\ stale' = FALSE /\ garbled' = ~Good(bak)
     ELSE /\ stale' = TRUE
          /\ UNCHANGED <<sav, bak, saved, faults, garbled>>
  /\ UNCHANGED <<value, changing, notModified, todo, marked, buf, grown>>
-----------------------------------------------------------------------------
(* Faults.                                                                 *)

Fault == faults < MaxFaults /\ faults' = faults + 1

\* An exception while the list is copied, or a WriteFile that fails: Save
\* returns and leaves the incomplete ".bak".
SaveFails ==
  /\ pc = "fill" /\ Fault /\ pc' = "idle" /\ todo' = {} /\ marked' = None
  /\ UNCHANGED <<memVars, buf, grown, diskVars, saved, stale, garbled>>

\* FlushFileBuffers fails: Save returns with ".bak" complete.
FlushFails ==
  /\ pc = "fill" /\ todo = {} /\ ~grown /\ Fault /\ pc' = "idle" /\ bak' = buf
  /\ UNCHANGED <<memVars, todo, marked, buf, grown, sav, saved, stale, garbled>>

\* WriteFile refuses to read beyond the end of an outgrown buffer.
WriteRefused ==
  /\ pc = "fill" /\ todo = {} /\ grown /\ pc' = "idle" /\ garbled' = TRUE
  /\ UNCHANGED <<memVars, todo, marked, buf, grown, diskVars, saved, faults, stale>>

\* DeleteFile fails, which Save does not look at.
DeleteFails ==
  /\ pc = "delete" /\ sav # Missing /\ Fault /\ pc' = "move"
  /\ UNCHANGED <<memVars, todo, marked, buf, grown, diskVars, saved, stale, garbled>>

\* MoveFile fails though ".sav" is gone.
MoveFails ==
  /\ pc = "move" /\ sav = Missing /\ Fault /\ pc' = "idle"
  /\ OnStateSavedSuccessfully
  /\ UNCHANGED <<value, changing, notModified, todo, marked, buf, grown, diskVars,
                 saved, stale, garbled>>

\* The program or the computer stops; outside Save that is no fault.
Crash ==
  /\ pc # "down" /\ pc' = "down"
  /\ IF pc = "idle" THEN UNCHANGED faults ELSE Fault
  /\ changing' = {} /\ todo' = {} /\ marked' = None
  /\ UNCHANGED <<value, dirty, notModified, buf, grown, diskVars, saved, stale, garbled>>

\* Mutation of Load: ".bak" is not tried.
LoadSavOnly ==
  /\ pc = "down" /\ pc' = "idle"
  /\ value' = IF Good(sav) THEN sav ELSE Empty
  /\ dirty' = [x \in Object |-> FALSE] /\ notModified' = [x \in Object |-> TRUE]
  /\ UNCHANGED <<changing, todo, marked, buf, grown, diskVars, history>>

\* LoadDownloads, at the next start: a ".bak" that was tried and does not load
\* is deleted, and the list is clean.
Load ==
  /\ pc = "down" /\ pc' = "idle" /\ value' = Recovered
  /\ bak' = IF ~Good(sav) /\ bak = Bad THEN Missing ELSE bak
  /\ dirty' = [x \in Object |-> FALSE] /\ notModified' = [x \in Object |-> TRUE]
  /\ UNCHANGED <<changing, todo, marked, buf, grown, sav, history>>
-----------------------------------------------------------------------------
SaveStep == SaveOpen \/ (\E d \in Download : Mark(d)) \/ Copy \/ SaveWrite
              \/ SaveDelete \/ SaveMove

Faulty == SaveFails \/ FlushFails \/ WriteRefused \/ DeleteFails \/ MoveFails \/ Crash

Next == \/ \E d \in Download : Add(d) \/ Delete(d) \/ Change(d) \/ MarkChanged(d)
        \/ SaveStep \/ Faulty \/ Load

Spec == Init /\ [][Next]_vars

\* The autosave thread calls Save again and again, a thread that has changed a
\* download goes on to call setDirty, and the program is started again.
FairSpec == /\ Spec /\ WF_vars(SaveStep) /\ WF_vars(Load)
            /\ \A d \in Download : WF_vars(MarkChanged(d))

TypeOK ==
  /\ value \in Content /\ changing \subseteq Download
  /\ dirty \in [Object -> BOOLEAN] /\ notModified \in [Object -> BOOLEAN]
  /\ pc \in {"idle", "down", "fill", "delete", "move"}
  /\ todo \subseteq Download /\ marked \in Download \cup {None}
  /\ buf \in Content /\ grown \in BOOLEAN
  /\ sav \in Content \cup {Missing, Bad} /\ bak \in Content \cup {Missing, Bad}
  /\ saved \in Content /\ faults \in 0..MaxFaults
  /\ stale \in BOOLEAN /\ garbled \in BOOLEAN
-----------------------------------------------------------------------------
\* Download by download, f is no newer than g.
NoNewer(f, g) == \A d \in Download : f[d] <= g[d]

\* A power failure does not lose the list: what the next start reads is at
\* least as new as the last save that was completed.
ListProtected == pc = "down" => NoNewer(saved, Recovered)

\* So it is when one fault at most has struck since that save, be it a crash at
\* any point of the next one or a call that failed, and no buffer was outgrown.
\* Outside Save the files are never newer than the list either.
SurvivesOneFault ==
  faults <= 1 /\ ~garbled /\ pc \in {"idle", "down"} =>
    NoNewer(saved, Recovered) /\ NoNewer(Recovered, value)

\* A list that is not dirty is on disk: no change is forgotten that was made
\* while the list was being saved.
CleanIsSaved ==
  pc = "idle" /\ ~IsDirty /\ ~stale /\ ~garbled =>
    \A d \in Download \ changing : Recovered[d] = value[d]

\* Every change reaches the disk, unless the program is stopped for ever again,
\* a rename has failed or a buffer was outgrown.
EventuallySaved ==
  []<>(pc = "down") \/ []<>(stale \/ garbled \/ Recovered = value)

\* With one fault at most between two saves, and no outgrown buffer, Save and Load
\* keep the promise of DurableList, step by step: a restart brings every download
\* back no older than the last completed save left it, and no newer than it was.
Durable == INSTANCE DurableList WITH down <- pc = "down"
DurableSpec == Durable!Spec

Calm == ~grown /\ ~garbled /\ faults <= 1
DurableWhileCalm == Durable!Init /\ [][Calm => Durable!Next]_(Durable!durableVars)
-----------------------------------------------------------------------------
(* The inductive invariant.                                                *)

Saving == pc \in {"fill", "delete", "move"}
Between(f) == NoNewer(saved, f) /\ NoNewer(f, value)

\* What Save has copied: the list as it is, but for the changes since, which
\* show in the bit of the download or will.
CopyInv ==
  /\ todo # {} => pc = "fill" /\ todo \subseteq Listed
  /\ marked # None => marked \in todo
  /\ Saving => /\ NoNewer(buf, value) /\ IsDirty
               /\ \A d \in Download \ Listed : buf[d] = value[d]
               /\ \A d \in Listed \ todo :
                    notModified[d] /\ d \notin changing => buf[d] = value[d]

BitsInv == \A x \in Object : dirty[x] \/ notModified[x]

\* The files in the course of Save.
FileInv ==
  /\ sav = Bad => garbled
  /\ pc = "fill" => bak = Bad
  /\ pc \in {"delete", "move"} => bak = buf \/ (bak = Bad /\ garbled)

\* ".sav" alone holds the last save until a fault, and what would be read is
\* good enough wherever one more fault may strike.
SafeInv ==
  faults <= 1 /\ ~garbled =>
    /\ faults = 0 /\ pc # "move" => Good(sav) \/ saved = Empty
    /\ Saving => NoNewer(saved, buf)
    /\ faults = 0 \/ pc \in {"idle", "down", "move"} => Between(Recovered)

\* As CleanIsSaved, and for the downloads that have left the list too.
CleanInv ==
  pc = "idle" /\ ~IsDirty /\ ~stale /\ ~garbled =>
    \A d \in Download : d \notin changing \cap Listed => Recovered[d] = value[d]

SaverInv == TypeOK /\ CopyInv /\ BitsInv /\ FileInv /\ SafeInv /\ CleanInv
=============================================================================
