---------------------------- MODULE RegSaverProofs ----------------------------
(***************************************************************************)
(* SaverInv is an invariant of RegSaver for any set of downloads and any   *)
(* number of faults.  From it follow what the runs check: one fault at most *)
(* between two saves loses nothing, a clean list is on disk, and, when      *)
(* there is no more than one fault, the promise of DurableList.             *)
(***************************************************************************)
EXTENDS RegSaver, TLAPS

\* The list of a new installation, and what Load reads, are lists.
LEMMA ContentTyped ==
  /\ Empty \in Content
  /\ TypeOK => Recovered \in Content
<1>1. Empty \in Content BY VersionAssumption DEF Empty, Content, Version
<1>2. ASSUME TypeOK PROVE Recovered \in Content
  BY <1>1, <1>2 DEF TypeOK, Recovered, Good
<1> QED BY <1>1, <1>2

\* Versions are numbers, so NoNewer is a preorder, and Empty is below all.
LEMMA NoNewerOrder ==
  ASSUME NEW f \in Content, NEW g \in Content, NEW h \in Content
  PROVE  /\ NoNewer(f, f) /\ NoNewer(Empty, f)
         /\ NoNewer(f, g) /\ NoNewer(g, h) => NoNewer(f, h)
<1> \A d \in Download : f[d] \in Nat /\ g[d] \in Nat /\ h[d] \in Nat
  BY VersionAssumption DEF Content, Version
<1> QED BY DEF NoNewer, Empty

\* A file is a list or one of the two marks, and not both.
LEMMA GoodFile == \A f \in Content : Good(f)
BY FileAssumption DEF Good

\* A change of one download to a later version is a change of the list.
LEMMA Later ==
  ASSUME NEW f \in Content, NEW d \in Download, NEW v \in Version, f[d] <= v
  PROVE  /\ [f EXCEPT ![d] = v] \in Content
         /\ NoNewer(f, [f EXCEPT ![d] = v])
<1> \A e \in Download : f[e] \in Nat BY VersionAssumption DEF Content, Version
<1> QED BY DEF Content, NoNewer
-----------------------------------------------------------------------------
(* Changes keep the invariant.                                             *)

\* Steps that lengthen a version outside Save keep what the files promise.
LEMMA EditSafe ==
  ASSUME SaverInv, value' \in Content, NoNewer(value, value'),
         UNCHANGED <<sav, bak, saved, faults, garbled, pc, buf>>
  PROVE  /\ SafeInv' /\ FileInv'
         /\ Saving => NoNewer(buf, value')
<1> USE DEF SaverInv
<1>1. Recovered' = Recovered /\ Recovered \in Content
  BY ContentTyped DEF Recovered, Good
<1>2. \A f \in Content : NoNewer(f, value) => NoNewer(f, value')
  BY NoNewerOrder DEF TypeOK
<1>3. Between(Recovered) => Between(Recovered)'
  BY <1>1, <1>2 DEF Between, NoNewer
<1>4. SafeInv' BY <1>1, <1>3 DEF SafeInv, Good, Saving, NoNewer
<1>5. FileInv' BY DEF FileInv
<1>6. Saving => NoNewer(buf, value') BY <1>2 DEF CopyInv, TypeOK
<1> QED BY <1>4, <1>5, <1>6

\* A download enters the list.
LEMMA AddInv ==
  ASSUME SaverInv, NEW d \in Download, Add(d) PROVE SaverInv'
<1> USE DEF SaverInv
<1>1. value' \in Content /\ NoNewer(value, value')
  <2>1. 1 \in Version /\ value[d] <= 1 BY VersionAssumption DEF Add, Version
  <2> QED BY <2>1, Later DEF Add, TypeOK
<1>2. TypeOK'
  BY <1>1 DEF TypeOK, Add, SetDirty, saveVars, diskVars, history, Object
<1>3. SafeInv' /\ FileInv'
  BY <1>1, EditSafe DEF Add, saveVars, diskVars, history
<1>4. CopyInv' BY DEF Add, CopyInv, Saving, saveVars, TypeOK
<1>5. BitsInv' BY DEF Add, BitsInv, SetDirty, TypeOK
<1>6. IsDirty' BY DEF Add, IsDirty, SetDirty, TypeOK, Object
<1> QED BY <1>2, <1>3, <1>4, <1>5, <1>6 DEF CleanInv

\* A download leaves the list.
LEMMA DeleteInv ==
  ASSUME SaverInv, NEW d \in Download, Delete(d) PROVE SaverInv'
<1> USE DEF SaverInv
<1>1. value' \in Content /\ NoNewer(value, value')
  <2>1. LastVersion \in Version /\ value[d] <= LastVersion
    BY VersionAssumption DEF Delete, Version, Listed
  <2> QED BY <2>1, Later DEF Delete, TypeOK
<1>2. TypeOK'
  BY <1>1 DEF TypeOK, Delete, SetDirty, saveVars, diskVars, history, Object
<1>3. SafeInv' /\ FileInv'
  BY <1>1, EditSafe DEF Delete, saveVars, diskVars, history
<1>4. CopyInv' BY DEF Delete, CopyInv, Saving, saveVars, TypeOK
<1>5. BitsInv' BY DEF Delete, BitsInv, SetDirty, TypeOK
<1>6. IsDirty' BY DEF Delete, IsDirty, SetDirty, TypeOK, Object
<1> QED BY <1>2, <1>3, <1>4, <1>5, <1>6 DEF CleanInv

\* A thread changes its download.
LEMMA ChangeInv ==
  ASSUME SaverInv, NEW d \in Download, Change(d) PROVE SaverInv'
<1> USE DEF SaverInv
<1>0. value[d] \in Int /\ value[d] >= 1 /\ value[d] + 1 <= LastVersion - 1
  BY VersionAssumption DEF Change, Listed, TypeOK, Content, Version
<1>1. value' \in Content /\ NoNewer(value, value')
  <2>1. value[d] + 1 \in Version /\ value[d] <= value[d] + 1
    BY <1>0, VersionAssumption DEF Version
  <2> QED BY <2>1, Later DEF Change, TypeOK
<1>2. grown' \in BOOLEAN BY DEF Change, TypeOK
<1>3. UNCHANGED <<dirty, notModified, pc, todo, marked, buf, sav, bak, saved,
                 faults, stale, garbled>> /\ changing' = changing \cup {d}
  BY DEF Change, diskVars, history
<1>4. TypeOK' BY <1>1, <1>2, <1>3 DEF TypeOK
<1>5. SafeInv' /\ FileInv' /\ (Saving => NoNewer(buf, value'))
  BY <1>1, <1>3, EditSafe
<1>6. Listed' = Listed /\ \A e \in Download \ {d} : value'[e] = value[e]
  BY <1>0 DEF Change, Listed, TypeOK, Content
<1>7. IsDirty' = IsDirty BY <1>3, <1>6 DEF IsDirty
<1>8. CopyInv'
  <2>1. d \in Listed /\ d \in changing' BY <1>3 DEF Change
  <2>2. Saving' = Saving BY <1>3 DEF Saving
  <2>3. (todo # {} => pc = "fill" /\ todo \subseteq Listed)' /\ (marked # None => marked \in todo)'
    BY <1>3, <1>6 DEF CopyInv
  <2>4. Saving => NoNewer(buf, value)' BY <1>3, <1>5
  <2>5. Saving => \A e \in Download \ Listed : buf[e] = value'[e]
    BY <1>6, <2>1 DEF CopyInv
  <2>6. Saving => \A e \in Listed \ todo :
                    notModified[e] /\ e \notin changing' => buf[e] = value'[e]
    BY <1>3, <1>6, <2>1 DEF CopyInv, Listed
  <2>7. Saving => IsDirty' BY <1>7 DEF CopyInv
  <2> QED BY <1>3, <1>6, <2>2, <2>3, <2>4, <2>5, <2>6, <2>7 DEF CopyInv
<1>9. BitsInv' BY <1>3 DEF BitsInv
<1>10. CleanInv'
  <2>1. Recovered' = Recovered BY <1>3 DEF Recovered, Good
  <2>2. d \in changing' \cap Listed' BY <1>3, <1>6 DEF Change
  <2> QED BY <1>3, <1>6, <1>7, <2>1, <2>2 DEF CleanInv
<1> QED BY <1>4, <1>5, <1>8, <1>9, <1>10

\* ... and calls setDirty.
LEMMA MarkChangedInv ==
  ASSUME SaverInv, NEW d \in Download, MarkChanged(d) PROVE SaverInv'
<1> USE DEF SaverInv
<1>1. UNCHANGED <<value, pc, todo, marked, buf, grown, sav, bak, saved,
                 faults, stale, garbled>> /\ changing' = changing \ {d}
  BY DEF MarkChanged, saveVars, diskVars, history
<1>2. d \in Object BY DEF Object
<1>3. /\ dirty' \in [Object -> BOOLEAN] /\ notModified' \in [Object -> BOOLEAN]
      /\ dirty'[d] = TRUE /\ notModified'[d] = FALSE
      /\ \A x \in Object \ {d} : dirty'[x] = dirty[x] /\ notModified'[x] = notModified[x]
  BY <1>2 DEF MarkChanged, SetDirty, TypeOK
<1>4. TypeOK' BY <1>1, <1>3 DEF TypeOK
<1>5. Listed' = Listed /\ Recovered' = Recovered
  BY <1>1 DEF Listed, Recovered, Good
<1>6. IsDirty => IsDirty' BY <1>2, <1>3, <1>5 DEF IsDirty, Object, Listed
<1>7. d \in Listed => IsDirty' BY <1>3, <1>5 DEF IsDirty
<1>8. CopyInv'
  <2>1. \A e \in Listed : notModified'[e] /\ e \notin changing'
          => notModified[e] /\ e \notin changing
    BY <1>1, <1>3 DEF Listed, Object
  <2> QED BY <1>1, <1>5, <1>6, <2>1 DEF CopyInv, Saving, NoNewer
<1>9. BitsInv' BY <1>3 DEF BitsInv
<1>10. FileInv' BY <1>1 DEF FileInv
<1>11. SafeInv' BY <1>1, <1>5 DEF SafeInv, Good, Saving, NoNewer, Between
<1>12. CleanInv'
  <2>1. CASE d \in Listed BY <2>1, <1>7 DEF CleanInv
  <2>2. CASE d \notin Listed BY <2>2, <1>1, <1>5, <1>6 DEF CleanInv
  <2> QED BY <2>1, <2>2
<1> QED BY <1>4, <1>8, <1>9, <1>10, <1>11, <1>12
-----------------------------------------------------------------------------
(* Save keeps the invariant.                                               *)

\* The ".bak" of the last save is given up; ".sav" has what it had.
LEMMA SaveOpenInv ==
  ASSUME SaverInv, SaveOpen PROVE SaverInv'
<1> USE DEF SaverInv
<1>1. /\ pc = "idle" /\ pc' = "fill" /\ IsDirty /\ bak' = Bad /\ todo' = Listed
      /\ buf' = value
      /\ UNCHANGED <<value, changing, dirty, marked, sav, saved, faults, stale, garbled>>
  BY DEF SaveOpen, history
<1>2. List \in Object /\ Listed \subseteq Object BY DEF Object, Listed
<1>3. /\ notModified' \in [Object -> BOOLEAN]
      /\ \A x \in Object : notModified[x] => notModified'[x]
  BY <1>2 DEF SaveOpen, TypeOK
<1>4. Listed' = Listed /\ IsDirty' BY <1>1 DEF Listed, IsDirty
<1>5. TypeOK' BY <1>1, <1>3 DEF SaveOpen, TypeOK, Listed
<1>6. CopyInv'
  <2>1. NoNewer(value, value) BY NoNewerOrder DEF TypeOK
  <2>2. NoNewer(buf, value)' BY <2>1, <1>1 DEF NoNewer
  <2>3. marked = None BY <1>1 DEF CopyInv
  <2> QED BY <1>1, <1>4, <2>2, <2>3 DEF CopyInv, Saving
<1>7. BitsInv' BY <1>1, <1>3 DEF BitsInv
<1>8. FileInv' BY <1>1 DEF FileInv
<1>9. SafeInv'
  <2>1. SUFFICES ASSUME faults <= 1, ~garbled PROVE SafeInv'
    BY <1>1 DEF SafeInv
  <2>2. Between(Recovered) BY <1>1, <2>1 DEF SafeInv
  <2>3. NoNewer(saved, value)
    BY <2>2, NoNewerOrder, ContentTyped DEF Between, TypeOK
  <2>4. (Saving => NoNewer(saved, buf))' BY <1>1, <2>3 DEF NoNewer
  <2>5. (faults = 0 /\ pc # "move" => Good(sav) \/ saved = Empty)'
    BY <1>1, <2>1 DEF SafeInv, Good
  <2>6. ASSUME faults = 0 PROVE Between(Recovered)'
    <3>1. Good(sav) \/ saved = Empty BY <1>1, <2>1, <2>6 DEF SafeInv
    <3>2. CASE Good(sav)
      <4>1. Recovered' = Recovered BY <3>2, <1>1 DEF Recovered, Good
      <4> QED BY <1>1, <2>2, <4>1 DEF Between, NoNewer
    <3>3. CASE ~Good(sav)
      <4>1. Recovered' = Empty /\ saved = Empty
        BY <3>1, <3>3, <1>1 DEF Recovered, Good
      <4>2. NoNewer(Empty, Empty) /\ NoNewer(Empty, value)
        BY NoNewerOrder, ContentTyped DEF TypeOK
      <4> QED BY <1>1, <4>1, <4>2 DEF Between, NoNewer
    <3> QED BY <3>2, <3>3
  <2> QED BY <1>1, <2>4, <2>5, <2>6 DEF SafeInv
<1>10. CleanInv' BY <1>1 DEF CleanInv
<1> QED BY <1>5, <1>6, <1>7, <1>8, <1>9, <1>10

\* A step that touches neither the list, nor the files, nor the history.
LEMMA QuietSafe ==
  ASSUME SaverInv, UNCHANGED <<value, sav, bak, saved, faults, garbled, pc>>,
         buf' \in Content, NoNewer(buf, buf')
  PROVE  SafeInv'
<1> USE DEF SaverInv
<1>1. Recovered' = Recovered BY DEF Recovered, Good
<1>2. NoNewer(saved, buf) => NoNewer(saved, buf') BY NoNewerOrder DEF TypeOK
<1> QED BY <1>1, <1>2 DEF SafeInv, Between, NoNewer, Good, Saving

\* An object is marked; it is not copied yet.
LEMMA MarkInv ==
  ASSUME SaverInv, NEW d \in Download, Mark(d) PROVE SaverInv'
<1> USE DEF SaverInv
<1>1. /\ pc = "fill" /\ d \in todo /\ marked' = d
      /\ UNCHANGED <<value, changing, dirty, pc, todo, buf, sav, bak, saved, faults,
                     stale, garbled>>
  BY DEF Mark, diskVars, history
<1>2. /\ notModified' \in [Object -> BOOLEAN]
      /\ \A x \in Object \ {d} : notModified'[x] = notModified[x]
      /\ \A x \in Object : notModified[x] => notModified'[x]
  BY DEF Mark, TypeOK, Object
<1>3. Listed' = Listed /\ IsDirty' = IsDirty BY <1>1 DEF Listed, IsDirty
<1>4. TypeOK' BY <1>1, <1>2 DEF TypeOK, Mark
<1>5. CopyInv'
  <2>1. \A e \in Listed \ todo : notModified'[e] = notModified[e]
    BY <1>1, <1>2 DEF Listed, Object
  <2> QED BY <1>1, <1>3, <2>1 DEF CopyInv, Saving, NoNewer
<1>6. BitsInv' BY <1>1, <1>2 DEF BitsInv
<1>7. FileInv' BY <1>1 DEF FileInv
<1>8. SafeInv'
  <2>1. NoNewer(buf, buf) BY NoNewerOrder DEF TypeOK
  <2> QED BY <1>1, <2>1, QuietSafe DEF TypeOK
<1>9. CleanInv' BY <1>1 DEF CleanInv
<1> QED BY <1>4, <1>5, <1>6, <1>7, <1>8, <1>9

\* An object is copied as it is.
LEMMA CopyStepInv ==
  ASSUME SaverInv, Copy PROVE SaverInv'
<1> USE DEF SaverInv
<1>1. /\ pc = "fill" /\ marked \in todo /\ marked \in Listed
      /\ todo' = todo \ {marked} /\ marked' = None
      /\ UNCHANGED <<value, changing, dirty, notModified, pc, grown, sav, bak, saved,
                     faults, stale, garbled>>
  BY DEF Copy, CopyInv, memVars, diskVars, history
<1>2. marked \in Download /\ value[marked] \in Version
  BY <1>1 DEF Listed, TypeOK, Content
<1>3. buf' = [buf EXCEPT ![marked] = value[marked]] BY DEF Copy
<1>4. NoNewer(buf, value) BY <1>1 DEF CopyInv, Saving
<1>5. buf' \in Content /\ NoNewer(buf, buf')
  <2>1. buf[marked] <= value[marked] BY <1>2, <1>4 DEF NoNewer
  <2> QED BY <1>2, <1>3, <2>1, Later DEF TypeOK
<1>6. \A e \in Download : buf'[e] = IF e = marked THEN value[e] ELSE buf[e]
  BY <1>3 DEF TypeOK, Content
<1>7. Listed' = Listed /\ IsDirty' = IsDirty BY <1>1 DEF Listed, IsDirty
<1>8. TypeOK' BY <1>1, <1>5 DEF TypeOK
<1>9. CopyInv'
  <2>1. NoNewer(buf', value)
    <3>1. NoNewer(value, value) BY NoNewerOrder DEF TypeOK
    <3> QED BY <1>4, <1>6, <3>1 DEF NoNewer
  <2>2. \A e \in Download \ Listed : buf'[e] = value[e]
    BY <1>1, <1>6 DEF CopyInv, Saving
  <2>3. \A e \in Listed \ todo' :
          notModified[e] /\ e \notin changing => buf'[e] = value[e]
    BY <1>1, <1>6 DEF CopyInv, Saving, Listed
  <2>4. NoNewer(buf, value)' BY <1>1, <2>1 DEF NoNewer
  <2> QED BY <1>1, <1>7, <2>2, <2>3, <2>4 DEF CopyInv, Saving
<1>10. BitsInv' BY <1>1 DEF BitsInv
<1>11. FileInv' BY <1>1 DEF FileInv
<1>12. SafeInv' BY <1>1, <1>5, QuietSafe
<1>13. CleanInv' BY <1>1 DEF CleanInv
<1> QED BY <1>8, <1>9, <1>10, <1>11, <1>12, <1>13
\* What is left when the copy is complete.
LEMMA Copied ==
  ASSUME SaverInv, pc = "fill", todo = {}
  PROVE  /\ marked = None /\ NoNewer(buf, value) /\ IsDirty /\ buf \in Content
         /\ faults <= 1 /\ ~garbled => NoNewer(saved, buf)
BY DEF SaverInv, CopyInv, SafeInv, Saving, TypeOK

\* Neither the list nor its bits change, and Save goes on or is given up.
LEMMA SameList ==
  ASSUME SaverInv, UNCHANGED <<memVars, todo, marked, buf>>, todo = {},
         Saving, pc' \in {"idle", "delete", "move"}
  PROVE  CopyInv' /\ BitsInv' /\ IsDirty'
<1>1. Listed' = Listed /\ IsDirty' = IsDirty BY DEF Listed, IsDirty, memVars
<1>2. marked = None BY DEF SaverInv, CopyInv
<1>3. IsDirty BY DEF SaverInv, CopyInv
<1> QED BY <1>1, <1>2, <1>3 DEF SaverInv, CopyInv, BitsInv, Saving, NoNewer, memVars

\* The copy is written to ".bak".
LEMMA SaveWriteInv ==
  ASSUME SaverInv, SaveWrite PROVE SaverInv'
<1> USE DEF SaverInv
<1>1. /\ pc = "fill" /\ pc' = "delete" /\ todo = {}
      /\ bak' = IF grown THEN Bad ELSE buf
      /\ garbled' = (garbled \/ grown)
      /\ UNCHANGED <<value, changing, dirty, notModified, todo, marked, buf, grown,
                     sav, saved, faults, stale>>
  BY DEF SaveWrite, memVars
<1>2. TypeOK' BY <1>1 DEF TypeOK
<1>3. CopyInv' /\ BitsInv' BY <1>1, SameList DEF memVars, Saving
<1>4. FileInv' BY <1>1 DEF FileInv
<1>5. SafeInv'
  <2>1. SUFFICES ASSUME faults <= 1, ~garbled, ~grown PROVE SafeInv'
    BY <1>1 DEF SafeInv
  <2>2. NoNewer(saved, buf) /\ NoNewer(buf, value) BY <1>1, <2>1, Copied
  <2>3. (Saving => NoNewer(saved, buf))' BY <1>1, <2>2 DEF NoNewer
  <2>4. ASSUME faults = 0 PROVE (Good(sav) \/ saved = Empty)' /\ Between(Recovered)'
    <3>1. Good(sav) \/ saved = Empty BY <1>1, <2>1, <2>4 DEF SafeInv
    <3>2. Between(Recovered) BY <1>1, <2>1, <2>4 DEF SafeInv
    <3>3. Recovered' = IF Good(sav) THEN Recovered ELSE buf
      BY <1>1, <2>1, GoodFile DEF Recovered, Good, TypeOK
    <3>4. Between(buf) BY <2>2 DEF Between
    <3> QED BY <1>1, <3>1, <3>2, <3>3, <3>4 DEF Between, NoNewer, Good
  <2> QED BY <1>1, <2>3, <2>4 DEF SafeInv
<1>6. CleanInv' BY <1>1 DEF CleanInv
<1> QED BY <1>2, <1>3, <1>4, <1>5, <1>6

\* ".sav" is deleted, once ".bak" is complete.
LEMMA SaveDeleteInv ==
  ASSUME SaverInv, SaveDelete PROVE SaverInv'
<1> USE DEF SaverInv
<1>1. /\ pc = "delete" /\ pc' = "move" /\ sav' = Missing
      /\ UNCHANGED <<value, changing, dirty, notModified, todo, marked, buf, grown,
                     bak, saved, faults, stale, garbled>>
  BY DEF SaveDelete, memVars, history
<1>2. TypeOK' BY <1>1 DEF TypeOK
<1>3. todo = {} BY <1>1 DEF CopyInv
<1>4. CopyInv' /\ BitsInv' BY <1>1, <1>3, SameList DEF memVars, Saving
<1>5. FileInv' BY <1>1, FileAssumption DEF FileInv
<1>6. SafeInv'
  <2>1. SUFFICES ASSUME faults <= 1, ~garbled PROVE SafeInv'
    BY <1>1 DEF SafeInv
  <2>2. Between(buf) BY <1>1, <2>1 DEF SafeInv, CopyInv, Saving, Between
  <2>3. Recovered' = buf
    BY <1>1, <2>1, GoodFile DEF Recovered, Good, FileInv, TypeOK
  <2> QED BY <1>1, <2>2, <2>3 DEF SafeInv, Between, NoNewer
<1>7. CleanInv' BY <1>1 DEF CleanInv
<1> QED BY <1>2, <1>4, <1>5, <1>6, <1>7

\* When the bits have been cleared and the list is clean, the copy is the list.
LEMMA ClearedIsCopied ==
  ASSUME SaverInv, pc = "move", OnStateSavedSuccessfully, value' = value
  PROVE  /\ dirty' \in [Object -> BOOLEAN]
         /\ ~IsDirty' => \A d \in Download :
                           d \notin changing \cap Listed => buf[d] = value[d]
<1> USE DEF SaverInv
<1>1. dirty' \in [Object -> BOOLEAN]
  BY DEF OnStateSavedSuccessfully, TypeOK
<1>2. ASSUME ~IsDirty', NEW d \in Download, d \notin changing \cap Listed
      PROVE  buf[d] = value[d]
  <2>1. CASE d \notin Listed BY <2>1 DEF CopyInv, Saving
  <2>2. CASE d \in Listed
    <3>1. Listed' = Listed BY DEF Listed
    <3>2. ~dirty'[d] BY <1>2, <2>2, <3>1 DEF IsDirty
    <3>3. dirty[d] => notModified[d]
      BY <2>2, <3>2 DEF OnStateSavedSuccessfully, Object
    <3>4. notModified[d] BY <3>3 DEF BitsInv, Object
    <3>5. todo = {} BY DEF CopyInv
    <3> QED BY <1>2, <2>2, <3>4, <3>5 DEF CopyInv, Saving
  <2> QED BY <2>1, <2>2
<1> QED BY <1>1, <1>2

\* Bits that are cleared were marked.
LEMMA ClearedBits ==
  ASSUME SaverInv, OnStateSavedSuccessfully, notModified' = notModified
  PROVE  BitsInv'
BY DEF SaverInv, BitsInv, OnStateSavedSuccessfully

\* ".bak" becomes ".sav", or it cannot, and the bits are cleared.
LEMMA SaveMoveInv ==
  ASSUME SaverInv, SaveMove PROVE SaverInv'
<1> USE DEF SaverInv
<1>1. /\ pc = "move" /\ pc' = "idle" /\ OnStateSavedSuccessfully
      /\ UNCHANGED <<value, changing, notModified, todo, marked, buf, grown>>
  BY DEF SaveMove
<1>2. dirty' \in [Object -> BOOLEAN] /\ BitsInv' /\ Listed' = Listed
  BY <1>1, ClearedIsCopied, ClearedBits DEF Listed
<1>3. todo = {} /\ marked = None BY <1>1 DEF CopyInv
<1>4. CopyInv' BY <1>1, <1>3 DEF CopyInv, Saving
<1>5. CASE sav = Missing
  <2>1. /\ sav' = bak /\ bak' = Missing /\ saved' = buf /\ faults' = 0
        /\ stale' = FALSE /\ garbled' = ~Good(bak)
    BY <1>5 DEF SaveMove
  <2>2. TypeOK'
    <3>1. 0 \in 0..MaxFaults BY BoundAssumption
    <3>2. garbled' \in BOOLEAN BY <2>1 DEF Good
    <3> QED BY <1>1, <1>2, <2>1, <3>1, <3>2 DEF TypeOK
  <2>3. FileInv' BY <1>1, <2>1 DEF FileInv, Good
  <2>4. Good(bak) => Recovered' = buf
    BY <1>1, <2>1 DEF Recovered, Good, FileInv
  <2>5. SafeInv'
    <3>1. SUFFICES ASSUME Good(bak) PROVE SafeInv' BY <2>1 DEF SafeInv
    <3>2. NoNewer(buf, buf) /\ NoNewer(buf, value)
      BY <1>1, NoNewerOrder DEF TypeOK, CopyInv, Saving
    <3>3. Between(Recovered)' BY <1>1, <2>1, <2>4, <3>1, <3>2 DEF Between, NoNewer
    <3> QED BY <1>1, <2>1, <3>1, <3>3 DEF SafeInv, Saving, Good
  <2>6. CleanInv' BY <1>1, <1>2, <2>1, <2>4, ClearedIsCopied DEF CleanInv
  <2> QED BY <1>2, <1>4, <2>2, <2>3, <2>5, <2>6
<1>6. CASE sav # Missing
  <2>1. stale' = TRUE /\ UNCHANGED <<sav, bak, saved, faults, garbled>>
    BY <1>6 DEF SaveMove
  <2>2. TypeOK' BY <1>1, <1>2, <2>1 DEF TypeOK
  <2>3. FileInv' BY <1>1, <2>1 DEF FileInv
  <2>4. SafeInv'
    <3>1. Recovered' = Recovered BY <2>1 DEF Recovered, Good
    <3>2. ~garbled => Good(sav) BY <1>6 DEF FileInv, Good
    <3> QED BY <1>1, <2>1, <3>1, <3>2 DEF SafeInv, Between, NoNewer, Saving, Good
  <2>5. CleanInv' BY <2>1 DEF CleanInv
  <2> QED BY <1>2, <1>4, <2>2, <2>3, <2>4, <2>5
<1> QED BY <1>5, <1>6
-----------------------------------------------------------------------------
(* Faults and the restart keep the invariant.                              *)

\* Save is given up before ".bak" is complete.
LEMMA SaveFailsInv ==
  ASSUME SaverInv, SaveFails PROVE SaverInv'
<1> USE DEF SaverInv
<1>1. /\ pc = "fill" /\ pc' = "idle" /\ todo' = {} /\ marked' = None
      /\ faults' = faults + 1 /\ faults < MaxFaults
      /\ UNCHANGED <<value, changing, dirty, notModified, buf, grown, sav, bak, saved,
                     stale, garbled>>
  BY DEF SaveFails, Fault, memVars, diskVars
<1>2. TypeOK' BY <1>1, BoundAssumption DEF TypeOK
<1>3. IsDirty' BY <1>1 DEF CopyInv, Saving, IsDirty, Listed
<1>4. CopyInv' BY <1>1 DEF CopyInv, Saving
<1>5. BitsInv' BY <1>1 DEF BitsInv
<1>6. FileInv' BY <1>1 DEF FileInv
<1>7. Recovered' = Recovered BY <1>1 DEF Recovered, Good
<1>8. faults \in Nat BY BoundAssumption DEF TypeOK
<1>9. SafeInv' BY <1>1, <1>7, <1>8 DEF SafeInv, Between, NoNewer, Saving
<1> QED BY <1>2, <1>3, <1>4, <1>5, <1>6, <1>9 DEF CleanInv

\* Save is given up with ".bak" complete.
LEMMA FlushFailsInv ==
  ASSUME SaverInv, FlushFails PROVE SaverInv'
<1> USE DEF SaverInv
<1>1. /\ pc = "fill" /\ pc' = "idle" /\ todo = {} /\ bak' = buf
      /\ faults' = faults + 1 /\ faults < MaxFaults
      /\ UNCHANGED <<value, changing, dirty, notModified, todo, marked, buf, grown, sav,
                     saved, stale, garbled>>
  BY DEF FlushFails, Fault, memVars
<1>2. TypeOK' BY <1>1, BoundAssumption DEF TypeOK
<1>3. CopyInv' /\ BitsInv' /\ IsDirty' BY <1>1, SameList DEF memVars, Saving
<1>4. FileInv' BY <1>1 DEF FileInv
<1>5. SafeInv'
  <2>1. faults \in Nat BY BoundAssumption DEF TypeOK
  <2>2. SUFFICES ASSUME faults = 0, ~garbled PROVE SafeInv'
    BY <1>1, <2>1 DEF SafeInv
  <2>3. Between(buf) BY <1>1, <2>2, Copied DEF Between
  <2>4. Between(Recovered) BY <1>1, <2>2 DEF SafeInv
  <2>5. Recovered' = IF Good(sav) THEN Recovered ELSE buf
    BY <1>1, GoodFile DEF Recovered, Good, TypeOK
  <2> QED BY <1>1, <2>2, <2>3, <2>4, <2>5 DEF SafeInv, Between, NoNewer, Saving
<1> QED BY <1>2, <1>3, <1>4, <1>5 DEF CleanInv

\* Save is given up because a buffer was outgrown.
LEMMA WriteRefusedInv ==
  ASSUME SaverInv, WriteRefused PROVE SaverInv'
<1> USE DEF SaverInv
<1>1. /\ pc = "fill" /\ pc' = "idle" /\ todo = {} /\ garbled' = TRUE
      /\ UNCHANGED <<value, changing, dirty, notModified, todo, marked, buf, grown, sav,
                     bak, saved, faults, stale>>
  BY DEF WriteRefused, memVars, diskVars
<1>2. TypeOK' BY <1>1 DEF TypeOK
<1>3. CopyInv' /\ BitsInv' BY <1>1, SameList DEF memVars, Saving
<1>4. FileInv' BY <1>1 DEF FileInv
<1> QED BY <1>1, <1>2, <1>3, <1>4 DEF SafeInv, CleanInv

\* ".sav" stays, which a rename will find out.
LEMMA DeleteFailsInv ==
  ASSUME SaverInv, DeleteFails PROVE SaverInv'
<1> USE DEF SaverInv
<1>1. /\ pc = "delete" /\ pc' = "move" /\ faults' = faults + 1 /\ faults < MaxFaults
      /\ UNCHANGED <<value, changing, dirty, notModified, todo, marked, buf, grown, sav,
                     bak, saved, stale, garbled>>
  BY DEF DeleteFails, Fault, memVars, diskVars
<1>2. TypeOK' BY <1>1, BoundAssumption DEF TypeOK
<1>3. todo = {} BY <1>1 DEF CopyInv
<1>4. CopyInv' /\ BitsInv' BY <1>1, <1>3, SameList DEF memVars, Saving
<1>5. FileInv' BY <1>1 DEF FileInv
<1>6. Recovered' = Recovered BY <1>1 DEF Recovered, Good
<1>7. faults \in Nat BY BoundAssumption DEF TypeOK
<1>8. SafeInv' BY <1>1, <1>6, <1>7 DEF SafeInv, Between, NoNewer, Saving
<1> QED BY <1>1, <1>2, <1>4, <1>5, <1>8 DEF CleanInv

\* ".bak" is left as the only copy.
LEMMA MoveFailsInv ==
  ASSUME SaverInv, MoveFails PROVE SaverInv'
<1> USE DEF SaverInv
<1>1. /\ pc = "move" /\ pc' = "idle" /\ sav = Missing /\ OnStateSavedSuccessfully
      /\ faults' = faults + 1 /\ faults < MaxFaults
      /\ UNCHANGED <<value, changing, notModified, todo, marked, buf, grown, sav, bak,
                     saved, stale, garbled>>
  BY DEF MoveFails, Fault, diskVars
<1>2. dirty' \in [Object -> BOOLEAN] /\ BitsInv' /\ Listed' = Listed
  BY <1>1, ClearedIsCopied, ClearedBits DEF Listed
<1>3. TypeOK' BY <1>1, <1>2, BoundAssumption DEF TypeOK
<1>4. CopyInv' BY <1>1 DEF CopyInv, Saving
<1>5. FileInv' BY <1>1 DEF FileInv
<1>6. Recovered' = Recovered BY <1>1 DEF Recovered, Good
<1>7. faults \in Nat BY BoundAssumption DEF TypeOK
<1>8. SafeInv' BY <1>1, <1>6, <1>7 DEF SafeInv, Between, NoNewer, Saving
<1>9. ~garbled => Recovered = buf
  BY <1>1, GoodFile DEF Recovered, Good, FileInv, TypeOK
<1>10. CleanInv' BY <1>1, <1>2, <1>6, <1>9, ClearedIsCopied DEF CleanInv
<1> QED BY <1>2, <1>3, <1>4, <1>5, <1>8, <1>10

\* Everything stops; inside Save that is a fault.
LEMMA CrashInv ==
  ASSUME SaverInv, Crash PROVE SaverInv'
<1> USE DEF SaverInv
<1>1. /\ pc # "down" /\ pc' = "down" /\ changing' = {} /\ todo' = {} /\ marked' = None
      /\ UNCHANGED <<value, dirty, notModified, buf, grown, sav, bak, saved, stale, garbled>>
  BY DEF Crash, diskVars
<1>2. faults \in Nat /\ faults' \in 0..MaxFaults /\ faults' >= faults
      /\ (pc # "idle" => faults' = faults + 1)
  BY BoundAssumption DEF Crash, Fault, TypeOK
<1>3. TypeOK' BY <1>1, <1>2 DEF TypeOK
<1>4. CopyInv' /\ BitsInv' /\ CleanInv' BY <1>1 DEF CopyInv, BitsInv, CleanInv, Saving
<1>5. FileInv' BY <1>1 DEF FileInv
<1>6. Recovered' = Recovered BY <1>1 DEF Recovered, Good
<1>7. SafeInv'
  <2>1. SUFFICES ASSUME faults' <= 1, ~garbled PROVE SafeInv'
    BY <1>1 DEF SafeInv
  <2>2. Between(Recovered) BY <1>1, <1>2, <2>1 DEF SafeInv, TypeOK
  <2>3. faults' = 0 => pc = "idle" /\ faults = 0 BY <1>2
  <2>4. faults' = 0 => Good(sav) \/ saved = Empty BY <2>1, <2>3 DEF SafeInv
  <2> QED BY <1>1, <1>6, <2>2, <2>4 DEF SafeInv, Between, NoNewer, Saving, Good
<1> QED BY <1>3, <1>4, <1>5, <1>7

\* The list is what the files say.
LEMMA LoadInv ==
  ASSUME SaverInv, Load PROVE SaverInv'
<1> USE DEF SaverInv
<1>1. /\ pc = "down" /\ pc' = "idle" /\ value' = Recovered
      /\ bak' = IF ~Good(sav) /\ bak = Bad THEN Missing ELSE bak
      /\ UNCHANGED <<changing, todo, marked, buf, grown, sav, saved, faults, stale, garbled>>
      /\ dirty' = [x \in Object |-> FALSE] /\ notModified' = [x \in Object |-> TRUE]
  BY DEF Load, history
<1>2. Recovered \in Content /\ NoNewer(Recovered, Recovered)
  BY ContentTyped, NoNewerOrder
<1>3. TypeOK' BY <1>1, <1>2 DEF TypeOK
<1>4. todo = {} /\ marked = None BY <1>1 DEF CopyInv
<1>5. CopyInv' /\ BitsInv' BY <1>1, <1>4 DEF CopyInv, BitsInv, Saving
<1>6. FileInv' BY <1>1 DEF FileInv
<1>7. Recovered' = Recovered BY <1>1, FileAssumption DEF Recovered, Good
<1>8. SafeInv'
  BY <1>1, <1>2, <1>7 DEF SafeInv, Between, NoNewer, Saving, Good
<1>9. CleanInv' BY <1>1, <1>7 DEF CleanInv
<1> QED BY <1>3, <1>5, <1>6, <1>8, <1>9
-----------------------------------------------------------------------------
\* A new installation has no files and no downloads.
LEMMA InitInv == Init => SaverInv
<1> SUFFICES ASSUME Init PROVE SaverInv OBVIOUS
<1> USE DEF Init
<1>1. Empty \in Content /\ NoNewer(Empty, Empty)
  BY ContentTyped, NoNewerOrder
<1>2. 0 \in 0..MaxFaults BY BoundAssumption
<1>3. TypeOK BY <1>1, <1>2 DEF TypeOK
<1>4. CopyInv /\ BitsInv BY DEF CopyInv, BitsInv, Saving
<1>5. FileInv BY FileAssumption DEF FileInv
<1>6. Recovered = Empty BY DEF Recovered, Good
<1>7. SafeInv BY <1>1, <1>6 DEF SafeInv, Between, Saving
<1>8. CleanInv BY <1>6 DEF CleanInv
<1> QED BY <1>3, <1>4, <1>5, <1>7, <1>8 DEF SaverInv

\* Every step keeps the invariant.
LEMMA StepInv == SaverInv /\ [Next]_vars => SaverInv'
<1> SUFFICES ASSUME SaverInv, [Next]_vars PROVE SaverInv' OBVIOUS
<1>1. ASSUME NEW d \in Download, Add(d) \/ Delete(d) \/ Change(d) \/ MarkChanged(d)
      PROVE  SaverInv'
  BY <1>1, AddInv, DeleteInv, ChangeInv, MarkChangedInv
<1>2. ASSUME SaveStep PROVE SaverInv'
  BY <1>2, SaveOpenInv, MarkInv, CopyStepInv, SaveWriteInv, SaveDeleteInv, SaveMoveInv
     DEF SaveStep
<1>3. ASSUME Faulty PROVE SaverInv'
  BY <1>3, SaveFailsInv, FlushFailsInv, WriteRefusedInv, DeleteFailsInv, MoveFailsInv,
     CrashInv DEF Faulty
<1>4. ASSUME Load PROVE SaverInv' BY <1>4, LoadInv
<1>5. ASSUME UNCHANGED vars PROVE SaverInv'
  <2>1. /\ UNCHANGED <<value, changing, dirty, notModified, pc, todo, marked, buf, grown>>
        /\ UNCHANGED <<sav, bak, saved, faults, stale, garbled>>
    BY <1>5 DEF vars, memVars, saveVars, diskVars, history
  <2>2. Listed' = Listed /\ IsDirty' = IsDirty /\ Recovered' = Recovered
    BY <2>1 DEF Listed, IsDirty, Recovered, Good
  <2> USE <2>1, <2>2 DEF SaverInv
  <2>3. TypeOK' BY DEF TypeOK
  <2>4. CopyInv' /\ BitsInv' BY DEF CopyInv, BitsInv, Saving, NoNewer
  <2>5. FileInv' /\ CleanInv' BY DEF FileInv, CleanInv
  <2>6. SafeInv' BY DEF SafeInv, Between, NoNewer, Saving, Good
  <2> QED BY <2>3, <2>4, <2>5, <2>6
<1> QED BY <1>1, <1>2, <1>3, <1>4, <1>5 DEF Next

\* The list, its copy, its bits and its files agree in every state of the
\* program, whatever fails and wherever it stops.
THEOREM SaverInvariance == Spec => []SaverInv
BY InitInv, StepInv, PTL DEF Spec

\* Every variable keeps its type.
THEOREM TypeCorrect == Spec => []TypeOK
<1>1. SaverInv => TypeOK BY DEF SaverInv
<1> QED BY <1>1, SaverInvariance, PTL

\* One fault between two completed saves never loses what the first has saved.
THEOREM OneFaultSurvived == Spec => []SurvivesOneFault
<1>1. SaverInv => SurvivesOneFault
  BY DEF SaverInv, SafeInv, SurvivesOneFault, Between
<1> QED BY <1>1, SaverInvariance, PTL

\* A clean list is on disk, however changes and the copying interleave.
THEOREM CleanListIsSaved == Spec => []CleanIsSaved
<1>1. SaverInv => CleanIsSaved BY DEF SaverInv, CleanInv, CleanIsSaved
<1> QED BY <1>1, SaverInvariance, PTL
-----------------------------------------------------------------------------
(* The promise of DurableList.                                             *)

\* Without an outgrown buffer nothing is garbled.
LEMMA CalmStep ==
  ASSUME MaxFaults <= 1, ~MayGrow, SaverInv, Calm, [Next]_vars PROVE Calm'
<1>1. SaverInv' BY StepInv
<1>2. faults' <= 1 BY <1>1, BoundAssumption DEF SaverInv, TypeOK
<1>3. ~grown' /\ ~garbled'
  <2>1. ASSUME NEW d \in Download, Add(d) \/ Delete(d) \/ Change(d) \/ MarkChanged(d)
        PROVE  ~grown' /\ ~garbled'
    BY <2>1 DEF Calm, Add, Delete, Change, MarkChanged, saveVars, history
  <2>2. CASE SaveOpen BY <2>2 DEF Calm, SaveOpen, history
  <2>3. ASSUME NEW d \in Download, Mark(d) PROVE ~grown' /\ ~garbled'
    BY <2>3 DEF Calm, Mark, history
  <2>4. CASE Copy \/ SaveWrite \/ SaveDelete
    <3>1. CASE Copy BY <3>1 DEF Calm, Copy, history
    <3>2. CASE SaveWrite
      <4>1. grown' = grown /\ (garbled' <=> (garbled \/ grown)) BY <3>2 DEF SaveWrite
      <4> QED BY <4>1 DEF Calm
    <3>3. CASE SaveDelete BY <3>3 DEF Calm, SaveDelete, history
    <3> QED BY <2>4, <3>1, <3>2, <3>3
  <2>5. CASE SaveMove
    <3>1. pc = "move" => Good(bak)
      BY GoodFile DEF Calm, SaverInv, FileInv, TypeOK
    <3> QED BY <2>5, <3>1 DEF Calm, SaveMove
  <2>6. CASE Faulty
    BY <2>6 DEF Calm, Faulty, SaveFails, FlushFails, WriteRefused, DeleteFails,
                MoveFails, Crash
  <2>7. CASE Load BY <2>7 DEF Calm, Load, history
  <2>8. CASE UNCHANGED vars BY <2>8 DEF Calm, vars, saveVars, history
  <2> QED BY <2>1, <2>2, <2>3, <2>4, <2>5, <2>6, <2>7, <2>8 DEF Next, SaveStep
<1> QED BY <1>2, <1>3 DEF Calm

\* The lists of the two modules are the same, and so is their order.
LEMMA SameOrder ==
  /\ Durable!Content = Content /\ Durable!Empty = Empty
  /\ \A f, g : Durable!NoNewer(f, g) <=> NoNewer(f, g)
BY DEF Durable!Content, Durable!Version, Content, Version, Durable!Empty, Empty,
       Durable!NoNewer, NoNewer

\* Changes of the list are edits.
LEMMA EditStep ==
  ASSUME SaverInv, NEW d \in Download, Add(d) \/ Delete(d) \/ Change(d)
  PROVE  Durable!Next
<1>1. /\ UNCHANGED <<pc, saved>> /\ pc # "down"
      /\ \E v \in Version : value[d] <= v /\ value' = [value EXCEPT ![d] = v]
  <2>1. value[d] \in Int /\ 0 <= value[d] /\ value[d] <= LastVersion
    BY VersionAssumption DEF SaverInv, TypeOK, Content, Version
  <2>2. CASE Add(d)
    <3>1. 1 \in Version BY VersionAssumption DEF Version
    <3>2. value[d] <= 1 /\ value' = [value EXCEPT ![d] = 1] BY <2>2 DEF Add
    <3> QED BY <2>2, <3>1, <3>2 DEF Add, saveVars, history
  <2>3. CASE Delete(d)
    <3>1. LastVersion \in Version BY VersionAssumption DEF Version
    <3> QED BY <2>1, <2>3, <3>1 DEF Delete, saveVars, history
  <2>4. CASE Change(d)
    <3>1. value[d] + 1 \in Version /\ value[d] <= value[d] + 1
      BY <2>1, <2>4, VersionAssumption DEF Change, Version
    <3> QED BY <2>4, <3>1 DEF Change, history
  <2> QED BY <2>2, <2>3, <2>4
<1>2. value' \in Content /\ NoNewer(value, value')
  <2>1. PICK v \in Version : value[d] <= v /\ value' = [value EXCEPT ![d] = v]
    BY <1>1
  <2> QED BY <2>1, Later DEF SaverInv, TypeOK
<1> QED BY <1>1, <1>2, SameOrder DEF Durable!Next, Durable!Edit

\* Every step of Save, of a thread, of the system or of Load is a step of
\* DurableList, or none.
LEMMA DurableStep ==
  ASSUME SaverInv, SaverInv', Calm, [Next]_vars
  PROVE  [Durable!Next]_(Durable!durableVars)
<1> USE DEF Durable!durableVars
<1>1. ASSUME NEW d \in Download, Add(d) \/ Delete(d) \/ Change(d) PROVE Durable!Next
  BY <1>1, EditStep
<1>2. ASSUME NEW d \in Download, MarkChanged(d) PROVE UNCHANGED <<value, saved, pc>>
  BY <1>2 DEF MarkChanged, saveVars, history
<1>3. CASE SaveMove
  <2>1. CASE sav = Missing
    <3>1. pc = "move" /\ pc' = "idle" /\ value' = value /\ saved' = buf
      BY <1>3, <2>1 DEF SaveMove
    <3>2. buf \in Content /\ NoNewer(saved, buf) /\ NoNewer(buf, value)
      BY <3>1 DEF SaverInv, TypeOK, CopyInv, SafeInv, Saving, Calm
    <3> QED BY <3>1, <3>2, SameOrder DEF Durable!Next, Durable!Save
  <2>2. CASE sav # Missing
    BY <1>3, <2>2 DEF SaveMove
  <2> QED BY <2>1, <2>2
<1>4. ASSUME SaveOpen \/ (\E d \in Download : Mark(d)) \/ Copy \/ SaveWrite \/ SaveDelete
      PROVE  UNCHANGED <<value, saved>> /\ pc # "down" /\ pc' # "down"
  BY <1>4 DEF SaveOpen, Mark, Copy, SaveWrite, SaveDelete, memVars, history
<1>5. CASE Crash
  BY <1>5 DEF Crash, Durable!Next, Durable!Crash
<1>6. ASSUME SaveFails \/ FlushFails \/ WriteRefused \/ DeleteFails \/ MoveFails
      PROVE  UNCHANGED <<value, saved>> /\ pc # "down" /\ pc' # "down"
  BY <1>6 DEF SaveFails, FlushFails, WriteRefused, DeleteFails, MoveFails, memVars
<1>7. CASE Load
  <2>1. pc = "down" /\ pc' = "idle" /\ value' = Recovered /\ saved' = saved
    BY <1>7 DEF Load, history
  <2>2. Recovered \in Content BY ContentTyped DEF SaverInv
  <2>3. NoNewer(saved, Recovered) /\ NoNewer(Recovered, value)
    BY <2>1 DEF SaverInv, SafeInv, Calm, Between
  <2> QED BY <2>1, <2>2, <2>3, SameOrder DEF Durable!Next, Durable!Restart
<1>8. CASE UNCHANGED vars
  BY <1>8 DEF vars, memVars, saveVars, history
<1> QED BY <1>1, <1>2, <1>3, <1>4, <1>5, <1>6, <1>7, <1>8
        DEF Next, SaveStep, Faulty

\* While no buffer has been outgrown, and one fault at most has struck since the
\* last save, every step of the saver is a step of DurableList or none.
THEOREM ImplementsWhileCalm == Spec => DurableWhileCalm
<1>1. Init => Durable!Init BY SameOrder DEF Init, Durable!Init
<1>2. SaverInv /\ SaverInv' /\ [Next]_vars
        => [Calm => Durable!Next]_(Durable!durableVars)
  BY DurableStep
<1> QED BY <1>1, <1>2, SaverInvariance, PTL DEF Spec, DurableWhileCalm

\* With one fault at most between two saves and no buffer outgrown, a restart
\* brings every download back no older than the last save left it.
THEOREM ImplementsDurable == MaxFaults <= 1 /\ ~MayGrow => (Spec => DurableSpec)
<1> SUFFICES ASSUME MaxFaults <= 1, ~MayGrow PROVE Spec => DurableSpec OBVIOUS
<1>1. Init => Calm BY DEF Init, Calm
<1>2. SaverInv /\ Calm /\ [Next]_vars => Calm' BY CalmStep
<1>3. Init => Durable!Init BY SameOrder DEF Init, Durable!Init
<1>4. SaverInv /\ SaverInv' /\ Calm /\ [Next]_vars
        => [Durable!Next]_(Durable!durableVars)
  BY DurableStep
<1> QED BY <1>1, <1>2, <1>3, <1>4, SaverInvariance, PTL
        DEF Spec, DurableSpec, Durable!Spec
=============================================================================
