------------------------ MODULE ProcessDownloadsProofs ------------------------
(***************************************************************************)
(* Theorems of ProcessDownloads, for any number of downloads, users,       *)
(* servers and connections: it is well typed, no download is started       *)
(* beyond the limits unless two threads start downloads at once, the       *)
(* manager starts only what is, or has been meanwhile, in the queue, and   *)
(* the queue does not stop while something waits in it.                    *)
(***************************************************************************)
EXTENDS ProcessDownloads, FiniteSetTheorems, TLAPS

USE DEF dldV, callV, passV, histV

\* A pass is at a download of the list.
Walks == pc[Manager] \in {"look", "act"} => pass.i \in Dld

\* What TypeOK says of the places, and of the rest.
PlacesOK ==
  /\ pc \in [Actor -> UserPC \cup ManagerPC]
  /\ pc[Manager] \in ManagerPC /\ \A u \in User : pc[u] \in UserPC

DataOK ==
  /\ list \subseteq Dld
  /\ running \in [Dld -> BOOLEAN] /\ needStop \in [Dld -> BOOLEAN]
  /\ done \in [Dld -> BOOLEAN] /\ bAutoStart \in [Dld -> BOOLEAN]
  /\ recent \in [Dld -> BOOLEAN]
  /\ ended \in [Dld -> 0..MaxEnds]
  /\ cConnsNow \in [Site -> 0..UIntMax]
  /\ settings \in Settings /\ needPD \in BOOLEAN /\ bDisablePD \in BOOLEAN
  /\ todo \in [Actor -> SUBSET Dld] /\ cRunning \in [Actor -> Nat]
  /\ pass \in Pass /\ calls \in 0..MaxCalls
  /\ touched \subseteq Dld /\ unseen \subseteq Dld
  /\ mixed \in [Actor -> BOOLEAN] /\ stirred \in BOOLEAN

TypeInv == PlacesOK /\ DataOK /\ Walks
-----------------------------------------------------------------------------
(* The helpers.                                                            *)

\* A set of downloads that is not empty has a first one.
LEMMA FirstIn ==
  ASSUME NEW S \in SUBSET Dld, S # {}
  PROVE  First(S) \in S /\ First(S) \in Dld /\ \A d \in S : First(S) <= d
<1>1. S \subseteq Nat BY QueueAssumption DEF Dld
<1>2. \E d \in S : \A e \in S : ~(<<e, d>> \in OpToRel(<, Nat))
  BY <1>1, NatLessThanWellFounded, WFMin
<1>3. \E d \in S : \A e \in S : d <= e
  <2>1. PICK d \in S : \A e \in S : ~(<<e, d>> \in OpToRel(<, Nat)) BY <1>2
  <2>2. \A e \in S : ~(e < d) BY <1>1, <2>1 DEF OpToRel
  <2> QED BY <1>1, <2>2
<1> QED BY <1>3 DEF First

\* A walk goes on to a later download, or to the end.
LEMMA Advances ==
  ASSUME list \subseteq Dld, NEW i \in 0..(N + 1)
  PROVE  /\ After(i) \in 1..(N + 1)
         /\ After(i) \in Dld => After(i) > i
         /\ After(i) \in Dld => After(i) \in list
         /\ \A d \in list : d < After(i) => d <= i
         /\ Looking(After(i)) = "unlock" => \A d \in list : d < After(i)
         /\ Looking(After(i)) \in {"look", "unlock"}
         /\ Looking(After(i)) = "look" => After(i) \in Dld
<1> DEFINE Rest == {d \in list : d > i}
<1>0. /\ N \in Nat /\ i \in Nat /\ \A d \in Dld : d \in Nat /\ d <= N
      /\ \A d \in list : d \in Nat
  BY QueueAssumption DEF Dld
<1>1. CASE Rest # {}
  <2>1. /\ First(Rest) \in Rest /\ First(Rest) \in Dld
        /\ \A d \in Rest : First(Rest) <= d
    BY <1>1, FirstIn
  <2>2. After(i) = First(Rest) BY <1>1 DEF After
  <2>3. \A d \in list : d < After(i) => d <= i BY <1>0, <2>1, <2>2
  <2>4. /\ After(i) \in Dld /\ After(i) \in list /\ After(i) > i /\ After(i) <= N
    BY <1>0, <2>1, <2>2
  <2>5. Looking(After(i)) = "look" BY <1>0, <2>4 DEF Looking
  <2> QED BY <1>0, <2>3, <2>4, <2>5
<1>2. CASE Rest = {}
  <2>1. After(i) = N + 1 BY <1>2 DEF After
  <2>2. \A d \in list : d <= i BY <1>0, <1>2
  <2>3. After(i) \notin Dld /\ After(i) > N BY <1>0, <2>1
  <2> QED BY <1>0, <2>1, <2>2, <2>3 DEF Looking
<1> QED BY <1>1, <1>2

\* The running downloads are finitely many.
LEMMA RunningFinite ==
  ASSUME list \subseteq Dld
  PROVE  IsFiniteSet(Running) /\ Cardinality(Running) \in Nat
<1>1. IsFiniteSet(Dld) BY FS_Interval, QueueAssumption DEF Dld
<1>2. Running \subseteq Dld BY DEF Running
<1> QED BY <1>1, <1>2, FS_Subset, FS_CardinalityType
\* An actor goes to a place of its own code.
LEMMA Goes ==
  ASSUME PlacesOK, NEW t \in Actor, NEW l, Goto(t, l),
         l \in IF t = Manager THEN ManagerPC ELSE UserPC
  PROVE  PlacesOK'
<1>1. t # Manager => t \in User BY DEF Actor
<1> QED BY <1>1, QueueAssumption DEF PlacesOK, Goto, Actor
-----------------------------------------------------------------------------
(* Types.                                                                  *)

LEMMA InitTyped == Init => TypeInv
<1> SUFFICES ASSUME Init PROVE TypeInv OBVIOUS
<1>1. N + 1 \in 1..(N + 1) BY QueueAssumption
<1>2. pass \in Pass BY <1>1, QueueAssumption DEF Init, NoPass, Pass
<1>3. PlacesOK BY DEF Init, PlacesOK, UserPC, ManagerPC, Actor
<1>4. /\ ended \in [Dld -> 0..MaxEnds] /\ cConnsNow \in [Site -> 0..UIntMax]
      /\ calls \in 0..MaxCalls /\ cRunning \in [Actor -> Nat]
  BY QueueAssumption DEF Init
<1>5. DataOK BY <1>2, <1>4 DEF Init, DataOK
<1>6. Walks BY DEF Init, Walks, Actor
<1> QED BY <1>3, <1>5, <1>6 DEF TypeInv

\* What is left of a budget is a budget.
LEMMA LessTyped ==
  ASSUME NEW a \in 0..UIntMax, NEW b \in Nat PROVE Less(a, b) \in 0..UIntMax
BY QueueAssumption DEF Less

\* The manager's own steps.
LEMMA PassTyped ==
  ASSUME TypeInv, ProcessDownloads PROVE TypeInv'
<1> USE DEF TypeInv
<1>0. /\ Manager \in Actor /\ Manager \notin User /\ N \in Nat /\ UIntMax \in Nat
      /\ settings.tasks \in 1..UIntMax /\ settings.conns \in 1..UIntMax
      /\ settings.perSite \in 1..UIntMax /\ 0 \in 0..(N + 1)
  BY QueueAssumption DEF Actor, DataOK
<1>1. NoPass \in Pass /\ pass \in Pass BY <1>0 DEF NoPass, Pass, DataOK
<1>2. CASE ManagerWakes
  <2>1. PlacesOK' BY <1>0, <1>2, Goes DEF ManagerWakes, ManagerPC
  <2>2. DataOK' BY <1>2 DEF ManagerWakes, DataOK
  <2>3. Walks' BY <1>0, <1>2 DEF ManagerWakes, Walks, Goto, PlacesOK
  <2> QED BY <2>1, <2>2, <2>3
<1>3. CASE Disabled
  <2>1. PlacesOK' BY <1>0, <1>3, Goes DEF Disabled, ManagerPC
  <2>2. DataOK' BY <1>3 DEF Disabled, DataOK
  <2>3. Walks' BY <1>0, <1>3 DEF Disabled, Walks, Goto, PlacesOK
  <2> QED BY <2>1, <2>2, <2>3
<1>4. CASE Begin
  <2>1. /\ After(0) \in 1..(N + 1) /\ Looking(After(0)) \in {"look", "unlock"}
        /\ Looking(After(0)) = "look" => After(0) \in Dld
    BY <1>0, Advances DEF DataOK
  <2>2. settings.conns \in 0..UIntMax /\ Smaller(settings.tasks, 20) \in 0..20
    BY <1>0 DEF Smaller
  <2>3. pass' \in Pass /\ pass'.i = After(0)
    BY <1>1, <1>4, <2>1, <2>2 DEF Begin, Pass
  <2>4. cConnsNow' \in [Site -> 0..UIntMax]
    BY <1>0, <1>4, QueueAssumption DEF Begin, Smaller
  <2>5. PlacesOK' BY <1>0, <1>4, <2>1, Goes DEF Begin, ManagerPC
  <2>6. DataOK' BY <1>4, <2>3, <2>4 DEF Begin, DataOK
  <2>7. Walks' BY <1>0, <1>4, <2>1, <2>3 DEF Begin, Walks, Goto, PlacesOK
  <2> QED BY <2>5, <2>6, <2>7
<1>5. CASE LookDone
  <2>1. pass.i \in Dld /\ pass.i \in 0..(N + 1)
    BY <1>5, <1>0 DEF LookDone, Walks, Dld
  <2>2. /\ After(pass.i) \in 1..(N + 1)
        /\ Looking(After(pass.i)) \in {"look", "unlock"}
        /\ Looking(After(pass.i)) = "look" => After(pass.i) \in Dld
    BY <2>1, Advances DEF DataOK
  <2>3. pass' \in Pass /\ pass'.i = After(pass.i)
    BY <1>1, <1>5, <2>2 DEF LookDone, Pass
  <2>4. PlacesOK' BY <1>0, <1>5, <2>2, Goes DEF LookDone, ManagerPC
  <2>5. DataOK' BY <1>5, <2>3 DEF LookDone, DataOK
  <2>6. Walks' BY <1>0, <1>5, <2>2, <2>3 DEF LookDone, Walks, Goto, PlacesOK
  <2> QED BY <2>4, <2>5, <2>6
<1>6. ASSUME NEW p \in Pass, Looks, Look(p), p.i = pass.i,
             recent' \in [Dld -> BOOLEAN], cConnsNow' \in [Site -> 0..UIntMax]
      PROVE  TypeInv'
  <2>1. PlacesOK' BY <1>0, <1>6, Goes DEF Look, ManagerPC
  <2>2. DataOK' BY <1>6 DEF Look, DataOK
  <2>3. Walks' BY <1>6 DEF Looks, Look, Walks
  <2> QED BY <2>1, <2>2, <2>3
<1>7. CASE Reject
  BY <1>1, <1>6, <1>7 DEF Reject, DataOK
<1>8. CASE TooSoon
  <2> DEFINE p == [pass EXCEPT !.bogus = IF @ = None THEN pass.i ELSE @]
  <2>1. p \in Pass /\ p.i = pass.i BY <1>1, <1>8 DEF TooSoon, Looks, Walks, Pass
  <2> QED BY <1>6, <1>8, <2>1 DEF TooSoon, DataOK
<1>9. CASE Accept
  <2> DEFINE d == pass.i
             s == SiteOf[d]
             p(k, more) == [pass EXCEPT !.accept = TRUE,
                              !.cConns = Less(pass.cConns, k) - more, !.cDlds = @ - 1]
  <2>1. /\ Looks /\ d \in Dld /\ s \in Site
        /\ pass.cDlds > 0 /\ pass.cDlds \in 0..20 /\ pass.cConns \in 0..UIntMax
        /\ cConnsNow[s] \in 0..UIntMax
    BY <1>1, <1>9, QueueAssumption DEF Accept, Looks, Walks, Fits, DataOK, Pass
  <2>2. PICK k \in Share(d) :
          \E more \in {0} \cup (IF Less(pass.cConns, k) > 0 THEN {1} ELSE {}) :
            /\ Look(p(k, more))
            /\ cConnsNow' = [cConnsNow EXCEPT ![s] = Less(@, k + more)]
    BY <1>9 DEF Accept
  <2>3. PICK more \in {0} \cup (IF Less(pass.cConns, k) > 0 THEN {1} ELSE {}) :
            /\ Look(p(k, more))
            /\ cConnsNow' = [cConnsNow EXCEPT ![s] = Less(@, k + more)]
    BY <2>2
  <2>4. k \in Nat
    BY <1>0, <2>1, QueueAssumption DEF Share, Smaller
  <2>5. Less(pass.cConns, k) \in 0..UIntMax
    BY <2>1, <2>4, LessTyped
  <2>6. more \in Nat /\ Less(pass.cConns, k) - more \in 0..UIntMax
    BY <1>0, <2>5
  <2>7. Less(cConnsNow[s], k + more) \in 0..UIntMax
    <3>1. k + more \in Nat BY <2>4, <2>6
    <3> QED BY <2>1, <3>1, LessTyped
  <2>8. p(k, more) \in Pass /\ p(k, more).i = pass.i
    <3>1. pass.cDlds - 1 \in 0..20 BY <2>1
    <3> QED BY <1>1, <2>6, <3>1 DEF Pass
  <2>9. cConnsNow' \in [Site -> 0..UIntMax] BY <2>3, <2>7 DEF DataOK
  <2>10. recent' \in [Dld -> BOOLEAN] BY <1>9 DEF Accept, DataOK
  <2> QED BY <1>6, <2>1, <2>3, <2>8, <2>9, <2>10
<1>10. CASE Act
  <2>1. pass.i \in Dld /\ pass.i \in 0..(N + 1)
    BY <1>10, <1>0 DEF Act, Walks, Dld
  <2>2. /\ After(pass.i) \in 1..(N + 1)
        /\ Looking(After(pass.i)) \in {"look", "unlock"}
        /\ Looking(After(pass.i)) = "look" => After(pass.i) \in Dld
    BY <2>1, Advances DEF DataOK
  <2>3. PICK stops \in BOOLEAN :
          /\ pass' = [pass EXCEPT
               !.toStart = @ \cup (IF pass.accept /\ ~running[pass.i] THEN {pass.i} ELSE {}),
               !.toStop = @ \cup (IF stops THEN {pass.i} ELSE {}),
               !.i = After(@), !.accept = FALSE]
          /\ recent' = [recent EXCEPT ![pass.i] = @ \/ stops]
    BY <1>10, Zenon DEF Act
  <2>4. pass' \in Pass /\ pass'.i = After(pass.i)
    BY <1>1, <2>1, <2>2, <2>3 DEF Pass
  <2>5. recent' \in [Dld -> BOOLEAN] BY <2>1, <2>3 DEF DataOK
  <2>6. PlacesOK' BY <1>0, <1>10, <2>2, Goes DEF Act, ManagerPC
  <2>7. DataOK' BY <1>10, <2>4, <2>5 DEF Act, DataOK
  <2>8. Walks' BY <1>0, <1>10, <2>2, <2>4 DEF Act, Walks, Goto, PlacesOK
  <2> QED BY <2>6, <2>7, <2>8
<1>11. CASE Unlock
  <2>1. pass' \in Pass
    BY <1>1, <1>11 DEF Unlock, NobodyElse, Pass
  <2>2. pass.toStop \in SUBSET Dld BY <1>1 DEF Pass
  <2>3. cConnsNow' \in [Site -> 0..UIntMax] BY <1>0, <1>11 DEF Unlock
  <2>4. PlacesOK' BY <1>0, <1>11, Goes DEF Unlock, ManagerPC
  <2>5. DataOK' BY <1>11, <2>1, <2>2, <2>3 DEF Unlock, DataOK
  <2>6. Walks' BY <1>0, <1>11 DEF Unlock, Walks, Goto, PlacesOK
  <2> QED BY <2>4, <2>5, <2>6
<1> QED BY <1>2, <1>3, <1>4, <1>5, <1>7, <1>8, <1>9, <1>10, <1>11
        DEF ProcessDownloads

\* StopDownloads and StartDownloads.
LEMMA StartStopTyped ==
  ASSUME TypeInv, NEW t \in Actor, StartStop(t) PROVE TypeInv'
<1> USE DEF TypeInv
<1>0. Manager \in Actor /\ Manager \notin User /\ User \subseteq Actor
  BY QueueAssumption DEF Actor
<1>1. /\ NoPass \in Pass /\ pass.toStart \in SUBSET Dld
      /\ "idle" \in UserPC \cap ManagerPC /\ "count" \in ManagerPC
      /\ "start" \in UserPC \cap ManagerPC
  BY QueueAssumption DEF NoPass, Pass, DataOK, UserPC, ManagerPC
<1>2. todo[t] # {} => First(todo[t]) \in Dld BY FirstIn DEF DataOK
<1>3. CASE StopOne(t)
  BY <1>2, <1>3 DEF StopOne, PlacesOK, DataOK, Walks
<1>4. CASE StopsDone(t)
  <2>1. PlacesOK' BY <1>1, <1>4, Goes DEF StopsDone
  <2>2. DataOK' BY <1>1, <1>4 DEF StopsDone, DataOK
  <2>3. Walks' BY <1>0, <1>4 DEF StopsDone, Walks, Goto, PlacesOK
  <2> QED BY <2>1, <2>2, <2>3
<1>5. CASE Count(t)
  <2>1. Cardinality(Running) \in Nat BY RunningFinite DEF DataOK
  <2>2. PlacesOK' BY <1>1, <1>5, Goes DEF Count
  <2>3. DataOK' BY <1>5, <2>1 DEF Count, DataOK
  <2>4. Walks' BY <1>0, <1>5 DEF Count, Walks, Goto, PlacesOK
  <2> QED BY <2>2, <2>3, <2>4
<1>6. CASE StartSkipped(t)
  BY <1>6 DEF StartSkipped, PlacesOK, DataOK, Walks
<1>7. CASE StartOne(t)
  <2>1. DataOK' BY <1>2, <1>7 DEF StartOne, DataOK
  <2> QED BY <1>7, <2>1 DEF StartOne, PlacesOK, Walks
<1>8. CASE StartQueued(t)
  <2>1. DataOK' BY <1>2, <1>8 DEF StartQueued, DataOK
  <2> QED BY <1>8, <2>1 DEF StartQueued, PlacesOK, Walks
<1>9. CASE StartsDone(t)
  <2>1. PlacesOK' BY <1>1, <1>9, Goes DEF StartsDone
  <2>2. DataOK' BY <1>9 DEF StartsDone, DataOK
  <2>3. Walks' BY <1>0, <1>9 DEF StartsDone, Walks, Goto, PlacesOK
  <2> QED BY <2>1, <2>2, <2>3
<1> QED BY <1>3, <1>4, <1>5, <1>6, <1>7, <1>8, <1>9 DEF StartStop

\* The calls of the users.
LEMMA UserTyped ==
  ASSUME TypeInv, NEW u \in User, UserCalls(u) \/ UserSteps(u) PROVE TypeInv'
<1> USE DEF TypeInv
<1>0. u \in Actor /\ u # Manager /\ Manager \in Actor
  BY QueueAssumption DEF Actor
<1>1. Calls(u) => calls' \in 0..MaxCalls BY QueueAssumption DEF Calls, DataOK
<1>2. UserPC = {"idle", "stop", "count", "start", "changed", "delete", "deleted"}
  BY DEF UserPC
<1>3. ASSUME NEW l, Goto(u, l), pass' = pass PROVE Walks'
  BY <1>0, <1>3 DEF Walks, Goto, PlacesOK
<1>4. CASE StartCall(u)
  <2>1. PlacesOK' BY <1>0, <1>2, <1>4, Goes DEF StartCall
  <2>2. DataOK' BY <1>1, <1>4 DEF StartCall, DataOK
  <2> QED BY <1>3, <1>4, <2>1, <2>2 DEF StartCall
<1>5. CASE StopCall(u)
  <2>1. PlacesOK' BY <1>0, <1>2, <1>5, Goes DEF StopCall
  <2>2. PICK S \in SUBSET list :
          /\ todo' = [todo EXCEPT ![u] = S]
          /\ bAutoStart' = Set(bAutoStart, S, FALSE) /\ Touch(S)
    BY <1>5 DEF StopCall
  <2>3. bAutoStart' \in [Dld -> BOOLEAN] /\ touched' \subseteq Dld
    BY <2>2 DEF Set, Touch, DataOK
  <2>4. DataOK' BY <1>1, <1>5, <2>2, <2>3 DEF StopCall, DataOK
  <2> QED BY <1>3, <1>5, <2>1, <2>4 DEF StopCall
<1>6. CASE SetAutoStart(u)
  <2>1. PICK d \in list : bAutoStart' = [bAutoStart EXCEPT ![d] = ~@] /\ Touch({d})
    BY <1>6 DEF SetAutoStart
  <2>2. bAutoStart' \in [Dld -> BOOLEAN] /\ touched' \subseteq Dld
    BY <2>1 DEF Touch, DataOK
  <2>3. DataOK' BY <1>1, <1>6, <2>2 DEF SetAutoStart, DataOK
  <2> QED BY <1>6, <2>3 DEF SetAutoStart, PlacesOK, Walks
<1>7. CASE ChangeSettings(u)
  <2>1. PlacesOK' BY <1>0, <1>2, <1>7, Goes DEF ChangeSettings
  <2>2. DataOK' BY <1>1, <1>7 DEF ChangeSettings, DataOK
  <2> QED BY <1>3, <1>7, <2>1, <2>2 DEF ChangeSettings
<1>8. CASE Delete(u)
  <2>1. PlacesOK' BY <1>0, <1>2, <1>8, Goes DEF Delete
  <2>2. PICK d \in list : todo' = [todo EXCEPT ![u] = {d}] BY <1>8 DEF Delete
  <2>3. todo' \in [Actor -> SUBSET Dld] BY <1>0, <2>2 DEF DataOK
  <2>4. DataOK' BY <1>1, <1>8, <2>3 DEF Delete, DataOK
  <2> QED BY <1>3, <1>8, <2>1, <2>4 DEF Delete
<1>9. CASE Changed(u)
  <2>1. PlacesOK' BY <1>0, <1>2, <1>9, Goes DEF Changed
  <2>2. DataOK' BY <1>9 DEF Changed, DataOK
  <2> QED BY <1>3, <1>9, <2>1, <2>2 DEF Changed
<1>10. CASE DeleteUnlock(u)
  <2>1. PlacesOK' BY <1>0, <1>2, <1>10, Goes DEF DeleteUnlock
  <2>2. DataOK' BY <1>10 DEF DeleteUnlock, DataOK
  <2> QED BY <1>3, <1>10, <2>1, <2>2 DEF DeleteUnlock
<1>11. CASE DeleteEnd(u)
  <2>1. PlacesOK' BY <1>0, <1>2, <1>11, Goes DEF DeleteEnd
  <2>2. DataOK' BY <1>11 DEF DeleteEnd, DataOK
  <2> QED BY <1>3, <1>11, <2>1, <2>2 DEF DeleteEnd
<1> QED BY <1>4, <1>5, <1>6, <1>7, <1>8, <1>9, <1>10, <1>11
        DEF UserCalls, UserSteps

\* The threads of the downloads, and their events.
LEMMA DownloadTyped ==
  ASSUME TypeInv, NEW d \in Dld, DownloadSteps(d) PROVE TypeInv'
<1> USE DEF TypeInv
<1>1. CASE Refused(d)
  BY <1>1 DEF Refused, PlacesOK, DataOK, Walks
<1>2. CASE Completes(d)
  BY <1>2 DEF Completes, PlacesOK, DataOK, Walks
<1>3. CASE Fails(d)
  <2>1. DataOK' BY <1>3 DEF Fails, Touch, DataOK
  <2> QED BY <1>3, <2>1 DEF Fails, PlacesOK, Walks
<1>4. CASE ThreadEnds(d)
  <2>1. ended' \in [Dld -> 0..MaxEnds]
    BY <1>4, QueueAssumption DEF ThreadEnds, DataOK
  <2>2. DataOK' BY <1>4, <2>1 DEF ThreadEnds, Touch, DataOK
  <2> QED BY <1>4, <2>2 DEF ThreadEnds, PlacesOK, Walks
<1>5. CASE StoppedOrDone(d)
  <2>1. ended' \in [Dld -> 0..MaxEnds]
    BY <1>5, QueueAssumption DEF StoppedOrDone, DataOK
  <2>2. DataOK' BY <1>5, <2>1 DEF StoppedOrDone, DataOK
  <2> QED BY <1>5, <2>2 DEF StoppedOrDone, PlacesOK, Walks
<1> QED BY <1>1, <1>2, <1>3, <1>4, <1>5 DEF DownloadSteps

LEMMA StepTyped == TypeInv /\ [Next]_vars => TypeInv'
<1> SUFFICES ASSUME TypeInv, [Next]_vars PROVE TypeInv' OBVIOUS
<1>1. CASE ProcessDownloads BY <1>1, PassTyped
<1>2. CASE Recount
  <2>1. cConnsNow' \in [Site -> 0..UIntMax]
    BY <1>2 DEF Recount, TypeInv, DataOK
  <2> QED BY <1>2, <2>1 DEF Recount, TypeInv, PlacesOK, DataOK, Walks
<1>3. ASSUME NEW t \in Actor, StartStop(t) PROVE TypeInv'
  BY <1>3, StartStopTyped
<1>4. ASSUME NEW u \in User, UserCalls(u) \/ UserSteps(u) PROVE TypeInv'
  BY <1>4, UserTyped
<1>5. ASSUME NEW d \in Dld, DownloadSteps(d) PROVE TypeInv'
  BY <1>5, DownloadTyped
<1>6. CASE UNCHANGED vars
  BY <1>6 DEF vars, TypeInv, PlacesOK, DataOK, Walks
<1> QED BY <1>1, <1>2, <1>3, <1>4, <1>5, <1>6 DEF Next

LEMMA Typed == Spec => []TypeInv
BY InitTyped, StepTyped, PTL DEF Spec

\* Every variable keeps its type, for any number of downloads and users.
THEOREM TypeCorrect == Spec => []TypeOK
<1>1. TypeInv => TypeOK BY DEF TypeInv, PlacesOK, DataOK, TypeOK
<1> QED BY <1>1, Typed, PTL
-----------------------------------------------------------------------------
(* The limits.                                                             *)

\* A thread inside StartDownloads that is the only one to start downloads knows
\* of all that run: its count is never too small.
Counted ==
  \A t \in Actor :
    pc[t] = "start" /\ ~mixed[t] => Cardinality(Running) <= cRunning[t]

\* Steps after which no more downloads run, and no call goes on to start any.
LEMMA CountKept ==
  ASSUME TypeInv, Counted, Running' \subseteq Running,
         UNCHANGED <<cRunning, mixed>>,
         \A t \in Actor : pc'[t] = "start" => pc[t] = "start"
  PROVE  Counted'
<1>1. IsFiniteSet(Running) /\ Cardinality(Running) \in Nat
  BY RunningFinite DEF TypeInv, DataOK
<1>2. Cardinality(Running') <= Cardinality(Running) /\ Cardinality(Running') \in Nat
  BY <1>1, FS_Subset, FS_CardinalityType
<1> QED BY <1>1, <1>2 DEF Counted, TypeInv, DataOK

LEMMA StepCounted == TypeInv /\ Counted /\ [Next]_vars => Counted'
<1> SUFFICES ASSUME TypeInv, Counted, [Next]_vars PROVE Counted' OBVIOUS
<1> USE DEF TypeInv
<1>0. /\ IsFiniteSet(Running) /\ Cardinality(Running) \in Nat
      /\ Manager \in Actor /\ User \subseteq Actor
  BY RunningFinite DEF DataOK, Actor
<1>1. ASSUME NEW t \in Actor, NEW l, Goto(t, l), l # "start"
      PROVE  \A u \in Actor : pc'[u] = "start" => pc[u] = "start"
  BY <1>1 DEF Goto, PlacesOK
<1>2. CASE ProcessDownloads
  <2>1. Looking(After(0)) # "start" /\ Looking(After(pass.i)) # "start"
    BY DEF Looking
  <2>2. \/ Goto(Manager, "process") \/ Goto(Manager, "idle")
        \/ Goto(Manager, "act") \/ Goto(Manager, "stop")
        \/ Goto(Manager, Looking(After(0))) \/ Goto(Manager, Looking(After(pass.i)))
    BY <1>2, <2>1 DEF ProcessDownloads, ManagerWakes, Disabled, Begin, LookDone,
                      Reject, TooSoon, Accept, Look, Act, Unlock
  <2>3. UNCHANGED <<list, running, cRunning, mixed>>
    BY <1>2 DEF ProcessDownloads, ManagerWakes, Disabled, Begin, LookDone,
                Reject, TooSoon, Accept, Look, Act, Unlock
  <2>4. Running' = Running BY <2>3 DEF Running
  <2>5. \A u \in Actor : pc'[u] = "start" => pc[u] = "start"
    BY <1>0, <1>1, <2>1, <2>2
  <2> QED BY <2>3, <2>4, <2>5, CountKept
<1>3. CASE Recount \/ UNCHANGED vars
  <2>1. UNCHANGED <<list, running, cRunning, mixed, pc>>
    BY <1>3 DEF Recount, vars
  <2> QED BY <2>1, CountKept DEF Running
<1>4. ASSUME NEW u \in User, UserCalls(u) \/ UserSteps(u) PROVE Counted'
  <2>1. \A v \in Actor : pc'[v] = "start" => pc[v] = "start"
    <3>1. \/ pc' = pc \/ Goto(u, "count") \/ Goto(u, "stop") \/ Goto(u, "changed")
          \/ Goto(u, "idle") \/ Goto(u, "delete") \/ Goto(u, "deleted")
      BY <1>4 DEF UserCalls, UserSteps, StartCall, StopCall, SetAutoStart,
                  ChangeSettings, Delete, Changed, DeleteUnlock, DeleteEnd
    <3> QED BY <1>0, <1>1, <3>1
  <2>2. UNCHANGED <<running, cRunning, mixed>> /\ list' \subseteq list
    BY <1>4 DEF UserCalls, UserSteps, StartCall, StopCall, SetAutoStart,
                ChangeSettings, Delete, Changed, DeleteUnlock, DeleteEnd
  <2>3. Running' \subseteq Running BY <2>2 DEF Running
  <2> QED BY <2>1, <2>2, <2>3, CountKept
<1>5. ASSUME NEW d \in Dld, DownloadSteps(d) PROVE Counted'
  <2>1. /\ UNCHANGED <<list, cRunning, mixed, pc>>
        /\ \A e \in Dld : running'[e] => running[e]
    BY <1>5 DEF DownloadSteps, Refused, Completes, Fails, ThreadEnds,
                StoppedOrDone, DataOK
  <2>2. Running' \subseteq Running BY <2>1 DEF Running, DataOK
  <2> QED BY <2>1, <2>2, CountKept
<1>6. ASSUME NEW t \in Actor, Count(t) PROVE Counted'
  BY <1>0, <1>6 DEF Count, Counted, Running, Goto, PlacesOK, DataOK
<1>7. ASSUME NEW t \in Actor, StartOne(t) PROVE Counted'
  <2> DEFINE d == First(todo[t])
  <2>1. d \in Dld BY <1>7, FirstIn DEF StartOne, DataOK
  <2>2. CASE running[d]
    <3>1. Running' = Running BY <1>7, <2>1, <2>2 DEF StartOne, Running, DataOK
    <3>2. \A u \in Actor : /\ mixed'[u] = mixed[u] /\ pc'[u] = pc[u]
                           /\ cRunning'[u] >= cRunning[u]
                           /\ cRunning[u] \in Nat /\ cRunning'[u] \in Nat
      BY <1>7, <2>2 DEF StartOne, DataOK
    <3> QED BY <1>0, <3>1, <3>2 DEF Counted, DataOK
  <2>3. CASE ~running[d]
    <3>1. Running' \subseteq Running \cup {d}
      BY <1>7, <2>1 DEF StartOne, Running, DataOK
    <3>2. /\ Cardinality(Running') <= Cardinality(Running) + 1
          /\ Cardinality(Running') \in Nat
      <4>1. /\ IsFiniteSet(Running \cup {d})
            /\ Cardinality(Running \cup {d}) \in Nat
            /\ Cardinality(Running \cup {d}) <= Cardinality(Running) + 1
        BY <1>0, FS_AddElement, FS_CardinalityType
      <4>2. /\ Cardinality(Running') <= Cardinality(Running \cup {d})
            /\ Cardinality(Running') \in Nat
        BY <3>1, <4>1, FS_Subset, FS_CardinalityType
      <4> QED BY <1>0, <4>1, <4>2
    <3>3. /\ cRunning'[t] = cRunning[t] + 1 /\ mixed'[t] = mixed[t] /\ pc' = pc
          /\ \A u \in Actor : u # t /\ pc[u] = "start" => mixed'[u]
      BY <1>7, <2>3 DEF StartOne, DataOK
    <3> QED BY <1>0, <3>2, <3>3 DEF Counted, DataOK
  <2> QED BY <2>2, <2>3
<1>8. ASSUME NEW t \in Actor, StartsDone(t) PROVE Counted'
  BY <1>8 DEF StartsDone, Counted, Running, Goto, PlacesOK, DataOK
<1>9. ASSUME NEW t \in Actor, StopOne(t) \/ StopsDone(t) \/ StartSkipped(t)
                              \/ StartQueued(t)
      PROVE  Counted'
  <2>1. \A v \in Actor : pc'[v] = "start" => pc[v] = "start"
    <3>1. pc' = pc \/ \E l : Goto(t, l) /\ l # "start"
      BY <1>9 DEF StopOne, StopsDone, StartSkipped, StartQueued
    <3> QED BY <1>1, <3>1
  <2>2. UNCHANGED <<list, running, cRunning, mixed>>
    BY <1>9 DEF StopOne, StopsDone, StartSkipped, StartQueued
  <2> QED BY <2>1, <2>2, CountKept DEF Running
<1> QED BY <1>2, <1>3, <1>4, <1>5, <1>6, <1>7, <1>8, <1>9 DEF Next, StartStop

\* No download is started beyond the limits, unless two threads are inside
\* StartDownloads at once.
THEOREM WithinLimit == Spec => StartsWithinLimit
<1>1. Init => Counted BY DEF Init, Counted
<1>2. ASSUME TypeInv, Counted, [Next]_vars, NEW t \in Actor, NEW d \in Dld,
             pc[t] = "start", ~mixed[t], cRunning'[t] # cRunning[t],
             ~running[d], running'[d]
      PROVE  Cardinality(Running) < Ceiling
  <2>1. PICK u \in Actor : StartOne(u)
    BY <1>2 DEF Next, vars, ProcessDownloads, ManagerWakes, Disabled, Begin,
         LookDone, Reject, TooSoon, Accept, Look, Act, Unlock, Recount, StartStop,
         StopOne, StopsDone, Count, StartSkipped, StartQueued, StartsDone,
         UserCalls, UserSteps, StartCall, StopCall, SetAutoStart, ChangeSettings,
         Delete, Changed, DeleteUnlock, DeleteEnd, DownloadSteps, Refused,
         Completes, Fails, ThreadEnds, StoppedOrDone, TypeInv, DataOK
  <2>2. MayStart(t)
    BY <1>2, <2>1 DEF StartOne, MayStart, Ceiling, TypeInv, DataOK
  <2>3. Cardinality(Running) <= cRunning[t] /\ cRunning[t] < Ceiling
    BY <1>2, <2>2 DEF Counted, MayStart
  <2>4. /\ Cardinality(Running) \in Nat /\ cRunning[t] \in Nat
        /\ Ceiling \in Int
    BY <1>2, RunningFinite, QueueAssumption DEF TypeInv, DataOK, Ceiling, Smaller
  <2> QED BY <2>3, <2>4
<1>3. TypeInv /\ Counted /\ [Next]_vars =>
        [\A t \in Actor : \A d \in Dld :
           pc[t] = "start" /\ ~mixed[t] /\ cRunning'[t] # cRunning[t]
             /\ ~running[d] /\ running'[d] => Cardinality(Running) < Ceiling]_vars
  BY <1>2
<1> QED BY <1>1, <1>3, Typed, StepCounted, PTL DEF Spec, StartsWithinLimit
-----------------------------------------------------------------------------
(* What the manager starts.                                                *)

\* The downloads that the manager has noted for a start.
Noted == pass.toStart \cup ({pass.bogus} \ {None})
           \cup (IF pc[Manager] \in {"count", "start"} THEN todo[Manager] ELSE {})

\* In the queue, or no longer there for a reason.
Asked(d) == bAutoStart[d] \/ d \in touched \/ done[d]

\* What has been noted was in the queue.  A download that is accepted while it
\* runs need not be, and is noted only if it has ended before Act.  What has been
\* noted lies behind the pass, so that Look does not forget what happened to it.
Asking ==
  /\ \A d \in Noted : Asked(d)
  /\ pc[Manager] = "act" /\ pass.accept => running[pass.i] \/ Asked(pass.i)
  /\ pc[Manager] = "look" =>
       /\ ~pass.accept
       /\ \A d \in pass.toStart \cup ({pass.bogus} \ {None}) : d < pass.i
  /\ pc[Manager] = "act" =>
       /\ \A d \in pass.toStart : d < pass.i
       /\ pass.bogus # None => pass.bogus <= pass.i
  /\ pc[Manager] \notin {"look", "act", "unlock", "stop"} => pass = NoPass

\* Steps that leave the manager where it is and take from the queue only what they
\* note as touched.
LEMMA AskingKept ==
  ASSUME TypeInv, Asking, pass' = pass, pc'[Manager] = pc[Manager],
         todo'[Manager] \subseteq todo[Manager], touched \subseteq touched',
         \A d \in Dld : done[d] => done'[d],
         \A d \in Dld : (running[d] /\ ~running'[d]) \/ (bAutoStart[d] /\ ~bAutoStart'[d])
                          => done'[d] \/ d \in touched' \/ d \notin Chosen
  PROVE  Asking'
<1>1. /\ Noted \subseteq Chosen /\ Noted \subseteq Dld /\ Noted' \subseteq Noted
      /\ pc[Manager] = "act" => pass.i \in Chosen /\ pass.i \in Dld
  <2>1. pass.toStart \subseteq Dld /\ pass.bogus \in Dld \cup {None}
    BY DEF TypeInv, DataOK, Pass
  <2>2. todo[Manager] \subseteq Dld BY DEF TypeInv, DataOK, Actor
  <2>3. Noted \subseteq Chosen /\ Noted' \subseteq Noted BY DEF Noted, Chosen
  <2>4. Noted \subseteq Dld BY <2>1, <2>2 DEF Noted
  <2>5. pc[Manager] = "act" => pass.i \in Chosen /\ pass.i \in Dld
    BY DEF Chosen, TypeInv, Walks
  <2> QED BY <2>3, <2>4, <2>5
<1>2. \A d \in Dld : d \in Chosen /\ Asked(d) => Asked(d)'
  BY DEF Asked
<1>3. \A d \in Noted' : Asked(d)' BY <1>1, <1>2 DEF Asking
<1>4. pc[Manager] = "act" /\ pass.accept => running'[pass.i] \/ Asked(pass.i)'
  <2> SUFFICES ASSUME pc[Manager] = "act", pass.accept
               PROVE  running'[pass.i] \/ Asked(pass.i)'
    OBVIOUS
  <2>1. CASE Asked(pass.i) BY <1>1, <1>2, <2>1
  <2>2. CASE running[pass.i] BY <1>1, <2>2 DEF Asked
  <2> QED BY <2>1, <2>2 DEF Asking
<1> QED BY <1>3, <1>4 DEF Asking, NoPass

\* The manager's own steps.
LEMMA PassAsking ==
  ASSUME TypeInv, Asking, ProcessDownloads PROVE Asking'
<1> USE DEF TypeInv
<1>0. /\ Manager \in Actor /\ N \in Nat /\ 0 \in 0..(N + 1) /\ None \notin Dld
      /\ pass \in Pass /\ Dld \subseteq Nat /\ NoPass.toStart = {}
      /\ NoPass.bogus = None /\ NoPass.accept = FALSE
  BY QueueAssumption DEF Actor, DataOK, Dld, NoPass
<1>1. /\ pass.toStart \subseteq Dld /\ pass.bogus \in Dld \cup {None} /\ pass.i \in Int
      /\ \A d \in pass.toStart \cup ({pass.bogus} \ {None}) : d \in Int
      /\ pass.bogus # None => pass.bogus \in Int
      /\ \A d \in Dld : d \in Int /\ d # None
  <2>1. /\ pass.toStart \subseteq Dld /\ pass.bogus \in Dld \cup {None}
        /\ pass.i \in Int
    BY <1>0 DEF Pass
  <2>2. \A d \in Dld : d \in Int /\ d # None BY <1>0 DEF Dld
  <2> QED BY <2>1, <2>2
<1>2. CASE ManagerWakes \/ Disabled
  <2>1. /\ pc[Manager] \in {"idle", "process"} /\ pc'[Manager] \in {"idle", "process"}
        /\ UNCHANGED <<pass, todo>>
    BY <1>0, <1>2 DEF ManagerWakes, Disabled, Goto, PlacesOK
  <2>2. pass = NoPass /\ pass' = NoPass BY <2>1 DEF Asking
  <2> QED BY <1>0, <2>1, <2>2 DEF Asking, Noted, NoPass
<1>3. CASE Begin
  <2>1. Looking(After(0)) \in {"look", "unlock"} BY <1>0, Advances DEF DataOK
  <2>2. /\ pc'[Manager] \in {"look", "unlock"} /\ pass'.toStart = {}
        /\ pass'.bogus = None /\ pass'.accept = FALSE
    BY <1>0, <1>3, <2>1 DEF Begin, Goto, PlacesOK, NoPass
  <2>3. Noted' = {} BY <2>2 DEF Noted
  <2> QED BY <2>2, <2>3 DEF Asking
<1>4. CASE LookDone
  <2>1. pass.i \in Dld /\ pass.i \in 0..(N + 1)
    BY <1>4, <1>0 DEF LookDone, Walks, Dld
  <2>2. /\ Looking(After(pass.i)) \in {"look", "unlock"}
        /\ Looking(After(pass.i)) = "look" => After(pass.i) > pass.i /\ After(pass.i) \in Dld
    BY <2>1, Advances DEF DataOK
  <2>3. /\ pc[Manager] = "look" /\ pc'[Manager] = Looking(After(pass.i))
        /\ pass'.toStart = pass.toStart /\ pass'.bogus = pass.bogus
        /\ pass'.accept = pass.accept /\ pass'.i = After(pass.i)
        /\ UNCHANGED <<bAutoStart, done, touched>>
    BY <1>0, <1>4 DEF LookDone, Goto, PlacesOK, Pass
  <2>4. /\ ~pass.accept
        /\ \A d \in pass.toStart \cup ({pass.bogus} \ {None}) : d < pass.i
        /\ \A d \in Noted : Asked(d)
    BY <2>3 DEF Asking
  <2>5. Noted' \subseteq Noted BY <2>2, <2>3 DEF Noted
  <2>6. \A d \in Noted' : Asked(d)' BY <2>3, <2>4, <2>5 DEF Asked
  <2>7. pc'[Manager] = "look" =>
          \A d \in pass'.toStart \cup ({pass'.bogus} \ {None}) : d < pass'.i
    <3>1. ASSUME pc'[Manager] = "look" PROVE pass.i < pass'.i /\ pass'.i \in Int
      BY <1>1, <2>2, <2>3, <3>1
    <3> QED BY <1>1, <2>3, <2>4, <3>1
  <2> QED BY <2>2, <2>3, <2>4, <2>6, <2>7 DEF Asking
<1>5. ASSUME Looks, NEW p, Look(p), p.i = pass.i, p.toStart = pass.toStart,
             p.bogus \in {pass.bogus, pass.i}, p.bogus = pass.i => bAutoStart[pass.i],
             p.accept => running[pass.i] \/ bAutoStart[pass.i]
      PROVE  Asking'
  <2>1. /\ pc[Manager] = "look" /\ pc'[Manager] = "act" /\ pass' = p
        /\ touched' = touched \ {pass.i} /\ UNCHANGED <<bAutoStart, done, running>>
    BY <1>0, <1>5 DEF Looks, Look, Goto, PlacesOK
  <2>2. pass.i \in Dld BY <2>1 DEF Walks
  <2>3. /\ \A d \in pass.toStart \cup ({pass.bogus} \ {None}) : d < pass.i /\ Asked(d)
    BY <2>1 DEF Asking, Noted
  <2>4. \A d \in pass.toStart \cup ({pass.bogus} \ {None}) : d # pass.i
    BY <1>0, <1>1, <2>2, <2>3
  <2>5. Noted' = p.toStart \cup ({p.bogus} \ {None}) BY <2>1 DEF Noted
  <2>6. \A d \in Noted' : Asked(d)'
    BY <1>5, <2>1, <2>3, <2>4, <2>5 DEF Asked
  <2>7. (\A d \in p.toStart : d < p.i) /\ (p.bogus # None => p.bogus <= p.i)
    BY <1>0, <1>1, <1>5, <2>2, <2>3
  <2>8. p.accept => running'[p.i] \/ Asked(p.i)' BY <1>5, <2>1 DEF Asked
  <2> QED BY <2>1, <2>6, <2>7, <2>8 DEF Asking
<1>6. CASE Reject
  <2>1. ~pass.accept BY <1>6 DEF Reject, Looks, Asking
  <2>2. pass.bogus # pass.i
    BY <1>0, <1>1, <1>6 DEF Reject, Looks, Walks, Asking
  <2> QED BY <1>5, <1>6, <2>1, <2>2 DEF Reject
<1>7. CASE TooSoon
  <2> DEFINE p == [pass EXCEPT !.bogus = IF @ = None THEN pass.i ELSE @]
  <2>1. Looks /\ Look(p) /\ bAutoStart[pass.i] BY <1>7 DEF TooSoon
  <2>2. ~pass.accept BY <2>1 DEF Looks, Asking
  <2>3. /\ p.i = pass.i /\ p.toStart = pass.toStart /\ ~p.accept
        /\ p.bogus \in {pass.bogus, pass.i}
    BY <1>0, <2>2 DEF Pass
  <2> QED BY <1>5, <2>1, <2>3
<1>8. CASE Accept
  <2> DEFINE p(k, more) == [pass EXCEPT !.accept = TRUE,
                              !.cConns = Less(pass.cConns, k) - more, !.cDlds = @ - 1]
  <2>1. PICK k \in Share(pass.i) :
          \E more \in {0} \cup (IF Less(pass.cConns, k) > 0 THEN {1} ELSE {}) :
            Look(p(k, more))
    BY <1>8 DEF Accept
  <2>2. PICK more \in {0} \cup (IF Less(pass.cConns, k) > 0 THEN {1} ELSE {}) :
            Look(p(k, more))
    BY <2>1
  <2>3. /\ p(k, more).i = pass.i /\ p(k, more).toStart = pass.toStart
        /\ p(k, more).bogus = pass.bogus
    BY <1>0 DEF Pass
  <2>4. Looks /\ (running[pass.i] \/ bAutoStart[pass.i]) BY <1>8 DEF Accept, Wants
  <2>5. pass.bogus # pass.i
    BY <1>0, <1>1, <2>4 DEF Looks, Walks, Asking
  <2> QED BY <1>5, <2>2, <2>3, <2>4, <2>5
<1>9. CASE Act
  <2> DEFINE d == pass.i
             new == IF pass.accept /\ ~running[d] THEN {d} ELSE {}
  <2>1. d \in Dld /\ d \in 0..(N + 1) /\ pc[Manager] = "act"
    BY <1>9, <1>0 DEF Act, Walks, Dld
  <2>2. /\ Looking(After(d)) \in {"look", "unlock"}
        /\ Looking(After(d)) = "look" => After(d) > d /\ After(d) \in Dld
    BY <2>1, Advances DEF DataOK
  <2>3. PICK stops \in BOOLEAN :
          pass' = [pass EXCEPT !.toStart = @ \cup new,
                               !.toStop = @ \cup (IF stops THEN {d} ELSE {}),
                               !.i = After(@), !.accept = FALSE]
    BY <1>9, Zenon DEF Act
  <2>4. /\ pass'.toStart = pass.toStart \cup new /\ pass'.bogus = pass.bogus
        /\ ~pass'.accept /\ pass'.i = After(d)
    BY <1>0, <2>3 DEF Pass
  <2>5. /\ pc'[Manager] = Looking(After(d))
        /\ UNCHANGED <<bAutoStart, done, touched>>
    BY <1>0, <1>9 DEF Act, Goto, PlacesOK
  <2>6. \A e \in Noted \cup new : Asked(e) BY <2>1 DEF Asking
  <2>7. Noted' \subseteq Noted \cup new BY <2>2, <2>4, <2>5 DEF Noted
  <2>8. \A e \in Noted' : Asked(e)' BY <2>5, <2>6, <2>7 DEF Asked
  <2>9. (\A e \in pass.toStart : e < d) /\ (pass.bogus # None => pass.bogus <= d)
    BY <2>1 DEF Asking
  <2>10. pc'[Manager] = "look" =>
          \A e \in pass'.toStart \cup ({pass'.bogus} \ {None}) : e < pass'.i
    <3>1. ASSUME pc'[Manager] = "look" PROVE d < pass'.i /\ pass'.i \in Int
      BY <1>1, <2>2, <2>4, <2>5, <3>1
    <3>2. \A e \in pass'.toStart : e <= d /\ e \in Int
      BY <1>1, <2>1, <2>4, <2>9
    <3> QED BY <1>1, <2>4, <2>9, <3>1, <3>2
  <2> QED BY <2>2, <2>4, <2>5, <2>8, <2>10 DEF Asking
<1>10. CASE Unlock
  <2>1. /\ pc[Manager] = "unlock" /\ pc'[Manager] = "stop"
        /\ UNCHANGED <<bAutoStart, done, touched>>
    BY <1>0, <1>10 DEF Unlock, Goto, PlacesOK
  <2>2. /\ pass'.toStart \subseteq pass.toStart \cup ({pass.bogus} \ {None})
        /\ pass'.bogus = None
    BY <1>0, <1>10 DEF Unlock, NobodyElse, NoPass
  <2>3. Noted' \subseteq Noted BY <2>1, <2>2 DEF Noted
  <2>4. \A d \in Noted' : Asked(d)' BY <2>1, <2>3 DEF Asking, Asked
  <2> QED BY <2>1, <2>4 DEF Asking
<1> QED BY <1>2, <1>3, <1>4, <1>6, <1>7, <1>8, <1>9, <1>10 DEF ProcessDownloads

\* StopDownloads and StartDownloads.
LEMMA StartStopAsking ==
  ASSUME TypeInv, Asking, NEW t \in Actor, StartStop(t) PROVE Asking'
<1> USE DEF TypeInv
<1>0. Manager \in Actor /\ NoPass.toStart = {} /\ NoPass.bogus = None
  BY DEF Actor, NoPass
<1>1. CASE StopOne(t) \/ StartSkipped(t) \/ StartOne(t) \/ StartQueued(t)
  <2>1. /\ UNCHANGED <<pass, pc, done, touched>>
        /\ todo'[Manager] \subseteq todo[Manager]
        /\ \A d \in Dld : /\ running[d] => running'[d]
                          /\ bAutoStart[d] => bAutoStart'[d]
    BY <1>0, <1>1 DEF StopOne, StartSkipped, StartOne, StartQueued, DataOK
  <2> QED BY <2>1, AskingKept
<1>2. CASE StopsDone(t) \/ Count(t) \/ StartsDone(t)
  <2>1. UNCHANGED <<running, bAutoStart, done>>
    BY <1>2 DEF StopsDone, Count, StartsDone
  <2>2. CASE t # Manager
    <3>1. /\ UNCHANGED <<pass, touched>> /\ pc'[Manager] = pc[Manager]
          /\ todo'[Manager] = todo[Manager]
      BY <1>0, <1>2, <2>2 DEF StopsDone, Count, StartsDone, Goto, PlacesOK
    <3> QED BY <2>1, <3>1, AskingKept
  <2>3. CASE t = Manager /\ StopsDone(t)
    <3>1. /\ pc[Manager] = "stop" /\ pc'[Manager] = "count" /\ pass' = NoPass
          /\ todo'[Manager] = pass.toStart /\ touched' = touched
      BY <1>0, <2>3 DEF StopsDone, Goto, PlacesOK, DataOK
    <3>2. Noted' \subseteq Noted BY <1>0, <3>1 DEF Noted
    <3>3. \A d \in Noted' : Asked(d)' BY <2>1, <3>1, <3>2 DEF Asking, Asked
    <3> QED BY <3>1, <3>3 DEF Asking, NoPass
  <2>4. CASE t = Manager /\ Count(t)
    <3>1. /\ pc[Manager] = "count" /\ pc'[Manager] = "start"
          /\ UNCHANGED <<pass, todo, touched>>
      BY <1>0, <2>4 DEF Count, Goto, PlacesOK
    <3>2. Noted' = Noted BY <3>1 DEF Noted
    <3>3. \A d \in Noted' : Asked(d)' BY <2>1, <3>1, <3>2 DEF Asking, Asked
    <3> QED BY <3>1, <3>3 DEF Asking, NoPass
  <2>5. CASE t = Manager /\ StartsDone(t)
    <3>1. /\ pc[Manager] = "start" /\ pc'[Manager] = "idle" /\ pass' = pass
      BY <1>0, <2>5 DEF StartsDone, Goto, PlacesOK
    <3>2. pass = NoPass BY <3>1 DEF Asking
    <3>3. Noted' = {} BY <1>0, <3>1, <3>2 DEF Noted
    <3> QED BY <3>1, <3>2, <3>3 DEF Asking, NoPass
  <2> QED BY <1>2, <2>2, <2>3, <2>4, <2>5
<1> QED BY <1>1, <1>2 DEF StartStop

\* What users and downloads do is noted as touched.
LEMMA OthersAsking ==
  ASSUME TypeInv, Asking,
         \/ \E u \in User : UserCalls(u) \/ UserSteps(u)
         \/ \E d \in Dld : DownloadSteps(d)
         \/ Recount \/ UNCHANGED vars
  PROVE  Asking'
<1> USE DEF TypeInv
<1>1. ASSUME NEW u \in User, UserCalls(u) \/ UserSteps(u) PROVE Asking'
  <2>0. u \in Actor /\ u # Manager /\ Manager \in Actor
    BY QueueAssumption DEF Actor
  <2>1. /\ UNCHANGED <<pass, running, done>>
        /\ pc'[Manager] = pc[Manager] /\ todo'[Manager] = todo[Manager]
    BY <1>1, <2>0 DEF UserCalls, UserSteps, StartCall, StopCall, SetAutoStart,
         ChangeSettings, Delete, Changed, DeleteUnlock, DeleteEnd, Goto, PlacesOK,
         DataOK
  <2>2. CASE StopCall(u)
    <3>1. PICK S \in SUBSET list : bAutoStart' = Set(bAutoStart, S, FALSE) /\ Touch(S)
      BY <2>2 DEF StopCall
    <3>2. \A d \in Dld : bAutoStart[d] /\ ~bAutoStart'[d] => d \in S
      BY <3>1 DEF Set, DataOK
    <3> QED BY <2>1, <3>1, <3>2, AskingKept DEF Touch
  <2>3. CASE SetAutoStart(u)
    <3>1. PICK d \in list : bAutoStart' = [bAutoStart EXCEPT ![d] = ~@] /\ Touch({d})
      BY <2>3 DEF SetAutoStart
    <3>2. \A e \in Dld : bAutoStart[e] /\ ~bAutoStart'[e] => e = d
      BY <3>1 DEF DataOK
    <3> QED BY <2>1, <3>1, <3>2, AskingKept DEF Touch
  <2>4. CASE ~StopCall(u) /\ ~SetAutoStart(u)
    <3>1. UNCHANGED <<bAutoStart, touched>>
      BY <1>1, <2>4 DEF UserCalls, UserSteps, StartCall, ChangeSettings, Delete,
                        Changed, DeleteUnlock, DeleteEnd
    <3> QED BY <2>1, <3>1, AskingKept
  <2> QED BY <2>2, <2>3, <2>4
<1>2. ASSUME NEW d \in Dld, DownloadSteps(d) PROVE Asking'
  <2>1. UNCHANGED <<pass, pc, todo>>
    BY <1>2 DEF DownloadSteps, Refused, Completes, Fails, ThreadEnds, StoppedOrDone
  <2>2. /\ touched \subseteq touched' /\ \A e \in Dld : done[e] => done'[e]
        /\ \A e \in Dld : (running[e] /\ ~running'[e]) \/ (bAutoStart[e] /\ ~bAutoStart'[e])
                            => done'[e] \/ e \in touched' \/ e \notin Chosen
    BY <1>2 DEF DownloadSteps, Refused, Completes, Fails, ThreadEnds,
                StoppedOrDone, Touch, DataOK
  <2> QED BY <2>1, <2>2, AskingKept
<1>3. CASE Recount \/ UNCHANGED vars
  BY <1>3, AskingKept DEF Recount, vars
<1> QED BY <1>1, <1>2, <1>3

LEMMA StepAsking == TypeInv /\ Asking /\ [Next]_vars => Asking'
BY PassAsking, StartStopAsking, OthersAsking DEF Next

\* The manager starts only what is in the queue, unless the download was taken
\* out of it, or ended, after the pass had looked at it.
THEOREM OnlyQueued == Spec => StartsOnlyQueued
<1>1. Init => Asking
  BY DEF Init, Asking, Noted, NoPass, Actor
<1>2. ASSUME TypeInv, Asking, [Next]_vars, NEW d \in Dld, pc[Manager] = "start",
             todo[Manager] # todo'[Manager], ~running[d], running'[d]
      PROVE  bAutoStart[d] \/ d \in touched
  <2>0. Manager \in Actor BY DEF Actor
  <2>1. PICK u \in Actor : StartOne(u)
    BY <1>2 DEF Next, vars, ProcessDownloads, ManagerWakes, Disabled, Begin,
         LookDone, Reject, TooSoon, Accept, Look, Act, Unlock, Recount, StartStop,
         StopOne, StopsDone, Count, StartSkipped, StartQueued, StartsDone,
         UserCalls, UserSteps, StartCall, StopCall, SetAutoStart, ChangeSettings,
         Delete, Changed, DeleteUnlock, DeleteEnd, DownloadSteps, Refused,
         Completes, Fails, ThreadEnds, StoppedOrDone, TypeInv, DataOK
  <2>2. u = Manager BY <1>2, <2>0, <2>1 DEF StartOne, TypeInv, DataOK
  <2>3. d = First(todo[Manager]) /\ todo[Manager] # {} /\ ~done[d]
    BY <1>2, <2>1, <2>2 DEF StartOne, TypeInv, DataOK
  <2>4. d \in todo[Manager]
    <3>1. todo[Manager] \in SUBSET Dld BY <1>2, <2>0 DEF TypeInv, DataOK
    <3> QED BY <2>3, <3>1, FirstIn
  <2>5. Asked(d) BY <1>2, <2>4 DEF Asking, Noted
  <2> QED BY <2>3, <2>5 DEF Asked
<1>3. TypeInv /\ Asking /\ [Next]_vars =>
        [\A d \in Dld : pc[Manager] = "start" /\ todo[Manager] # todo'[Manager]
           /\ ~running[d] /\ running'[d] => bAutoStart[d] \/ d \in touched]_vars
  BY <1>2
<1> QED BY <1>1, <1>3, Typed, StepAsking, PTL DEF Spec, StartsOnlyQueued
-----------------------------------------------------------------------------
(* The queue is not left alone.                                            *)

\* Something will wake the manager, or has.
Pending ==
  \/ needPD \/ pc[Manager] = "process"
  \/ \E u \in User : pc[u] \in {"changed", "delete", "deleted"}
  \/ \E d \in list : ended[d] > 0

\* The manager is disabled only by a deletion, which wakes it in the end.
DisabledInv == bDisablePD => \E u \in User : pc[u] = "delete"

Waits(d) == d \in list /\ Queued(d) /\ d \notin unseen

\* What the manager is about to start, unless it runs by then.
Sure == Noted \cup (IF pc[Manager] = "act" /\ pass.accept THEN {pass.i} ELSE {})

\* What the manager has dealt with.
Seen(d) ==
  (pc[Manager] = "look" => d < pass.i) /\ (pc[Manager] = "act" => d <= pass.i)

\* Nobody has used a connection in this pass.
Unused == pass.toStart = {} /\ ~(pc[Manager] = "act" /\ pass.accept)

\* With nothing running and nothing pending, the manager starts something if
\* anything waits: the budgets are as they were, until something is to be started.
Attended ==
  /\ pc[Manager] \in {"look", "act"} => pass.i \in list
  /\ pc[Manager] = "stop" => pass.bogus = None
  /\ \A d \in Sure : d \in list /\ ~done[d]
  /\ \A d \in Dld : Waits(d) /\ Seen(d) => Sure # {}
  /\ pc[Manager] \in {"look", "act", "unlock"} /\ Unused => pass.cConns = settings.conns
  /\ pc[Manager] \in {"look", "act"} /\ Unused =>
       /\ pass.cDlds = Smaller(settings.tasks, 20)
       /\ \A s \in Site : cConnsNow[s] = Smaller(SiteMaxConns[s], settings.perSite)
  /\ pc[Manager] = "start" => cRunning[Manager] = 0

Excused == Pending \/ stirred \/ Running # {}

QueueInv == DisabledInv /\ (Excused \/ Attended)

\* The steps of the manager in a pass.
InPassStep == LookDone \/ Reject \/ TooSoon \/ Accept \/ Act \/ Unlock

LEMMA InPassFrame ==
  ASSUME TypeInv, InPassStep
  PROVE  /\ UNCHANGED <<list, dldV, ended, settings, needPD, bDisablePD, cRunning,
                        stirred>>
         /\ pc[Manager] \in {"look", "act", "unlock"} /\ pc'[Manager] # "process"
         /\ \A u \in User : pc'[u] = pc[u]
<1>1. Looking(After(pass.i)) # "process" BY DEF Looking
<1>2. Manager \in Actor /\ Manager \notin User /\ User \subseteq Actor
  BY QueueAssumption DEF Actor
<1>3. \/ Goto(Manager, Looking(After(pass.i))) \/ Goto(Manager, "act")
      \/ Goto(Manager, "stop")
  BY DEF InPassStep, LookDone, Reject, TooSoon, Accept, Look, Act, Unlock
<1>4. pc'[Manager] # "process" /\ \A u \in User : pc'[u] = pc[u]
  BY <1>1, <1>2, <1>3 DEF Goto, TypeInv, PlacesOK
<1>5. pc[Manager] \in {"look", "act", "unlock"}
  BY DEF InPassStep, LookDone, Reject, TooSoon, Accept, Looks, Act, Unlock
<1>6. UNCHANGED <<list, running, needStop, done, bAutoStart, ended, settings, needPD,
                  bDisablePD, cRunning, stirred>>
  BY DEF InPassStep, LookDone, Reject, TooSoon, Accept, Look, Act, Unlock
<1> QED BY <1>4, <1>5, <1>6

\* A call of StartDownloads or StopDownloads wakes nobody and ends nothing.
LEMMA StartStopFrame ==
  ASSUME TypeInv, NEW t \in Actor, StartStop(t)
  PROVE  /\ UNCHANGED <<list, ended, settings, needPD, bDisablePD, done, cConnsNow, stirred>>
         /\ \A u \in Actor : pc'[u] # pc[u] =>
              pc[u] \in {"stop", "count", "start"} /\ pc'[u] \in {"idle", "count", "start"}
         /\ \A d \in Dld : running[d] => running'[d]
         /\ \A u \in Actor : u # t => pc'[u] = pc[u] /\ todo'[u] = todo[u]
                                       /\ cRunning'[u] = cRunning[u]
<1> USE DEF TypeInv, PlacesOK, DataOK, Goto
<1>1. CASE StopOne(t) \/ StartSkipped(t) \/ StartQueued(t)
  BY <1>1 DEF StopOne, StartSkipped, StartQueued
<1>2. CASE StopsDone(t) \/ Count(t) \/ StartsDone(t)
  BY <1>2 DEF StopsDone, Count, StartsDone
<1>3. CASE StartOne(t)
  BY <1>3 DEF StartOne
<1> QED BY <1>1, <1>2, <1>3 DEF StartStop

LEMMA DisabledKept ==
  ASSUME TypeInv, DisabledInv, [Next]_vars PROVE DisabledInv'
<1>0. Manager \in Actor /\ Manager \notin User /\ User \subseteq Actor
  BY QueueAssumption DEF Actor
<1>1. CASE ManagerWakes \/ Disabled \/ Begin
  BY <1>0, <1>1 DEF ManagerWakes, Disabled, Begin, Goto, TypeInv, PlacesOK, DisabledInv
<1>2. CASE InPassStep
  BY <1>2, InPassFrame DEF DisabledInv
<1>3. ASSUME NEW t \in Actor, StartStop(t) PROVE DisabledInv'
  BY <1>0, <1>3, StartStopFrame DEF DisabledInv
<1>4. ASSUME NEW u \in User, UserCalls(u) \/ UserSteps(u) PROVE DisabledInv'
  BY <1>0, <1>4
  DEF UserCalls, UserSteps, Calls, StartCall, StopCall, SetAutoStart, ChangeSettings,
      Delete, Changed, DeleteUnlock, DeleteEnd, Goto, TypeInv, PlacesOK, DisabledInv
<1>5. CASE Recount \/ UNCHANGED vars \/ \E d \in Dld : DownloadSteps(d)
  BY <1>5 DEF Recount, vars, DownloadSteps, Refused, Completes, Fails, ThreadEnds,
              StoppedOrDone, DisabledInv
<1> QED BY <1>1, <1>2, <1>3, <1>4, <1>5 DEF Next, ProcessDownloads, InPassStep

\* Once something is pending it is until the next pass begins, and what runs does
\* not end without notice.
LEMMA ExcuseKept ==
  ASSUME TypeInv, DisabledInv, [Next]_vars, ~Begin, Excused PROVE Excused'
<1> USE DEF TypeInv
<1>0. Manager \in Actor /\ Manager \notin User /\ User \subseteq Actor
  BY QueueAssumption DEF Actor
<1>1. CASE ManagerWakes
  BY <1>0, <1>1 DEF ManagerWakes, Goto, PlacesOK, Excused, Pending
<1>2. CASE Disabled
  <2>1. PICK u \in User : pc[u] = "delete"
    BY <1>2 DEF Disabled, DisabledInv
  <2>2. pc'[u] = "delete" BY <1>0, <1>2, <2>1 DEF Disabled, Goto, PlacesOK
  <2> QED BY <2>2 DEF Excused, Pending
<1>3. CASE InPassStep
  BY <1>3, InPassFrame DEF Excused, Pending, Running
<1>4. ASSUME NEW t \in Actor, StartStop(t) PROVE Excused'
  <2>1. Pending => Pending' BY <1>0, <1>4, StartStopFrame DEF Pending
  <2>2. Running \subseteq Running'
    BY <1>4, StartStopFrame DEF Running, DataOK
  <2> QED BY <1>4, <2>1, <2>2, StartStopFrame DEF Excused
<1>5. ASSUME NEW u \in User, UserCalls(u) \/ UserSteps(u) PROVE Excused'
  <2>1. CASE SetAutoStart(u) \/ Changed(u) \/ DeleteEnd(u)
    BY <2>1 DEF SetAutoStart, Changed, DeleteEnd, Excused, Pending
  <2>2. CASE ChangeSettings(u) \/ Delete(u) \/ DeleteUnlock(u)
    BY <1>0, <2>2 DEF ChangeSettings, Delete, DeleteUnlock, Goto, PlacesOK, Excused, Pending
  <2>3. CASE StartCall(u) \/ StopCall(u)
    <3>1. /\ UNCHANGED <<list, running, ended, needPD, stirred>>
          /\ pc'[Manager] = pc[Manager]
          /\ \A v \in User : pc'[v] # pc[v] => pc[v] = "idle"
      BY <1>0, <2>3 DEF StartCall, StopCall, Calls, Goto, PlacesOK
    <3>2. Pending => Pending' BY <3>1 DEF Pending
    <3> QED BY <3>1, <3>2 DEF Excused, Running
  <2> QED BY <1>5, <2>1, <2>2, <2>3 DEF UserCalls, UserSteps
<1>6. ASSUME NEW d \in Dld, DownloadSteps(d) PROVE Excused'
  <2>1. CASE Refused(d) \/ Completes(d) \/ Fails(d)
    BY <2>1 DEF Refused, Completes, Fails, Excused, Pending, Running
  <2>2. CASE ThreadEnds(d)
    <3>1. /\ UNCHANGED <<list, needPD, pc, stirred>>
          /\ \A e \in Dld : ended[e] > 0 => ended'[e] > 0
          /\ ended'[d] > 0 /\ \A e \in Dld : e # d => running'[e] = running[e]
      BY <2>2, QueueAssumption DEF ThreadEnds, DataOK
    <3>2. Pending => Pending' BY <3>1 DEF Pending, DataOK
    <3>3. d \in list => Pending' BY <3>1 DEF Pending
    <3>4. d \notin list => Running' = Running BY <3>1 DEF Running, DataOK
    <3> QED BY <3>1, <3>2, <3>3, <3>4 DEF Excused
  <2>3. CASE StoppedOrDone(d)
    <3>1. /\ UNCHANGED <<list, running, pc, stirred>>
          /\ needPD \/ d \in list => needPD'
          /\ \A e \in Dld : e # d => ended'[e] = ended[e]
      BY <2>3 DEF StoppedOrDone, DataOK
    <3>2. Pending => Pending' BY <3>1 DEF Pending, DataOK
    <3> QED BY <3>1, <3>2 DEF Excused, Running
  <2> QED BY <1>6, <2>1, <2>2, <2>3 DEF DownloadSteps
<1>7. CASE Recount
  BY <1>7 DEF Recount, Excused, Pending, Running
<1>8. CASE UNCHANGED vars
  BY <1>8 DEF vars, Excused, Pending, Running
<1> QED BY <1>1, <1>2, <1>3, <1>4, <1>5, <1>6, <1>7, <1>8
        DEF Next, ProcessDownloads, InPassStep

\* Steps that leave the manager where it is and nothing new waiting.
LEMMA AttendedKept ==
  ASSUME TypeInv, Attended, UNCHANGED <<list, settings, pass, cConnsNow>>,
         pc'[Manager] = pc[Manager], cRunning'[Manager] = cRunning[Manager],
         pc[Manager] \in {"count", "start"} => todo'[Manager] = todo[Manager],
         \A d \in list : done'[d] => done[d],
         \A d \in Dld : Waits(d)' => Waits(d)
  PROVE  Attended'
<1>1. Sure' = Sure BY DEF Sure, Noted
<1>2. \A d \in Dld : Seen(d)' = Seen(d) BY DEF Seen
<1>3. Unused' = Unused BY DEF Unused
<1> QED BY <1>1, <1>2, <1>3 DEF Attended

\* A pass that finds nothing running and nothing pending.
LEMMA PassAttends ==
  ASSUME TypeInv, Asking, Attended, Running = {}, InPassStep,
         \A s \in Site : SiteMaxConns[s] > 0
  PROVE  Attended'
<1> USE DEF TypeInv
<1>0. /\ Manager \in Actor /\ N \in Nat /\ None \notin Dld /\ pass \in Pass
      /\ \A d \in list : d \in Dld /\ ~running[d]
      /\ \A d \in Dld : d \in Int /\ d # None
  <2>1. Manager \in Actor /\ N \in Nat /\ None \notin Dld BY QueueAssumption DEF Actor
  <2>2. pass \in Pass /\ \A d \in list : d \in Dld /\ ~running[d]
    BY DEF DataOK, Running
  <2>3. \A d \in Dld : d \in Int BY <2>1 DEF Dld
  <2> QED BY <2>1, <2>2, <2>3
<1>1. UNCHANGED <<list, running, done, bAutoStart, settings>> BY InPassFrame
<1>2. \A d \in Dld : Waits(d)' => Waits(d) \/ (d \notin unseen' /\ d \in unseen)
  BY <1>1 DEF Waits, Queued
<1>3. CASE LookDone
  <2>1. pass.i \in Dld /\ pass.i \in 0..(N + 1) /\ pass.i \in list
    BY <1>0, <1>3 DEF LookDone, Walks, Attended, Dld
  <2>2. /\ Looking(After(pass.i)) \in {"look", "unlock"}
        /\ Looking(After(pass.i)) = "look" => After(pass.i) \in list
        /\ \A d \in list : d < After(pass.i) => d <= pass.i
        /\ Looking(After(pass.i)) = "unlock" => \A d \in list : d < After(pass.i)
    BY <2>1, Advances DEF DataOK
  <2>3. /\ pc[Manager] = "look" /\ pc'[Manager] = Looking(After(pass.i)) /\ done[pass.i]
        /\ pass'.toStart = pass.toStart /\ pass'.bogus = pass.bogus
        /\ pass'.accept = pass.accept /\ pass'.i = After(pass.i)
        /\ pass'.cConns = pass.cConns /\ pass'.cDlds = pass.cDlds
        /\ UNCHANGED <<cConnsNow, unseen>>
    BY <1>0, <1>3 DEF LookDone, Goto, PlacesOK, Pass
  <2>4. Sure' = Sure /\ (Unused' => Unused) BY <2>2, <2>3 DEF Sure, Noted, Unused
  <2>5. \A d \in Dld : Waits(d)' /\ Seen(d)' => Waits(d) /\ Seen(d)
    <3> SUFFICES ASSUME NEW d \in Dld, Waits(d)', Seen(d)' PROVE Waits(d) /\ Seen(d)
      OBVIOUS
    <3>1. Waits(d) BY <1>2, <2>3
    <3>2. d \in list /\ d # pass.i BY <2>3, <3>1 DEF Waits, Queued
    <3>3. d < After(pass.i) BY <2>2, <2>3, <3>2 DEF Seen
    <3> QED BY <1>0, <2>1, <2>2, <2>3, <3>1, <3>2, <3>3 DEF Seen
  <2>6. \A d \in Sure' : d \in list' /\ ~done'[d] BY <1>1, <2>4 DEF Attended
  <2> QED BY <1>1, <2>2, <2>3, <2>4, <2>5, <2>6 DEF Attended
<1>4. ASSUME Looks, NEW p, Look(p), p.i = pass.i
      PROVE  /\ pc[Manager] = "look" /\ pc'[Manager] = "act" /\ pass' = p
             /\ pass.i \in list /\ pass.i \in Dld /\ ~done[pass.i]
             /\ ~pass.accept /\ Noted = Sure
             /\ \A d \in Dld : Waits(d)' /\ Seen(d)' => d = pass.i \/ (Waits(d) /\ Seen(d))
  <2>1. /\ pc[Manager] = "look" /\ pc'[Manager] = "act" /\ pass' = p
        /\ unseen' = unseen \ {pass.i} /\ ~done[pass.i]
    BY <1>0, <1>4 DEF Looks, Look, Goto, PlacesOK
  <2>2. pass.i \in list /\ pass.i \in Dld BY <1>0, <2>1 DEF Attended
  <2>3. ~pass.accept BY <2>1 DEF Asking
  <2>4. ASSUME NEW d \in Dld, Waits(d)', Seen(d)', d # pass.i PROVE Waits(d) /\ Seen(d)
    <3>1. Waits(d) BY <1>2, <2>1, <2>4
    <3>2. d <= pass.i BY <1>4, <2>1, <2>4 DEF Seen
    <3> QED BY <1>0, <2>1, <2>2, <2>4, <3>1, <3>2 DEF Seen
  <2> QED BY <2>1, <2>2, <2>3, <2>4 DEF Sure
<1>5. CASE Reject
  <2> DEFINE d == pass.i
             s == SiteOf[d]
  <2>0. Looks /\ Look(pass) /\ ~(Fits(d) /\ Wants(d)) /\ cConnsNow' = cConnsNow
    BY <1>5 DEF Reject
  <2>1. /\ pc[Manager] = "look" /\ pc'[Manager] = "act" /\ pass' = pass
        /\ d \in list /\ d \in Dld /\ ~done[d]
        /\ ~pass.accept /\ Noted = Sure
        /\ \A e \in Dld : Waits(e)' /\ Seen(e)' => e = d \/ (Waits(e) /\ Seen(e))
    BY <1>4, <2>0
  <2>2. Sure' = Sure /\ (Unused' <=> Unused) BY <2>1 DEF Sure, Noted, Unused
  <2>3. ASSUME Waits(d)' PROVE ~Fits(d)
    BY <1>1, <2>0, <2>1, <2>3 DEF Waits, Queued, Wants
  <2>4. Unused => Fits(d)
    <3> SUFFICES ASSUME Unused PROVE Fits(d) OBVIOUS
    <3>1. /\ pass.cConns = settings.conns /\ pass.cDlds = Smaller(settings.tasks, 20)
          /\ s \in Site /\ cConnsNow[s] = Smaller(SiteMaxConns[s], settings.perSite)
      BY <2>1, QueueAssumption DEF Attended
    <3>2. /\ settings.conns > 0 /\ settings.tasks \in Int /\ settings.tasks > 0
          /\ settings.perSite > 0 /\ settings.perSite \in Int /\ SiteMaxConns[s] > 0
          /\ SiteMaxConns[s] \in Int
      BY <3>1, QueueAssumption DEF DataOK
    <3> QED BY <3>1, <3>2 DEF Fits, Smaller
  <2>5. ~Unused => Sure # {} BY <2>1 DEF Unused, Sure, Noted
  <2>6. \A e \in Sure' : e \in list' /\ ~done'[e] BY <1>1, <2>2 DEF Attended
  <2>7. \A e \in Dld : Waits(e)' /\ Seen(e)' => Sure' # {}
    BY <2>1, <2>2, <2>3, <2>4, <2>5 DEF Attended
  <2> QED BY <1>1, <2>0, <2>1, <2>2, <2>6, <2>7 DEF Attended
<1>6. CASE TooSoon
  <2> DEFINE p == [pass EXCEPT !.bogus = IF @ = None THEN pass.i ELSE @]
  <2>0. Looks /\ Look(p) /\ cConnsNow' = cConnsNow BY <1>6 DEF TooSoon
  <2>1. /\ p.i = pass.i /\ p.toStart = pass.toStart /\ p.accept = pass.accept
        /\ p.cConns = pass.cConns /\ p.cDlds = pass.cDlds
        /\ p.bogus = IF pass.bogus = None THEN pass.i ELSE pass.bogus
    BY <1>0 DEF Pass
  <2> HIDE DEF p
  <2>2. /\ pc[Manager] = "look" /\ pc'[Manager] = "act" /\ pass' = p
        /\ pass.i \in list /\ pass.i \in Dld /\ ~done[pass.i]
        /\ ~pass.accept /\ Noted = Sure
    BY <1>4, <2>0, <2>1
  <2>3. /\ p.bogus # None /\ p.bogus \in Sure' /\ Sure' \subseteq Sure \cup {pass.i}
    BY <1>0, <2>1, <2>2 DEF Sure, Noted
  <2>4. Unused' => Unused BY <2>1, <2>2 DEF Unused
  <2>5. \A e \in Sure' : e \in list' /\ ~done'[e] BY <1>1, <2>2, <2>3 DEF Attended
  <2> QED BY <1>1, <2>0, <2>1, <2>2, <2>3, <2>4, <2>5 DEF Attended
<1>7. CASE Accept
  <2> DEFINE p(k, more) == [pass EXCEPT !.accept = TRUE,
                              !.cConns = Less(pass.cConns, k) - more, !.cDlds = @ - 1]
  <2>1. PICK k \in Share(pass.i) :
          \E more \in {0} \cup (IF Less(pass.cConns, k) > 0 THEN {1} ELSE {}) :
            Look(p(k, more))
    BY <1>7 DEF Accept
  <2>2. PICK more \in {0} \cup (IF Less(pass.cConns, k) > 0 THEN {1} ELSE {}) :
            Look(p(k, more))
    BY <2>1
  <2>3. /\ p(k, more).i = pass.i /\ p(k, more).toStart = pass.toStart
        /\ p(k, more).bogus = pass.bogus /\ p(k, more).accept
    BY <1>0 DEF Pass
  <2>4. Looks BY <1>7 DEF Accept
  <2>5. /\ pc[Manager] = "look" /\ pc'[Manager] = "act" /\ pass' = p(k, more)
        /\ pass.i \in list /\ ~done[pass.i] /\ Noted = Sure
    BY <1>4, <2>2, <2>3, <2>4
  <2>6. Sure' = Sure \cup {pass.i} /\ ~Unused'
    BY <2>3, <2>5 DEF Sure, Noted, Unused
  <2>7. \A e \in Sure' : e \in list' /\ ~done'[e] BY <1>1, <2>5, <2>6 DEF Attended
  <2> QED BY <1>1, <2>3, <2>5, <2>6, <2>7 DEF Attended
<1>8. CASE Act
  <2> DEFINE d == pass.i
             new == IF pass.accept /\ ~running[d] THEN {d} ELSE {}
  <2>1. d \in Dld /\ d \in 0..(N + 1) /\ d \in list /\ pc[Manager] = "act"
    BY <1>0, <1>8 DEF Act, Walks, Attended, Dld
  <2>2. /\ Looking(After(d)) \in {"look", "unlock"}
        /\ Looking(After(d)) = "look" => After(d) \in list
        /\ \A e \in list : e < After(d) => e <= d
        /\ Looking(After(d)) = "unlock" => \A e \in list : e < After(d)
    BY <2>1, Advances DEF DataOK
  <2>3. PICK stops \in BOOLEAN :
          pass' = [pass EXCEPT !.toStart = @ \cup new,
                               !.toStop = @ \cup (IF stops THEN {d} ELSE {}),
                               !.i = After(@), !.accept = FALSE]
    BY <1>8, Zenon DEF Act
  <2>4. /\ pass'.toStart = pass.toStart \cup new /\ pass'.bogus = pass.bogus
        /\ ~pass'.accept /\ pass'.i = After(d)
        /\ pass'.cConns = pass.cConns /\ pass'.cDlds = pass.cDlds
    BY <1>0, <2>3 DEF Pass
  <2>5. pc'[Manager] = Looking(After(d)) /\ UNCHANGED <<cConnsNow, unseen>>
    BY <1>0, <1>8 DEF Act, Goto, PlacesOK
  <2>6. new = IF pass.accept THEN {d} ELSE {} BY <1>0, <2>1
  <2>7. Sure' = Sure /\ (Unused' => Unused)
    BY <2>1, <2>2, <2>4, <2>5, <2>6 DEF Sure, Noted, Unused
  <2>8. \A e \in Dld : Waits(e)' /\ Seen(e)' => Waits(e) /\ Seen(e)
    <3> SUFFICES ASSUME NEW e \in Dld, Waits(e)', Seen(e)' PROVE Waits(e) /\ Seen(e)
      OBVIOUS
    <3>1. Waits(e) BY <1>2, <2>5
    <3>2. e \in list BY <3>1 DEF Waits
    <3>3. e < After(d) BY <2>2, <2>4, <2>5, <3>2 DEF Seen
    <3> QED BY <2>1, <2>2, <3>1, <3>2, <3>3 DEF Seen
  <2>9. \A e \in Sure' : e \in list' /\ ~done'[e] BY <1>1, <2>7 DEF Attended
  <2> QED BY <1>1, <2>1, <2>2, <2>4, <2>5, <2>7, <2>8, <2>9 DEF Attended
<1>9. CASE Unlock
  <2>1. /\ pc[Manager] = "unlock" /\ pc'[Manager] = "stop" /\ unseen' = unseen
    BY <1>0, <1>9 DEF Unlock, Goto, PlacesOK
  <2>2. /\ pass'.toStart = IF NobodyElse /\ pass.toStart = {} THEN {pass.bogus}
                           ELSE pass.toStart
        /\ pass'.bogus = None /\ pass'.accept = FALSE
    BY <1>9 DEF Unlock, NoPass
  <2>3. Sure = pass.toStart \cup ({pass.bogus} \ {None}) /\ Sure' = pass'.toStart
    BY <2>1, <2>2 DEF Sure, Noted
  <2>4. pass.toStart = {} => pass.cConns = settings.conns
    BY <2>1 DEF Attended, Unused
  <2>5. Sure' \subseteq Sure /\ (Sure # {} => Sure' # {})
    BY <2>2, <2>3, <2>4 DEF NobodyElse
  <2>6. \A d \in Dld : Waits(d)' => Waits(d) /\ Seen(d) BY <1>2, <2>1 DEF Seen
  <2>7. \A d \in Sure' : d \in list' /\ ~done'[d] BY <1>1, <2>5 DEF Attended
  <2> QED BY <2>1, <2>2, <2>5, <2>6, <2>7 DEF Attended
<1> QED BY <1>3, <1>5, <1>6, <1>7, <1>8, <1>9 DEF InPassStep

\* A new pass has all its budgets and has dealt with nothing.
LEMMA BeginAttends == TypeInv /\ Begin => Attended'
<1> SUFFICES ASSUME TypeInv, Begin PROVE Attended' OBVIOUS
<1> USE DEF TypeInv
<1>0. /\ Manager \in Actor /\ 0 \in 0..(N + 1) /\ list' = list /\ settings' = settings
      /\ \A d \in list : d > 0 /\ d \in Int
  BY QueueAssumption DEF Actor, Begin, DataOK, Dld
<1>1. /\ Looking(After(0)) \in {"look", "unlock"}
      /\ Looking(After(0)) = "look" => After(0) \in list
      /\ \A d \in list : d < After(0) => d <= 0
      /\ Looking(After(0)) = "unlock" => \A d \in list : d < After(0)
  BY <1>0, Advances DEF DataOK
<1>2. /\ pc'[Manager] = Looking(After(0))
      /\ cConnsNow' = [s \in Site |-> Smaller(SiteMaxConns[s], settings.perSite)]
      /\ pass' = [NoPass EXCEPT !.i = After(0), !.cConns = settings.conns,
                                !.cDlds = Smaller(settings.tasks, 20)]
  BY <1>0 DEF Begin, Goto, PlacesOK
<1>3. /\ pass'.toStart = {} /\ pass'.bogus = None /\ ~pass'.accept
      /\ pass'.i = After(0) /\ pass'.cConns = settings.conns
      /\ pass'.cDlds = Smaller(settings.tasks, 20)
  BY <1>2 DEF NoPass
<1>4. Sure' = {} BY <1>1, <1>2, <1>3 DEF Sure, Noted
<1>5. \A d \in Dld : ~(Waits(d)' /\ Seen(d)')
  <2> SUFFICES ASSUME NEW d \in Dld, Waits(d)', Seen(d)' PROVE FALSE OBVIOUS
  <2>1. d \in list /\ d > 0 /\ d \in Int BY <1>0 DEF Waits
  <2>2. d < After(0) BY <1>1, <1>2, <1>3, <2>1 DEF Seen
  <2> QED BY <1>1, <2>1, <2>2
<1> QED BY <1>0, <1>1, <1>2, <1>3, <1>4, <1>5 DEF Attended

\* A start or a stop with nothing running and nothing pending.
LEMMA StartStopAttends ==
  ASSUME TypeInv, Asking, Attended, ~Excused, NEW t \in Actor, StartStop(t)
  PROVE  Excused' \/ Attended'
<1> USE DEF TypeInv
<1>0. /\ Manager \in Actor /\ Running = {}
      /\ \A d \in list : d \in Dld /\ ~running[d]
  BY DEF Actor, Excused, Running, DataOK
<1>1. UNCHANGED <<list, settings, done, cConnsNow>> BY StartStopFrame
<1>2. CASE StartOne(t) /\ First(todo[t]) \in list
  <2>1. running'[First(todo[t])] BY <1>0, <1>2 DEF StartOne, DataOK
  <2>2. First(todo[t]) \in Running' BY <1>1, <1>2, <2>1 DEF Running
  <2> QED BY <2>2 DEF Excused
<1>3. CASE ~(StartOne(t) /\ First(todo[t]) \in list)
  <2>1. \A d \in Dld : Waits(d)' => Waits(d)
    <3>1. CASE StopOne(t) \/ StopsDone(t) \/ Count(t) \/ StartSkipped(t) \/ StartsDone(t)
      BY <3>1 DEF StopOne, StopsDone, Count, StartSkipped, StartsDone, Waits, Queued
    <3>2. CASE StartQueued(t)
      BY <3>2 DEF StartQueued, Waits, Queued, DataOK
    <3>3. CASE StartOne(t)
      BY <1>3, <3>3 DEF StartOne, Waits, Queued, DataOK
    <3> QED BY <3>1, <3>2, <3>3 DEF StartStop
  <2>2. CASE t # Manager
    <3>1. pass' = pass
      BY <2>2 DEF StartStop, StopOne, StopsDone, Count, StartSkipped, StartOne,
                  StartQueued, StartsDone
    <3>2. /\ pc'[Manager] = pc[Manager] /\ todo'[Manager] = todo[Manager]
          /\ cRunning'[Manager] = cRunning[Manager]
      BY <1>0, <2>2, StartStopFrame
    <3> QED BY <1>1, <2>1, <3>1, <3>2, AttendedKept
  <2>3. CASE t = Manager /\ StopOne(t)
    <3>1. pc[Manager] = "stop" /\ UNCHANGED <<pass, pc, cRunning>>
      BY <2>3 DEF StopOne
    <3> QED BY <1>1, <2>1, <3>1, AttendedKept
  <2>4. CASE t = Manager /\ StopsDone(t)
    <3>1. /\ pc[Manager] = "stop" /\ pc'[Manager] = "count" /\ pass' = NoPass
          /\ todo'[Manager] = pass.toStart /\ pass.bogus = None
      BY <1>0, <2>4 DEF StopsDone, Goto, PlacesOK, DataOK, Attended
    <3>2. Sure' = Sure BY <3>1 DEF Sure, Noted, NoPass
    <3> QED BY <1>1, <2>1, <3>1, <3>2 DEF Attended, Seen
  <2>5. CASE t = Manager /\ Count(t)
    <3>1. /\ pc[Manager] = "count" /\ pc'[Manager] = "start" /\ UNCHANGED <<pass, todo>>
          /\ cRunning'[Manager] = 0
      BY <1>0, <2>5, FS_EmptySet DEF Count, Goto, PlacesOK, DataOK
    <3>2. Sure' = Sure BY <3>1 DEF Sure, Noted
    <3> QED BY <1>1, <2>1, <3>1, <3>2 DEF Attended, Seen
  <2>6. CASE t = Manager /\ pc[Manager] = "start" /\ todo[t] # {}
             /\ (StartSkipped(t) \/ StartOne(t) \/ StartQueued(t))
    <3> DEFINE d == First(todo[t])
    <3>1. d \in todo[Manager]
      <4>1. todo[t] \in SUBSET Dld BY DEF DataOK
      <4> QED BY <2>6, <4>1, FirstIn
    <3>2. d \in Sure BY <2>6, <3>1 DEF Sure, Noted
    <3>3. d \in list /\ ~done[d] BY <3>2 DEF Attended
    <3>4. MayStart(t)
      <4>1. cRunning[t] = 0 BY <2>6 DEF Attended
      <4>2. settings.conns \in Nat \ {0} /\ settings.tasks \in Nat \ {0}
        BY QueueAssumption DEF DataOK
      <4> QED BY <4>1, <4>2 DEF MayStart, Ceiling, Smaller
    <3> QED BY <1>3, <2>6, <3>3, <3>4 DEF StartSkipped, StartQueued
  <2>7. CASE t = Manager /\ StartsDone(t)
    <3>1. /\ pc[Manager] = "start" /\ pc'[Manager] = "idle" /\ todo[Manager] = {}
          /\ pass' = pass /\ pass = NoPass
      BY <1>0, <2>7 DEF StartsDone, Goto, PlacesOK, Asking
    <3>2. Sure = {} /\ Sure' = {} BY <3>1 DEF Sure, Noted, NoPass
    <3>3. \A d \in Dld : ~Waits(d)' BY <2>1, <3>1, <3>2 DEF Attended, Seen
    <3> QED BY <3>1, <3>2, <3>3 DEF Attended
  <2>8. StartSkipped(t) \/ StartOne(t) \/ StartQueued(t) => pc[t] = "start" /\ todo[t] # {}
    BY DEF StartSkipped, StartOne, StartQueued
  <2> QED BY <2>2, <2>3, <2>4, <2>5, <2>6, <2>7, <2>8 DEF StartStop
<1> QED BY <1>2, <1>3

\* Users and downloads, with nothing running and nothing pending.
LEMMA OthersAttend ==
  ASSUME TypeInv, Attended, ~Excused,
         \/ \E u \in User : UserCalls(u) \/ UserSteps(u)
         \/ \E d \in Dld : DownloadSteps(d)
         \/ Recount \/ UNCHANGED vars
  PROVE  Excused' \/ Attended'
<1> USE DEF TypeInv
<1>0. /\ Manager \in Actor /\ Manager \notin User /\ User \subseteq Actor
      /\ \A d \in list : d \in Dld /\ ~running[d] /\ ended[d] = 0
  <2>1. \A d \in list : d \in Dld /\ ~running[d] /\ ~(ended[d] > 0)
    BY DEF Excused, Pending, Running, DataOK
  <2>2. \A d \in Dld : ended[d] \in Nat BY QueueAssumption DEF DataOK
  <2> QED BY <2>1, <2>2, QueueAssumption DEF Actor
<1>1. ASSUME NEW u \in User, UserCalls(u) \/ UserSteps(u) PROVE Excused' \/ Attended'
  <2>1. CASE SetAutoStart(u) \/ Changed(u) \/ DeleteEnd(u)
    BY <2>1 DEF SetAutoStart, Changed, DeleteEnd, Excused, Pending
  <2>2. CASE ChangeSettings(u) \/ Delete(u) \/ DeleteUnlock(u)
    BY <1>0, <2>2 DEF ChangeSettings, Delete, DeleteUnlock, Goto, PlacesOK, Excused, Pending
  <2>3. CASE StartCall(u) \/ StopCall(u)
    <3>1. /\ UNCHANGED <<list, settings, pass, cConnsNow, cRunning, done>>
          /\ pc'[Manager] = pc[Manager] /\ todo'[Manager] = todo[Manager]
      BY <1>0, <2>3 DEF StartCall, StopCall, Goto, PlacesOK, DataOK
    <3>2. \A d \in Dld : Waits(d)' => Waits(d)
      BY <2>3 DEF StartCall, StopCall, Set, Waits, Queued, DataOK
    <3> QED BY <3>1, <3>2, AttendedKept
  <2> QED BY <1>1, <2>1, <2>2, <2>3 DEF UserCalls, UserSteps
<1>2. ASSUME NEW d \in Dld, DownloadSteps(d) PROVE Excused' \/ Attended'
  <2>1. d \notin list
    BY <1>0, <1>2 DEF DownloadSteps, Refused, Completes, Fails, ThreadEnds, StoppedOrDone,
                      Excused, Pending
  <2>2. /\ UNCHANGED <<list, settings, pass, cConnsNow, cRunning, pc, todo, unseen>>
        /\ \A e \in Dld : e # d => /\ running'[e] = running[e] /\ done'[e] = done[e]
                                   /\ bAutoStart'[e] = bAutoStart[e]
    BY <1>2 DEF DownloadSteps, Refused, Completes, Fails, ThreadEnds, StoppedOrDone, DataOK
  <2>3. \A e \in Dld : Waits(e)' => Waits(e) BY <2>1, <2>2 DEF Waits, Queued
  <2>4. \A e \in list : done'[e] => done[e] BY <1>0, <2>1, <2>2
  <2> QED BY <2>2, <2>3, <2>4, AttendedKept
<1>3. CASE Recount
  BY <1>3 DEF Recount, Excused
<1>4. CASE UNCHANGED vars
  BY <1>4, AttendedKept DEF vars, Waits, Queued
<1> QED BY <1>1, <1>2, <1>3, <1>4

LEMMA StepQueue ==
  ASSUME \A s \in Site : SiteMaxConns[s] > 0
  PROVE  TypeInv /\ Asking /\ QueueInv /\ [Next]_vars => QueueInv'
<1> SUFFICES ASSUME TypeInv, Asking, QueueInv, [Next]_vars PROVE QueueInv' OBVIOUS
<1>0. DisabledInv /\ DisabledInv' BY DisabledKept DEF QueueInv
<1>1. CASE Begin BY <1>0, <1>1, BeginAttends DEF QueueInv
<1>2. CASE ~Begin /\ Excused BY <1>0, <1>2, ExcuseKept DEF QueueInv
<1>3. CASE ~Begin /\ ~Excused
  <2>0. Attended /\ Running = {} BY <1>3 DEF QueueInv, Excused
  <2>1. CASE ManagerWakes \/ Disabled
    BY <1>3, <2>1 DEF ManagerWakes, Disabled, Excused, Pending
  <2>2. CASE InPassStep BY <1>0, <2>0, <2>2, PassAttends DEF QueueInv
  <2>3. CASE \E t \in Actor : StartStop(t)
    BY <1>0, <1>3, <2>0, <2>3, StartStopAttends DEF QueueInv
  <2>4. CASE \/ \E u \in User : UserCalls(u) \/ UserSteps(u)
             \/ \E d \in Dld : DownloadSteps(d)
             \/ Recount \/ UNCHANGED vars
    BY <1>0, <1>3, <2>0, <2>4, OthersAttend DEF QueueInv
  <2> QED BY <1>3, <2>1, <2>2, <2>3, <2>4 DEF Next, ProcessDownloads, InPassStep
<1> QED BY <1>1, <1>2, <1>3

\* The queue is not left alone: when nothing is about to happen and a download
\* waits, another runs, if every server lets one connect.
THEOREM QueueGoesOn ==
  ASSUME \A s \in Site : SiteMaxConns[s] > 0 PROVE Spec => []NeverStuck
<1>1. Init => Asking BY DEF Init, Asking, Noted, NoPass, Actor
<1>2. Init => QueueInv BY DEF Init, QueueInv, DisabledInv, Excused, Pending
<1>3. TypeInv /\ Asking /\ QueueInv => NeverStuck
  <2> SUFFICES ASSUME TypeInv, Asking, QueueInv, Quiet, ~stirred, Running = {},
                      NEW d \in list, Queued(d), d \notin unseen
               PROVE  FALSE
    BY DEF NeverStuck
  <2>1. /\ pc[Manager] = "idle" /\ d \in Dld /\ \A u \in User : pc[u] = "idle"
        /\ \A e \in list : ~(ended[e] > 0)
    BY DEF Quiet, Actor, TypeInv, DataOK
  <2>2. ~Excused BY <2>1 DEF Excused, Pending, Quiet
  <2>3. Waits(d) /\ Seen(d) BY <2>1 DEF Waits, Seen
  <2>4. Sure = {} BY <2>1 DEF Asking, Sure, Noted, NoPass
  <2> QED BY <2>1, <2>2, <2>3, <2>4 DEF QueueInv, Attended
<1> QED BY <1>1, <1>2, <1>3, Typed, StepAsking, StepQueue, PTL DEF Spec
=============================================================================
