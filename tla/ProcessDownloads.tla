--------------------------- MODULE ProcessDownloads ---------------------------
(***************************************************************************)
(* Which downloads run: fsDownloadsMgr::ProcessDownloads, called by the    *)
(* manager's thread when setNeedProcessDownloads has asked for it, and     *)
(* StartDownloads and StopDownloads, called by that thread and by the      *)
(* interface and the scheduler.                                            *)
(*                                                                         *)
(* A pass goes through the list in its order with three budgets: running   *)
(* downloads (uMaxTasks), connections (uMaxConns) and connections per      *)
(* server (uMaxConnsPS).  Downloads that fit are to run, others that run   *)
(* are to be stopped.  It collects both in lists, and starts and stops     *)
(* after it has given the read lock up.  Meanwhile downloads end, and the  *)
(* user starts, stops, queues and deletes them.                            *)
(*                                                                         *)
(* A download is what the manager sees of it: whether it runs, is to stop, *)
(* is complete and has bAutoStart.  How many connections it has changes at *)
(* any time: what a pass reads of them is any number.  cConnsNow of a      *)
(* server is a pass's budget and also what the events of the downloads     *)
(* count connections with, so that they may change it under a pass         *)
(* (Recount); what they do with it otherwise is any answer to              *)
(* DE_QUERYNEWSECTION (Refused).                                           *)
(*                                                                         *)
(* Left out: BitTorrent and streaming downloads, mirrors, the time limit   *)
(* m_dwPDTimeLimit, m_bAllowStart (the program exits), what is done with a *)
(* complete download (StoppedOrDone), moves within the list.               *)
(***************************************************************************)
EXTENDS Integers, FiniteSets

CONSTANTS
  N,             \* the downloads of the list are 1..N, in this order
  User,          \* threads of the interface, the scheduler, the traffic mode
  Manager,       \* the thread _threadDownloadsMgr
  None,
  Site,          \* servers
  SiteOf,        \* the server of each download
  SiteMaxConns,  \* cMaxConns of each server
  Settings,      \* the values _TumMgr.getSettings () may have
  MaxSections,   \* m_dp.uMaxSections
  Resumable,     \* downloads with IsResumeSupported () == RST_PRESENT
  UIntMax,       \* the largest UINT
  MaxEnds,       \* bound: runs of a download whose end is not reported yet
  MaxCalls       \* bound: calls of the users

Dld   == 1..N
Actor == User \cup {Manager}

ASSUME QueueAssumption ==
  /\ N \in Nat /\ MaxSections \in Nat \ {0} /\ MaxEnds \in Nat /\ MaxCalls \in Nat
  /\ Manager \notin User /\ None \notin Dld /\ Resumable \subseteq Dld
  /\ SiteOf \in [Dld -> Site] /\ SiteMaxConns \in [Site -> 0..UIntMax]
  /\ UIntMax \in Nat
  /\ Settings \subseteq [tasks : 1..UIntMax, conns : 1..UIntMax, perSite : 1..UIntMax]
  /\ Settings # {}

VARIABLES
  list,          \* m_vDownloads
  running,       \* IsRunning () of each download
  needStop,      \* DS_NEEDSTOP
  done,          \* IsDone ()
  bAutoStart,
  recent,        \* ticksLastStopByProcessDownloadsFn may be less than 500 ms ago
  ended,         \* runs that have ended and not yet raised DMEE_STOPPEDORDONE
  settings,      \* _TumMgr.getSettings ().download
  needPD,        \* m_ticksNeedStartProcessDownloads is set
  bDisablePD,    \* m_bDisablePD; m_rwlDownloads is held for writing
  pc, todo,      \* where each actor is, the downloads its call has left
  cRunning,      \* the local variable of StartDownloads
  cConnsNow,     \* of each server: what a pass may still give
  pass,          \* the local variables of ProcessDownloads
  calls,         \* counter of the bound
  touched,       \* history: ended or taken from the queue since looked at
  mixed,         \* history: another actor has started one since cRunning
  unseen,        \* history: queued by StartDownloads and not looked at since
  stirred        \* history: cConnsNow changed under the pass with nothing running

dldV  == <<running, needStop, done, bAutoStart>>
callV == <<pc, todo, cRunning>>
passV == <<pass, cConnsNow>>
histV == <<touched, mixed, unseen, stirred>>
vars  == <<list, dldV, recent, ended, settings, needPD, bDisablePD, callV, passV,
           calls, histV>>
-----------------------------------------------------------------------------
Queued(d)  == bAutoStart[d] /\ ~running[d] /\ ~done[d]
Running    == {d \in list : running[d]}
Smaller(a, b) == IF a <= b THEN a ELSE b
Ceiling    == Smaller(Smaller(settings.conns, settings.tasks), 20)
InPass     == pc[Manager] \in {"look", "act"}
First(S)   == CHOOSE d \in S : \A e \in S : d <= e
Goto(t, l) == pc' = [pc EXCEPT ![t] = l]
Set(f, S, v) == [d \in DOMAIN f |-> IF d \in S THEN v ELSE f[d]]

\* Mutation of Less: the budget is not clamped.
LessUnclamped(a, b) == a - b

\* What is left of a budget.
Less(a, b) == IF a > b THEN a - b ELSE 0

\* What a pass knows before it begins.  A call ends with no local variables.
NoPass == [i |-> N + 1, cConns |-> 0, cDlds |-> 0, accept |-> FALSE,
           toStop |-> {}, toStart |-> {}, bogus |-> None]

\* What the manager means to start, or looks at.
Chosen == pass.toStart \cup {pass.bogus} \cup (IF pc[Manager] = "act" THEN {pass.i} ELSE {})
            \cup (IF pc[Manager] \in {"count", "start"} THEN todo[Manager] ELSE {})
Touch(S) == touched' = touched \cup (S \cap Chosen)

Init ==
  /\ list = Dld
  /\ running = [d \in Dld |-> FALSE] /\ needStop = [d \in Dld |-> FALSE]
  /\ done = [d \in Dld |-> FALSE] /\ bAutoStart \in [Dld -> BOOLEAN]
  /\ recent = [d \in Dld |-> FALSE]
  /\ ended = [d \in Dld |-> 0]
  /\ cConnsNow = [s \in Site |-> 0]
  /\ settings \in Settings /\ needPD = TRUE /\ bDisablePD = FALSE
  /\ pc = [t \in Actor |-> "idle"] /\ todo = [t \in Actor |-> {}]
  /\ cRunning = [t \in Actor |-> 0]
  /\ pass = NoPass
  /\ calls = 0
  /\ touched = {} /\ mixed = [t \in Actor |-> FALSE] /\ unseen = {} /\ stirred = FALSE
-----------------------------------------------------------------------------
(* The manager's thread: _threadDownloadsMgr and ProcessDownloads.         *)

ManagerWakes ==
  /\ pc[Manager] = "idle" /\ needPD
  /\ needPD' = FALSE
  /\ Goto(Manager, "process")
  /\ UNCHANGED <<list, dldV, recent, ended, settings, bDisablePD, todo,
                 cRunning, passV, calls, histV>>

Disabled ==
  /\ pc[Manager] = "process" /\ bDisablePD
  /\ Goto(Manager, "idle")
  /\ UNCHANGED <<list, dldV, recent, ended, settings, needPD, bDisablePD, todo,
                 cRunning, passV, calls, histV>>

\* The list is read in its order; N + 1 is its end.
After(i) == IF \E d \in list : d > i THEN First({d \in list : d > i}) ELSE N + 1
Looking(i) == IF i > N THEN "unlock" ELSE "look"

\* Settings are read and every server has its limit left.
Begin ==
  /\ pc[Manager] = "process" /\ ~bDisablePD
  /\ pass' = [NoPass EXCEPT !.i = After(0), !.cConns = settings.conns,
                            !.cDlds = Smaller(settings.tasks, 20)]
  /\ cConnsNow' = [s \in Site |-> Smaller(SiteMaxConns[s], settings.perSite)]
  /\ Goto(Manager, Looking(After(0)))
  /\ stirred' = FALSE
  /\ UNCHANGED <<list, dldV, recent, ended, settings, needPD, bDisablePD, todo,
                 cRunning, calls, touched, mixed, unseen>>

LookDone ==
  /\ pc[Manager] = "look" /\ done[pass.i]
  /\ pass' = [pass EXCEPT !.i = After(@)]
  /\ Goto(Manager, Looking(After(pass.i)))
  /\ UNCHANGED <<list, dldV, recent, ended, settings, needPD, bDisablePD, todo,
                 cRunning, cConnsNow, calls, histV>>

\* Mutation of Wants: a download need not be in the queue.
WantsAny(d) == TRUE

Fits(d) == pass.cDlds > 0 /\ pass.cConns > 0 /\ cConnsNow[SiteOf[d]] > 0
Wants(d) == running[d] \/ bAutoStart[d]

Looks == pc[Manager] = "look" /\ ~done[pass.i]

Look(after) ==
  /\ Goto(Manager, "act")
  /\ pass' = after
  /\ touched' = touched \ {pass.i}
  /\ unseen' = unseen \ {pass.i}
  /\ UNCHANGED <<list, dldV, ended, settings, needPD, bDisablePD, todo,
                 cRunning, calls, mixed, stirred>>

Reject ==
  /\ Looks /\ ~(Fits(pass.i) /\ Wants(pass.i))
  /\ Look(pass)
  /\ UNCHANGED <<recent, cConnsNow>>

\* A download that has just been stopped by a pass waits.
TooSoon ==
  /\ Looks /\ Fits(pass.i) /\ bAutoStart[pass.i] /\ ~running[pass.i] /\ recent[pass.i]
  /\ Look([pass EXCEPT !.bogus = IF @ = None THEN pass.i ELSE @])
  /\ UNCHANGED <<recent, cConnsNow>>

\* Connections a download has, or may be given: no more than its sections, the
\* bytes that it lacks and the budgets allow.
Share(d) ==
  IF running[d] THEN 0..MaxSections
  ELSE 1..Smaller(Smaller(pass.cConns, settings.perSite),
                  Smaller(cConnsNow[SiteOf[d]], MaxSections))

\* The budgets, with one more connection for a section to be added if there are
\* bytes enough.
Accept ==
  /\ Looks /\ Fits(pass.i) /\ Wants(pass.i)
  /\ \E k \in Share(pass.i) :
       LET s == SiteOf[pass.i]
           conns == Less(pass.cConns, k)
       IN \E more \in {0} \cup (IF conns > 0 THEN {1} ELSE {}) :
            /\ Look([pass EXCEPT !.accept = TRUE, !.cConns = conns - more, !.cDlds = @ - 1])
            /\ cConnsNow' = [cConnsNow EXCEPT ![s] = Less(@, k + more)]
  /\ recent' = [recent EXCEPT ![pass.i] = @ /\ running[pass.i]]

\* IsRunning is read again.  One without sections may be stopped whether it can
\* resume or not.
Act ==
  /\ pc[Manager] = "act"
  /\ LET d == pass.i
         starts == pass.accept /\ ~running[d]
         mayStop == ~pass.accept /\ running[d]
     IN \E stops \in IF ~mayStop THEN {FALSE} ELSE IF d \in Resumable THEN {TRUE}
                     ELSE BOOLEAN :
          /\ pass' = [pass EXCEPT !.toStart = @ \cup (IF starts THEN {d} ELSE {}),
                                  !.toStop = @ \cup (IF stops THEN {d} ELSE {}),
                                  !.i = After(@), !.accept = FALSE]
          /\ recent' = [recent EXCEPT ![d] = @ \/ stops]
  /\ Goto(Manager, Looking(After(pass.i)))
  /\ UNCHANGED <<list, dldV, ended, settings, needPD, bDisablePD, todo,
                 cRunning, cConnsNow, calls, histV>>

\* Mutation of NobodyElse: a download that is to wait is left waiting.
NobodyWaits == FALSE

\* If nobody has used a connection, the first of those that were to wait starts.
NobodyElse == pass.cConns = settings.conns /\ pass.bogus # None

Unlock ==
  /\ pc[Manager] = "unlock" /\ ~bDisablePD
  /\ pass' = [NoPass EXCEPT !.toStart = IF NobodyElse /\ pass.toStart = {}
                                         THEN {pass.bogus} ELSE pass.toStart]
  /\ cConnsNow' = [s \in Site |-> 0]
  /\ todo' = [todo EXCEPT ![Manager] = pass.toStop]
  /\ Goto(Manager, "stop")
  /\ UNCHANGED <<list, dldV, recent, ended, settings, needPD, bDisablePD,
                 cRunning, calls, histV>>
-----------------------------------------------------------------------------
(* StopDownloads and StartDownloads, in any thread.                        *)

StopOne(t) ==
  /\ pc[t] = "stop" /\ todo[t] # {}
  /\ LET d == First(todo[t])
     IN /\ needStop' = [needStop EXCEPT ![d] = @ \/ running[d]]
        /\ todo' = [todo EXCEPT ![t] = @ \ {d}]
  /\ UNCHANGED <<list, running, done, bAutoStart, recent, ended, settings,
                 needPD, bDisablePD, pc, cRunning, passV, calls, histV>>

StopsDone(t) ==
  /\ pc[t] = "stop" /\ todo[t] = {}
  /\ IF t = Manager
     THEN /\ Goto(t, "count")
          /\ todo' = [todo EXCEPT ![t] = pass.toStart]
          /\ pass' = NoPass
     ELSE Goto(t, "idle") /\ UNCHANGED <<todo, pass>>
  /\ UNCHANGED <<list, dldV, recent, ended, settings, needPD, bDisablePD,
                 cRunning, cConnsNow, calls, histV>>

\* GetRunningDownloadCount.
Count(t) ==
  /\ pc[t] = "count" /\ ~bDisablePD
  /\ cRunning' = [cRunning EXCEPT ![t] = Cardinality(Running)]
  /\ Goto(t, "start")
  /\ UNCHANGED <<list, dldV, recent, ended, settings, needPD, bDisablePD, todo,
                 passV, calls, histV>>

\* Mutation of MayStart: one too many.
MayStartOneMore(t) == cRunning[t] <= Ceiling

MayStart(t) == cRunning[t] < Ceiling

StartSkipped(t) ==
  /\ pc[t] = "start" /\ todo[t] # {} /\ MayStart(t)
  /\ done[First(todo[t])]
  /\ todo' = [todo EXCEPT ![t] = @ \ {First(@)}]
  /\ UNCHANGED <<list, dldV, recent, ended, settings, needPD, bDisablePD, pc,
                 cRunning, passV, calls, histV>>

\* One that runs is counted as well.
StartOne(t) ==
  /\ pc[t] = "start" /\ todo[t] # {} /\ MayStart(t)
  /\ LET d == First(todo[t])
     IN /\ ~done[d]
        /\ running' = [running EXCEPT ![d] = TRUE]
        /\ needStop' = [needStop EXCEPT ![d] = @ /\ running[d]]
        /\ todo' = [todo EXCEPT ![t] = @ \ {d}]
        /\ mixed' = [u \in Actor |-> mixed[u] \/ (u # t /\ pc[u] = "start" /\ ~running[d])]
  /\ cRunning' = [cRunning EXCEPT ![t] = @ + 1]
  /\ UNCHANGED <<list, done, bAutoStart, recent, ended, settings, needPD,
                 bDisablePD, pc, passV, calls, touched, unseen, stirred>>

StartQueued(t) ==
  /\ pc[t] = "start" /\ todo[t] # {} /\ ~MayStart(t)
  /\ LET d == First(todo[t])
     IN /\ bAutoStart' = [bAutoStart EXCEPT ![d] = TRUE]
        /\ unseen' = unseen \cup {d}
        /\ todo' = [todo EXCEPT ![t] = @ \ {d}]
  /\ UNCHANGED <<list, running, needStop, done, recent, ended, settings, needPD,
                 bDisablePD, pc, cRunning, passV, calls, touched, mixed,
                 stirred>>

StartsDone(t) ==
  /\ pc[t] = "start" /\ todo[t] = {}
  /\ Goto(t, "idle")
  /\ cRunning' = [cRunning EXCEPT ![t] = 0]
  /\ mixed' = [mixed EXCEPT ![t] = FALSE]
  /\ touched' = IF t = Manager THEN {} ELSE touched
  /\ UNCHANGED <<list, dldV, recent, ended, settings, needPD, bDisablePD, todo,
                 passV, calls, unseen, stirred>>
-----------------------------------------------------------------------------
(* The calls of the interface, the scheduler and the traffic mode.         *)

Calls(u) == pc[u] = "idle" /\ calls < MaxCalls /\ calls' = calls + 1

\* Start, for selected downloads, a group or all of them.
StartCall(u) ==
  /\ Calls(u)
  /\ \E S \in SUBSET list : S # {} /\ todo' = [todo EXCEPT ![u] = S]
  /\ Goto(u, "count")
  /\ UNCHANGED <<list, dldV, recent, ended, settings, needPD, bDisablePD,
                 cRunning, passV, histV>>

\* StopDownloads by the user.
StopCall(u) ==
  /\ Calls(u)
  /\ \E S \in SUBSET list :
       /\ S # {}
       /\ todo' = [todo EXCEPT ![u] = S]
       /\ bAutoStart' = Set(bAutoStart, S, FALSE)
       /\ Touch(S)
  /\ Goto(u, "stop")
  /\ UNCHANGED <<list, running, needStop, done, recent, ended, settings, needPD,
                 bDisablePD, cRunning, passV, mixed, unseen, stirred>>

\* OnDldautostart puts a download into the queue or takes it out.
SetAutoStart(u) ==
  /\ Calls(u)
  /\ \E d \in list :
       /\ bAutoStart' = [bAutoStart EXCEPT ![d] = ~@]
       /\ Touch({d})
  /\ needPD' = TRUE
  /\ UNCHANGED <<list, running, needStop, done, recent, ended, settings,
                 bDisablePD, callV, passV, mixed, unseen, stirred>>

\* BuildCurrentSettings, then onCurrentTrafficUsageModeChanged.
ChangeSettings(u) ==
  /\ Calls(u)
  /\ settings' \in Settings \ {settings}
  /\ Goto(u, "changed")
  /\ UNCHANGED <<list, dldV, recent, ended, needPD, bDisablePD, todo, cRunning,
                 passV, histV>>

Changed(u) ==
  /\ pc[u] = "changed"
  /\ needPD' = TRUE
  /\ Goto(u, "idle")
  /\ UNCHANGED <<list, dldV, recent, ended, settings, bDisablePD, todo,
                 cRunning, passV, calls, histV>>

\* DeleteDownloads2, with the list locked for writing.
Delete(u) ==
  /\ Calls(u) /\ ~InPass /\ ~bDisablePD
  /\ bDisablePD' = TRUE
  /\ \E d \in list : todo' = [todo EXCEPT ![u] = {d}]
  /\ Goto(u, "delete")
  /\ UNCHANGED <<list, dldV, recent, ended, settings, needPD, cRunning, passV,
                 histV>>

DeleteUnlock(u) ==
  /\ pc[u] = "delete"
  /\ list' = list \ todo[u]
  /\ bDisablePD' = FALSE
  /\ Goto(u, "deleted")
  /\ UNCHANGED <<dldV, recent, ended, settings, needPD, todo, cRunning, passV,
                 calls, histV>>

\* Another thread stops what was deleted.
DeleteEnd(u) ==
  /\ pc[u] = "deleted"
  /\ needStop' = [d \in Dld |-> needStop[d] \/ (d \in todo[u] /\ running[d])]
  /\ todo' = [todo EXCEPT ![u] = {}]
  /\ needPD' = TRUE
  /\ Goto(u, "idle")
  /\ UNCHANGED <<list, running, done, bAutoStart, recent, ended, settings,
                 bDisablePD, cRunning, passV, calls, histV>>
-----------------------------------------------------------------------------
(* The threads of a download, and their events: _DownloadMgrEvents, which  *)
(* finds the download in the list with the read lock.                      *)

\* RebuildServerList for a section that asks or has started, OnSectionStop for
\* one that has ended: an unsigned counter that may wrap.
Recount ==
  /\ InPass /\ ~bDisablePD
  /\ \E s \in Site : \E n \in 0..UIntMax : cConnsNow' = [cConnsNow EXCEPT ![s] = n]
  /\ stirred' = (stirred \/ Running = {})
  /\ UNCHANGED <<list, dldV, recent, ended, settings, needPD, bDisablePD, callV,
                 pass, calls, touched, mixed, unseen>>

\* OnQueryNewSection does not let a download open its first connection: it goes
\* into the queue and ends (IR_S_FALSE in StartDownload of fsDownloadMgr).
Refused(d) ==
  /\ running[d] /\ ~done[d] /\ ~needStop[d] /\ d \in list /\ ~bDisablePD
  /\ bAutoStart' = [bAutoStart EXCEPT ![d] = TRUE]
  /\ needStop' = [needStop EXCEPT ![d] = TRUE]
  /\ UNCHANGED <<list, running, done, recent, ended, settings, needPD,
                 bDisablePD, callV, passV, calls, histV>>

Completes(d) ==
  /\ running[d] /\ ~done[d]
  /\ done' = [done EXCEPT ![d] = TRUE]
  /\ UNCHANGED <<list, running, needStop, bAutoStart, recent, ended, settings,
                 needPD, bDisablePD, callV, passV, calls, histV>>

\* DMEE_FATALERROR, DMEE_USERSTOP, DMEE_FILEWASDELETED, DE_WRITEERROR.
Fails(d) ==
  /\ running[d] /\ ~done[d] /\ ~needStop[d] /\ ~bDisablePD
  /\ needStop' = [needStop EXCEPT ![d] = TRUE]
  /\ bAutoStart' = [bAutoStart EXCEPT ![d] = @ /\ d \notin list]
  /\ Touch({d})
  /\ UNCHANGED <<list, running, done, recent, ended, settings, needPD,
                 bDisablePD, callV, passV, calls, mixed, unseen, stirred>>

ThreadEnds(d) ==
  /\ running[d] /\ (done[d] \/ needStop[d]) /\ ended[d] < MaxEnds
  /\ running' = [running EXCEPT ![d] = FALSE]
  /\ needStop' = [needStop EXCEPT ![d] = FALSE]
  /\ ended' = [ended EXCEPT ![d] = @ + 1]
  /\ Touch({d})
  /\ UNCHANGED <<list, done, bAutoStart, recent, settings, needPD, bDisablePD,
                 callV, passV, calls, mixed, unseen, stirred>>

\* DMEE_STOPPEDORDONE, OnDownloadStoppedOrDone.
StoppedOrDone(d) ==
  /\ ended[d] > 0 /\ ~bDisablePD
  /\ ended' = [ended EXCEPT ![d] = @ - 1]
  /\ bAutoStart' = [bAutoStart EXCEPT ![d] = @ /\ ~(d \in list /\ done[d])]
  /\ needPD' = (needPD \/ d \in list)
  /\ UNCHANGED <<list, running, needStop, done, recent, settings, bDisablePD,
                 callV, passV, calls, histV>>
-----------------------------------------------------------------------------
ProcessDownloads ==
  \/ ManagerWakes \/ Disabled \/ Begin \/ LookDone \/ Reject \/ TooSoon \/ Accept
  \/ Act \/ Unlock

StartStop(t) ==
  \/ StopOne(t) \/ StopsDone(t) \/ Count(t) \/ StartSkipped(t) \/ StartOne(t)
  \/ StartQueued(t) \/ StartsDone(t)

UserCalls(u) ==
  \/ StartCall(u) \/ StopCall(u) \/ SetAutoStart(u) \/ ChangeSettings(u) \/ Delete(u)

UserSteps(u) == Changed(u) \/ DeleteUnlock(u) \/ DeleteEnd(u)

DownloadSteps(d) ==
  Refused(d) \/ Completes(d) \/ Fails(d) \/ ThreadEnds(d) \/ StoppedOrDone(d)

Next ==
  \/ ProcessDownloads \/ Recount
  \/ \E t \in Actor : StartStop(t)
  \/ \E u \in User : UserCalls(u) \/ UserSteps(u)
  \/ \E d \in Dld : DownloadSteps(d)

Spec == Init /\ [][Next]_vars
-----------------------------------------------------------------------------
(* Properties.                                                             *)

UserPC    == {"idle", "stop", "count", "start", "changed", "delete", "deleted"}
ManagerPC == {"idle", "process", "look", "act", "unlock", "stop", "count",
              "start"}

Pass == [i : 1..(N + 1), cConns : 0..UIntMax, cDlds : 0..20, accept : BOOLEAN,
         toStop : SUBSET Dld, toStart : SUBSET Dld, bogus : Dld \cup {None}]

\* Every variable keeps its type.
TypeOK ==
  /\ list \subseteq Dld
  /\ running \in [Dld -> BOOLEAN] /\ needStop \in [Dld -> BOOLEAN]
  /\ done \in [Dld -> BOOLEAN] /\ bAutoStart \in [Dld -> BOOLEAN]
  /\ recent \in [Dld -> BOOLEAN]
  /\ ended \in [Dld -> 0..MaxEnds]
  /\ cConnsNow \in [Site -> 0..UIntMax]
  /\ settings \in Settings /\ needPD \in BOOLEAN /\ bDisablePD \in BOOLEAN
  /\ pc \in [Actor -> UserPC \cup ManagerPC]
  /\ pc[Manager] \in ManagerPC /\ \A u \in User : pc[u] \in UserPC
  /\ todo \in [Actor -> SUBSET Dld] /\ cRunning \in [Actor -> Nat]
  /\ pass \in Pass /\ calls \in 0..MaxCalls
  /\ touched \subseteq Dld /\ unseen \subseteq Dld
  /\ mixed \in [Actor -> BOOLEAN] /\ stirred \in BOOLEAN

\* No download is started beyond the limits, unless two threads are inside
\* StartDownloads at once.
StartsWithinLimit ==
  [][\A t \in Actor : \A d \in Dld :
       pc[t] = "start" /\ ~mixed[t] /\ cRunning'[t] # cRunning[t] /\ ~running[d] /\ running'[d]
         => Cardinality(Running) < Ceiling]_vars

\* The manager starts only what is in the queue, unless the download was taken
\* out of it, or ended, after the pass had looked at it.
StartsOnlyQueued ==
  [][\A d \in Dld : pc[Manager] = "start" /\ todo[Manager] # todo'[Manager]
        /\ ~running[d] /\ running'[d] => bAutoStart[d] \/ d \in touched]_vars

\* Nobody is about to do anything: no call, no pass, no end of a run.
Quiet ==
  /\ ~needPD /\ \A t \in Actor : pc[t] = "idle"
  /\ \A d \in Dld : ended[d] = 0

\* The queue is not left alone: when nothing is about to happen and a download
\* waits in the queue, another one runs, whose end will wake the manager.
\* Exceptions: downloads that StartDownloads has queued, which asks for no pass,
\* and a pass under which a section that outlived its download changed the
\* counters of the servers.
NeverStuck ==
  Quiet /\ ~stirred =>
    \A d \in list : Queued(d) => d \in unseen \/ Running # {}
=============================================================================
