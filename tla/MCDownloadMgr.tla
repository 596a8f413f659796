---------------------------- MODULE MCDownloadMgr ----------------------------
(* DownloadMgr for TLC: callers and control threads are interchangeable.   *)
EXTENDS DownloadMgrInv, TLC

Symmetry == Permutations(Ctl) \cup Permutations(Caller)
=============================================================================
