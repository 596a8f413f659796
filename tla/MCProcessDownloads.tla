------------------------- MODULE MCProcessDownloads -------------------------
(* ProcessDownloads for TLC: two downloads from one server, and settings   *)
(* that allow one or both of them to run.                                  *)
EXTENDS ProcessDownloads

One == [d \in Dld |-> "site"]
Free == [s \in {"site"} |-> UIntMax]
Begins == Init /\ settings.tasks = 1
MCSpec == Begins /\ [][Next]_vars
OneOrTwo == {[tasks |-> k, conns |-> 2, perSite |-> 2] : k \in {1, 2}}
=============================================================================
