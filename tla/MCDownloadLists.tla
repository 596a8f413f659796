--------------------------- MODULE MCDownloadLists ---------------------------
(* DownloadLists for TLC: downloads and threads are model values. *)
EXTENDS DownloadLists, TLC

Symmetry == Permutations(Download) \cup Permutations(Thread)
=============================================================================
