----------------------- MODULE MCDownloadListReaders -----------------------
(* DownloadListReaders for TLC: the threads are interchangeable. *)
EXTENDS DownloadListReaders, TLC

Threads == Permutations(Thread)
=============================================================================
