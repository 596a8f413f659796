----------------------------- MODULE MCRegSaver -----------------------------
(* RegSaver for TLC: the downloads are interchangeable. *)
EXTENDS RegSaver, TLC

Downloads == Permutations(Download)
=============================================================================
