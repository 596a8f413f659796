----------------------------- MODULE DurableList -----------------------------
(***************************************************************************)
(* What fsDownloadRegSaver promises of a list of downloads: however the    *)
(* program stops, a restart brings every download back in a version no     *)
(* older than the last save that was completed and no newer than the one   *)
(* the program had.                                                        *)
(*                                                                         *)
(* Versions of a download are numbered.  Adding and deleting it count as   *)
(* changes, so a list is a function to versions and lists are compared     *)
(* download by download.                                                   *)
(***************************************************************************)
EXTENDS Integers

CONSTANTS
  Download,
  LastVersion   \* bound: versions of a download

Version == 0..LastVersion
Content == [Download -> Version]
Empty == [d \in Download |-> 0]

\* Download by download, f is no newer than g.
NoNewer(f, g) == \A d \in Download : f[d] <= g[d]

VARIABLES
  value,   \* the list in memory
  saved,   \* the list as the last completed save wrote it
  down     \* the program is not running

durableVars == <<value, saved, down>>

Init == value = Empty /\ saved = Empty /\ down = FALSE

Edit ==
  /\ ~down /\ value' \in Content /\ NoNewer(value, value')
  /\ UNCHANGED <<saved, down>>

Save ==
  /\ ~down /\ saved' \in Content /\ NoNewer(saved, saved') /\ NoNewer(saved', value)
  /\ UNCHANGED <<value, down>>

Crash == ~down /\ down' = TRUE /\ UNCHANGED <<value, saved>>

Restart ==
  /\ down /\ down' = FALSE
  /\ value' \in Content /\ NoNewer(saved, value') /\ NoNewer(value', value)
  /\ UNCHANGED saved

Next == Edit \/ Save \/ Crash \/ Restart

Spec == Init /\ [][Next]_durableVars
=============================================================================
