------------------------- MODULE MC_BackendManagerUI -------------------------
(* Two backends, so that two installs can run and refresh at once. *)
EXTENDS BackendManagerUI

CONSTANTS k1, k2

MC_Keys == {k1, k2}
MC_MaxOps == 2
MC_MaxClicks == 4
MC_MaxFailures == 1
MC_NoFailures == 0
=============================================================================
