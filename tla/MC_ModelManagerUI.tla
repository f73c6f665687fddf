------------------------- MODULE MC_ModelManagerUI -------------------------
(* Two models, two slots for invocations and fetches in flight, four user  *)
(* actions and one failed /health fetch.                                   *)
EXTENDS ModelManagerUI

CONSTANTS m1, m2

MC_Models == {m1, m2}
MC_MaxOps == 2
MC_MaxClicks == 4
MC_MaxFailures == 1
=============================================================================
