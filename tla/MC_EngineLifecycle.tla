------------------------- MODULE MC_EngineLifecycle -------------------------
(* One SDServer slot and one RyzenAIServer slot, three loads between them. *)
EXTENDS EngineLifecycle

CONSTANTS sd, ryzen

MC_Engines == {sd, ryzen}
MC_Kind == [e \in MC_Engines |-> IF e = sd THEN "sd" ELSE "ryzen"]
MC_MaxLoads == 3

=============================================================================
