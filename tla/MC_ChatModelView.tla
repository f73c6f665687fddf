------------------------- MODULE MC_ChatModelView --------------------------
(* Two LLM models and one embedding model, one chat fetch in flight,    *)
(* one failed /health fetch and four user actions.                         *)
EXTENDS ChatModelView

CONSTANTS a, b, e, none

MC_Models == {a, b, e}
MC_Modality == [m \in MC_Models |-> IF m = e THEN "embedding" ELSE "llm"]
MC_MaxFetches == 1
MC_MaxFailures == 1
MC_MaxClicks == 4
=============================================================================
