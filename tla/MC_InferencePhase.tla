------------------------- MODULE MC_InferencePhase -------------------------
(* Model values for the models and the backend they share; the cfgs pick   *)
(* which callers take part.                                                *)
EXTENDS InferencePhase

CONSTANTS m1, m2, llamacpp

MC_OneModel == {m1}
MC_TwoModels == {m1, m2}
MC_MaxCorrupt == 1
MC_NoOutside == {}
MC_AllOutside == {"tts", "manager"}
MC_Manager == {"manager"}
=============================================================================
