\* The chat window hidden and shown while its handlers run, racing one TTS
\* or Model Manager Load pre-flight of the same model.
CONSTANTS
    m1 = m1
    m2 = m2
    llamacpp = llamacpp
    Models <- MC_OneModel
    TTSModel = m1
    Backend = llamacpp
    MaxCorrupt <- MC_MaxCorrupt
    Outside <- MC_AllOutside
    Hideable = TRUE
SPECIFICATION Spec
INVARIANT PhaseTracksChat
PROPERTY EveryInvocationSettles
