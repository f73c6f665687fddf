\* The chat window alone: hidden while live transcription prepares its model.
CONSTANTS
    m1 = m1
    m2 = m2
    llamacpp = llamacpp
    Models <- MC_OneModel
    TTSModel = m1
    Backend = llamacpp
    MaxCorrupt <- MC_MaxCorrupt
    Outside <- MC_NoOutside
    Hideable = TRUE
SPECIFICATION Spec
INVARIANT NoOrphanSession
