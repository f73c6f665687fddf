\* Two preference values, four user actions.
CONSTANTS
    p1 = p1
    p2 = p2
    none = none
    Prefs <- MC_Prefs
    DefaultPrefs = p1
    NoSettings = none
    MaxActions <- MC_MaxActions
    StoredLayouts <- MC_StoredLayouts
SPECIFICATION Spec
PROPERTY ChatSettingsConverge PanelEventuallyReady
CHECK_DEADLOCK FALSE
