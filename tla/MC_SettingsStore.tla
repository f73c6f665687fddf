-------------------------- MODULE MC_SettingsStore --------------------------
EXTENDS SettingsStore

CONSTANTS p1, p2, none

MC_Prefs == {p1, p2}
MC_MaxActions == 4

\* The default layout, and one that mounts the settings panel and hides the
\* chat as soon as it is applied.
MC_StoredLayouts ==
    {DefaultLayout, [view |-> "settings", chat |-> FALSE, mm |-> TRUE]}

=============================================================================
