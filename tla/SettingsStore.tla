--------------------------- MODULE SettingsStore ---------------------------
(***************************************************************************)
(* The app settings file and the three renderer components that read and  *)
(* write it over IPC (window.api.getSettings / saveSettings):               *)
(*                                                                         *)
(*  - App (src/src/app/src/renderer/App.tsx) loads the saved layout at     *)
(*    mount, and 300 ms after every layout change (debounced) reads the   *)
(*    whole settings and writes them back with its current layout;        *)
(*  - SettingsPanel (SettingsPanel.tsx), mounted while the ModelManager is *)
(*    visible and shows the settings view, loads the settings into a draft, lets the  *)
(*    user edit or reset it, and saves the whole draft;                   *)
(*  - ChatWindow (ChatWindow.tsx), mounted while the chat is visible and  *)
(*    no external content replaces it, loads the settings and subscribes  *)
(*    to onSettingsUpdated.                                               *)
(*                                                                         *)
(* The main process serves the IPC requests one at a time in the order    *)
(* they were sent, and a reply or an onSettingsUpdated broadcast reaches   *)
(* the renderer in the order it was sent; serving a request and running   *)
(* its continuation is therefore one step.  The main process is not in    *)
(* the repository: saveSettings stores what it is given and broadcasts it.*)
(*                                                                         *)
(* A settings object is the user's preferences (temperature, thinking,    *)
(* TTS, connection: one abstract value) and the layout (left panel view   *)
(* chat and ModelManager visibility; the widths, heights and logs flag    *)
(* change nothing but the saved layout and are left out).                 *)
(***************************************************************************)
EXTENDS Naturals, Sequences

CONSTANTS
    Prefs,          \* values of the user's preferences
    DefaultPrefs,   \* createDefaultSettings()'s preferences
    NoSettings,     \* ChatWindow's appSettings before the first answer
    MaxActions,     \* user actions in one behaviour
    StoredLayouts   \* layouts the settings file may hold at start

ASSUME DefaultPrefs \in Prefs /\ MaxActions \in Nat

Views    == {"models", "settings"}
Layouts  == [view : Views, chat : BOOLEAN, mm : BOOLEAN]
Settings == [prefs : Prefs, layout : Layouts]

ASSUME StoredLayouts \subseteq Layouts

DefaultLayout == [view |-> "models", chat |-> TRUE, mm |-> TRUE]
Defaults      == [prefs |-> DefaultPrefs, layout |-> DefaultLayout]

Who == {"appLoad", "layoutGet", "layoutSave", "panelGet", "panelSave", "chatGet"}
Req == [who : Who, val : Settings, att : BOOLEAN]

VARIABLES
    store,         \* the settings file in the main process
    ipc,           \* requests sent to the main process, oldest first
    layout,        \* App's layout state
    layoutLoaded,  \* App's layoutLoaded
    timer,         \* App's debounced saveLayoutSettings is scheduled
    external,      \* App's externalContentUrl is set
    panel,         \* the mounted SettingsPanel's isLoading, isSaving, settings
    chatSettings,  \* the mounted ChatWindow's appSettings
    actions        \* user actions so far

vars == <<store, ipc, layout, layoutLoaded, timer, external, panel, chatSettings, actions>>

PanelOn(l)    == l.mm /\ l.view = "settings"
ChatOn(l, x)  == l.chat /\ ~x
PanelMounted  == PanelOn(layout)
ChatMounted   == ChatOn(layout, external)

TypeOK ==
    /\ store \in Settings
    /\ ipc \in Seq(Req)
    /\ layout \in Layouts /\ layoutLoaded \in BOOLEAN /\ timer \in BOOLEAN
    /\ external \in BOOLEAN
    /\ panel \in [loading : BOOLEAN, saving : BOOLEAN, draft : Settings]
    /\ chatSettings \in Settings \cup {NoSettings}
    /\ actions \in 0..MaxActions

Request(who, val) == [who |-> who, val |-> val, att |-> TRUE]

(* A freshly mounted SettingsPanel: default settings, loading. *)
FreshPanel == [loading |-> TRUE, saving |-> FALSE, draft |-> Defaults]

(* The window opens with the default layout; ChatWindow's mount effect   *)
(* (a child's, so it runs first) and App's layout load are in flight.    *)
Init ==
    /\ store \in [prefs : Prefs, layout : StoredLayouts]
    /\ layout = DefaultLayout
    /\ ipc = <<Request("chatGet", Defaults), Request("appLoad", Defaults)>>
    /\ layoutLoaded = FALSE /\ timer = FALSE /\ external = FALSE
    /\ panel = [FreshPanel EXCEPT !.loading = FALSE]
    /\ chatSettings = NoSettings
    /\ actions = 0

-----------------------------------------------------------------------------
(* Requests of an unmounted component are detached: their continuations  *)
(* find isMounted false, or set state of an unmounted instance.           *)
Detach(q, whos) ==
    [i \in 1..Len(q) |-> IF q[i].who \in whos THEN [q[i] EXCEPT !.att = FALSE]
                         ELSE q[i]]

(* The load requests of the components that mount when the layout becomes *)
(* new and external content becomes x: SettingsPanel's fetchSettings, then *)
(* ChatWindow's loadSettings.                                               *)
MountsNoPanelLoad(new, x) ==
    IF ChatOn(new, x) /\ ~ChatMounted THEN <<Request("chatGet", Defaults)>> ELSE <<>>

Mounts(new, x) ==
    (IF PanelOn(new) /\ ~PanelMounted THEN <<Request("panelGet", Defaults)>> ELSE <<>>)
    \o (IF ChatOn(new, x) /\ ~ChatMounted THEN <<Request("chatGet", Defaults)>> ELSE <<>>)

(* App's layout state becomes new and its external content x: SettingsPanel *)
(* and ChatWindow mount or unmount with them, each mount sending its load   *)
(* request; q is the queue so far.                                          *)
SetLayout(new, x, q) ==
    LET q1 == Detach(q, (IF PanelOn(new) THEN {} ELSE {"panelGet", "panelSave"})
                        \cup (IF ChatOn(new, x) THEN {} ELSE {"chatGet"}))
    IN  /\ layout' = new /\ external' = x
        /\ ipc' = q1 \o Mounts(new, x)
        /\ panel' = IF PanelOn(new) /\ ~PanelMounted THEN FreshPanel ELSE panel
        /\ chatSettings' = IF ~ChatOn(new, x) THEN NoSettings
                           ELSE IF ChatMounted THEN chatSettings ELSE NoSettings

SavedNoBroadcast(s) ==
    /\ store' = s
    /\ UNCHANGED chatSettings

(* The main process stores s and broadcasts onSettingsUpdated, which the  *)
(* mounted ChatWindow applies.                                             *)
Saved(s) ==
    /\ store' = s
    /\ chatSettings' = IF ChatMounted THEN s ELSE NoSettings

Head1 == Head(ipc)
Serving(who) == ipc /= <<>> /\ Head(ipc).who = who

-----------------------------------------------------------------------------
(* App's loadLayoutSettings: apply the stored layout, then layoutLoaded,   *)
(* which schedules the first debounced save.                               *)
ServeAppLoad ==
    /\ Serving("appLoad")
    /\ SetLayout(store.layout, external, Tail(ipc))
    /\ layoutLoaded' = TRUE /\ timer' = TRUE
    /\ UNCHANGED <<store, actions>>

(* The debounce timer fires saveLayoutSettings, whose closure holds the    *)
(* layout of the render that scheduled it: getSettings first.              *)
TimerFires ==
    /\ timer
    /\ timer' = FALSE
    /\ ipc' = Append(ipc, Request("layoutGet", [Defaults EXCEPT !.layout = layout]))
    /\ UNCHANGED <<store, layout, layoutLoaded, external, panel, chatSettings, actions>>

(* ... then saveSettings({...currentSettings, layout}). *)
ServeLayoutGet ==
    /\ Serving("layoutGet")
    /\ ipc' = Append(Tail(ipc), Request("layoutSave",
                                        [store EXCEPT !.layout = Head1.val.layout]))
    /\ UNCHANGED <<store, layout, layoutLoaded, timer, external, panel, chatSettings, actions>>

ServeLayoutSave ==
    /\ Serving("layoutSave")
    /\ ipc' = Tail(ipc)
    /\ Saved(Head1.val)
    /\ UNCHANGED <<layout, layoutLoaded, timer, external, panel, actions>>

(* SettingsPanel's fetchSettings resolves: if still mounted, the draft is  *)
(* the stored settings and loading ends.                                   *)
ServePanelGet ==
    /\ Serving("panelGet")
    /\ ipc' = Tail(ipc)
    /\ panel' = IF Head1.att THEN [panel EXCEPT !.draft = store, !.loading = FALSE]
                ELSE panel
    /\ UNCHANGED <<store, layout, layoutLoaded, timer, external, chatSettings, actions>>

(* handleSave's saveSettings resolves: the draft becomes what was saved and *)
(* isSaving ends, in the instance that is still mounted.                   *)
ServePanelSave ==
    /\ Serving("panelSave")
    /\ ipc' = Tail(ipc)
    /\ Saved(Head1.val)
    /\ panel' = IF Head1.att THEN [panel EXCEPT !.draft = Head1.val, !.saving = FALSE]
                ELSE panel
    /\ UNCHANGED <<layout, layoutLoaded, timer, external, actions>>

(* ChatWindow's loadSettings resolves. *)
ServeChatGet ==
    /\ Serving("chatGet")
    /\ ipc' = Tail(ipc)
    /\ chatSettings' = IF Head1.att THEN store ELSE chatSettings
    /\ UNCHANGED <<store, layout, layoutLoaded, timer, external, panel, actions>>

-----------------------------------------------------------------------------
(* Variant: no bound on user actions. *)
ActUnbounded == actions' = actions + 1

(* User actions. *)
Act == actions < MaxActions /\ actions' = actions + 1

(* The layout or the external content changes; a layout change restarts  *)
(* the debounce timer once the layout is loaded.                           *)
ChangeLayout(new, x) ==
    /\ Act /\ <<new, x>> /= <<layout, external>>
    /\ SetLayout(new, x, ipc)
    /\ timer' = (timer \/ (layoutLoaded /\ new /= layout))
    /\ UNCHANGED <<store, layoutLoaded>>

(* The view buttons are in the ModelManager's rail. *)
SetView(v) == layout.mm /\ ChangeLayout([layout EXCEPT !.view = v], external)

ToggleChat         == ChangeLayout([layout EXCEPT !.chat = ~layout.chat], external)
ToggleModelManager == ChangeLayout([layout EXCEPT !.mm = ~layout.mm], external)

(* open-external-content shows the page in the chat column. *)
OpenExternal == ChangeLayout([layout EXCEPT !.chat = TRUE], TRUE)

(* "Back to Chat". *)
BackToChat == ChatOn(layout, FALSE) /\ external /\ ChangeLayout(layout, FALSE)

(* The settings inputs render only after loading; editing stays possible  *)
(* while a save is in flight.                                              *)
EditPref(p) ==
    /\ Act /\ PanelMounted /\ ~panel.loading /\ panel.draft.prefs /= p
    /\ panel' = [panel EXCEPT !.draft.prefs = p]
    /\ UNCHANGED <<store, ipc, layout, layoutLoaded, timer, external, chatSettings>>

(* Reset to Defaults and Save are disabled while loading or saving. *)
ResetDefaults ==
    /\ Act /\ PanelMounted /\ ~panel.loading /\ ~panel.saving
    /\ panel' = [panel EXCEPT !.draft = Defaults]
    /\ UNCHANGED <<store, ipc, layout, layoutLoaded, timer, external, chatSettings>>

Save ==
    /\ Act /\ PanelMounted /\ ~panel.loading /\ ~panel.saving
    /\ panel' = [panel EXCEPT !.saving = TRUE]
    /\ ipc' = Append(ipc, Request("panelSave", panel.draft))
    /\ UNCHANGED <<store, layout, layoutLoaded, timer, external, chatSettings>>

-----------------------------------------------------------------------------
MainStep ==
    \/ ServeAppLoad \/ ServeLayoutGet \/ ServeLayoutSave
    \/ ServePanelGet \/ ServePanelSave \/ ServeChatGet

UserStep ==
    \/ \E v \in Views : SetView(v)
    \/ ToggleChat \/ ToggleModelManager \/ OpenExternal \/ BackToChat
    \/ \E p \in Prefs : EditPref(p)
    \/ ResetDefaults \/ Save

Next == MainStep \/ TimerFires \/ UserStep

(* The main process serves every request and timers fire; the user may stop. *)
Fairness == WF_vars(MainStep) /\ WF_vars(TimerFires)

Spec == Init /\ [][Next]_vars /\ Fairness

-----------------------------------------------------------------------------
(* ChatWindow applies onSettingsUpdated broadcasts and its own load, so   *)
(* once the requests drain, a mounted ChatWindow uses the stored settings, *)
(* whatever the order of panel saves, layout saves and chat remounts.     *)
ChatSettingsConverge == <>[](ChatMounted => chatSettings = store)

(* A mounted SettingsPanel eventually leaves "Loading settings..." and    *)
(* re-enables Save, even when it is unmounted and remounted while its load *)
(* or its save is still in flight.                                          *)
PanelEventuallyReady ==
    PanelMounted ~> (~PanelMounted \/ (~panel.loading /\ ~panel.saving))

=============================================================================
