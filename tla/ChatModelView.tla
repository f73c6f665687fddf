--------------------------- MODULE ChatModelView ----------------------------
(***************************************************************************)
(* ChatWindow's view of the server's loaded model                          *)
(* (src/src/app/src/renderer/ChatWindow.tsx), and the three writers that   *)
(* move it: the 5 s /health poll (fetchLoadedModel), the Model Manager's   *)
(* load and unload handlers through the modelLoadStart, modelLoadEnd and   *)
(* modelUnload window events (ModelManager.tsx), and the chat's own send   *)
(* (LLMChatPanel.tsx), whose first chunk sets currentLoadedModel and may   *)
(* dispatch modelLoadEnd.                                                  *)
(*                                                                         *)
(* The model follows one mount of ChatWindow.  App mounts it only while   *)
(* the chat is shown without external content (App.tsx:294-316); a       *)
(* remount starts over (currentLoadedModel null, activeModelType from the *)
(* selected model, a fresh phase, a new mount fetch), which Init covers   *)
(* for any server state and selection.  Not covered: handlers of an       *)
(* earlier mount still running across the remount.  Within the mount the  *)
(* mount effect runs once: fetchLoadedModel and the event handlers close  *)
(* over the first render's userHasSelectedModel (mountSel).               *)
(* selectedModel and userHasSelectedModel live in the models context       *)
(* (hooks/useModels, not in the repository), whose setters are stable.     *)
(*                                                                         *)
(* The server keeps one engine per modality (spec 4.7); /health's          *)
(* model_loaded is one of the loaded models, or absent.  dispatchEvent     *)
(* runs the listeners synchronously, so a dispatch and its listener are    *)
(* one step.                                                               *)
(***************************************************************************)
EXTENDS Naturals

CONSTANTS
    Models,       \* model names
    Modality,     \* Modality[m]: the panel type modelType derives for m
    NoModel,      \* null: no model
    MaxFetches,   \* /health fetches of the chat in flight
    MaxFailures,  \* failed /health fetches in one behaviour
    MaxClicks     \* user actions in one behaviour

Kinds == {"llm", "embedding", "reranking", "transcription", "image", "speech"}

ASSUME /\ Modality \in [Models -> Kinds] /\ NoModel \notin Models
       /\ MaxFetches \in Nat \ {0} /\ MaxFailures \in Nat /\ MaxClicks \in Nat

Slots == 1..MaxFetches
Maybe == Models \cup {NoModel}

VARIABLES
    served,      \* server: served[k], the model of modality k's engine
    current,     \* ChatWindow's currentLoadedModel
    selected,    \* context's selectedModel
    userSel,     \* context's userHasSelectedModel
    mountSel,    \* userHasSelectedModel as the mount effect's closure saw it
    activeType,  \* ChatWindow's activeModelType: the panel it renders
    fetch,       \* fetch[i]: a fetchLoadedModel in flight, and its answer
    mm,          \* the Model Manager's load or unload in progress
    chat,        \* the chat panel's sendMessage in progress
    failures,    \* failed /health fetches so far
    clicks       \* user actions so far

vars == <<served, current, selected, userSel, mountSel, activeType, fetch,
          mm, chat, failures, clicks>>

FreeFetch == [pc |-> "free", ans |-> NoModel]

TypeOK ==
    /\ served \in [Kinds -> Maybe] /\ \A k \in Kinds : served[k] \in {NoModel} \cup {m \in Models : Modality[m] = k}
    /\ current \in Maybe /\ selected \in Models
    /\ userSel \in BOOLEAN /\ mountSel \in BOOLEAN /\ activeType \in Kinds
    /\ fetch \in [Slots -> [pc : {"free", "fetch", "served"}, ans : Maybe]]
    /\ mm \in [pc : {"idle", "loading", "ended", "unloaded"}, m : Models]
    /\ chat \in [pc : {"idle", "preflight", "stream", "streaming"}, m : Models, isNew : BOOLEAN]
    /\ failures \in 0..MaxFailures /\ clicks \in 0..MaxClicks

-----------------------------------------------------------------------------
(* Server side (spec 4.7): loading m replaces its modality's engine.      *)
ServerLoad(m) == [served EXCEPT ![Modality[m]] = m]
ServerUnload(m) == IF served[Modality[m]] = m THEN [served EXCEPT ![Modality[m]] = NoModel] ELSE served
Loaded == {served[k] : k \in Kinds} \ {NoModel}

(* What /health may answer as model_loaded. *)
HealthAnswers == IF Loaded = {} THEN {NoModel} ELSE Loaded

(* modelType: the labels and recipe of m's modelsData entry decide the    *)
(* panel; they are abstracted to Modality.                                 *)
ModelType(m) == Modality[m]

busy == chat.pc /= "idle"

(* Variant: the panel type follows the selection even while inference runs. *)
LockPanelTypeUnlocked == activeType' = ModelType(selected')

(* The effect on [modelType, inference.isBusy] after every render: the    *)
(* panel type follows the selected model only while nothing is inferring. *)
LockPanelType ==
    activeType' = IF chat'.pc /= "idle" THEN activeType ELSE ModelType(selected')

Init ==
    /\ served \in {f \in [Kinds -> Maybe] : \A k \in Kinds : f[k] = NoModel \/ Modality[f[k]] = k}
    /\ current = NoModel
    /\ selected \in Models
    /\ userSel \in BOOLEAN /\ mountSel = userSel
    /\ activeType = ModelType(selected)
    /\ fetch = [i \in Slots |-> IF i = 1 THEN [FreeFetch EXCEPT !.pc = "fetch"] ELSE FreeFetch]
    /\ mm = [pc |-> "idle", m |-> selected]
    /\ chat = [pc |-> "idle", m |-> selected, isNew |-> FALSE]
    /\ failures = 0 /\ clicks = 0

-----------------------------------------------------------------------------
(* The three window-event listeners of the mount effect. *)
OnModelLoadStart(m) == selected' = m
OnModelLoadEnd(m) == current' = m /\ selected' = m /\ userSel' = FALSE
OnModelUnload == current' = NoModel

(* The 5 s interval calls fetchLoadedModel. *)
Poll ==
    /\ \E i \in Slots : fetch[i].pc = "free" /\ fetch' = [fetch EXCEPT ![i].pc = "fetch"]
    /\ UNCHANGED <<served, current, selected, userSel, mountSel, activeType, mm, chat, failures, clicks>>

(* serverFetch('/health') is answered from the server's state then, or    *)
(* fails; the catch only logs.                                             *)
FetchServed(i) ==
    /\ fetch[i].pc = "fetch"
    /\ \/ \E a \in HealthAnswers : fetch' = [fetch EXCEPT ![i] = [pc |-> "served", ans |-> a]]
          /\ UNCHANGED failures
       \/ failures < MaxFailures /\ failures' = failures + 1 /\ fetch' = [fetch EXCEPT ![i] = FreeFetch]
    /\ UNCHANGED <<served, current, selected, userSel, mountSel, activeType, mm, chat, clicks>>

(* Variant: an answer without model_loaded leaves currentLoadedModel. *)
FetchAppliedNoClear(i) ==
    /\ fetch[i].pc = "served"
    /\ LET a == fetch[i].ans IN
       /\ current' = IF a /= NoModel THEN a ELSE current
       /\ selected' = IF a /= NoModel /\ ~mountSel THEN a ELSE selected
    /\ fetch' = [fetch EXCEPT ![i] = FreeFetch]
    /\ UNCHANGED <<served, userSel, mountSel, mm, chat, failures, clicks>>
    /\ LockPanelType

(* The answer arrives: model_loaded becomes currentLoadedModel and, unless *)
(* the closure's userHasSelectedModel is set, the selected model; without *)
(* model_loaded, currentLoadedModel is cleared.                            *)
FetchApplied(i) ==
    /\ fetch[i].pc = "served"
    /\ LET a == fetch[i].ans IN
       /\ current' = a
       /\ selected' = IF a /= NoModel /\ ~mountSel THEN a ELSE selected
    /\ fetch' = [fetch EXCEPT ![i] = FreeFetch]
    /\ UNCHANGED <<served, userSel, mountSel, mm, chat, failures, clicks>>
    /\ LockPanelType

(* Variant: no bound on user actions. *)
SelectModelUnbounded(m) ==
    /\ ~busy
    /\ userSel' = TRUE /\ selected' = m /\ clicks' = clicks + 1
    /\ UNCHANGED <<served, current, mountSel, fetch, mm, chat, failures>>
    /\ LockPanelType

(* ModelSelector's onChange; the selector is disabled while busy. *)
SelectModel(m) ==
    /\ ~busy /\ clicks < MaxClicks
    /\ userSel' = TRUE /\ selected' = m /\ clicks' = clicks + 1
    /\ UNCHANGED <<served, current, mountSel, fetch, mm, chat, failures>>
    /\ LockPanelType

-----------------------------------------------------------------------------
(* handleLoadModel: mark loading and dispatch modelLoadStart. *)
MMLoad(m) ==
    /\ mm.pc = "idle" /\ clicks < MaxClicks
    /\ mm' = [pc |-> "loading", m |-> m] /\ clicks' = clicks + 1
    /\ OnModelLoadStart(m)
    /\ UNCHANGED <<served, current, userSel, mountSel, fetch, chat, failures>>
    /\ LockPanelType

(* await ensureModelReady: the server loads m, or the load fails. *)
MMEnsureReady ==
    /\ mm.pc = "loading"
    /\ \E ok \in BOOLEAN : served' = IF ok THEN ServerLoad(mm.m) ELSE served
    /\ mm' = [mm EXCEPT !.pc = "ended"]
    /\ UNCHANGED <<current, selected, userSel, mountSel, activeType, fetch, chat, failures, clicks>>

(* Success (after its own /health refresh) and the catch both dispatch    *)
(* modelLoadEnd with the model's name.                                     *)
MMLoadEnd ==
    /\ mm.pc = "ended"
    /\ OnModelLoadEnd(mm.m)
    /\ mm' = [mm EXCEPT !.pc = "idle"]
    /\ UNCHANGED <<served, mountSel, fetch, chat, failures, clicks>>
    /\ LockPanelType

(* handleUnloadModel: POST /unload; a model that is not loaded is an      *)
(* error response, caught without an event.                                *)
MMUnload(m) ==
    /\ mm.pc = "idle" /\ clicks < MaxClicks /\ clicks' = clicks + 1
    /\ served' = ServerUnload(m)
    /\ mm' = [pc |-> IF m \in Loaded THEN "unloaded" ELSE "idle", m |-> m]
    /\ UNCHANGED <<current, selected, userSel, mountSel, activeType, fetch, chat, failures>>

(* After its /health refresh, dispatch modelUnload. *)
MMUnloadEnd ==
    /\ mm.pc = "unloaded"
    /\ OnModelUnload
    /\ mm' = [mm EXCEPT !.pc = "idle"]
    /\ UNCHANGED <<served, selected, userSel, mountSel, activeType, fetch, chat, failures, clicks>>

-----------------------------------------------------------------------------
(* sendMessage from the LLM panel: isNewModelLoad is computed from the    *)
(* values of the render that made the click.                               *)
ChatSend ==
    /\ ~busy /\ activeType = "llm" /\ clicks < MaxClicks
    /\ chat' = [pc |-> "preflight", m |-> selected, isNew |-> current /= selected]
    /\ clicks' = clicks + 1
    /\ UNCHANGED <<served, current, selected, userSel, mountSel, fetch, mm, failures>>
    /\ LockPanelType

(* runPreFlight: ensureModelReady loads the model, or fails and the send  *)
(* returns with the phase reset.                                           *)
ChatPreflight ==
    /\ chat.pc = "preflight"
    /\ \E ok \in BOOLEAN :
         /\ served' = IF ok THEN ServerLoad(chat.m) ELSE served
         /\ chat' = IF ok THEN [chat EXCEPT !.pc = "stream"] ELSE [chat EXCEPT !.pc = "idle"]
    /\ UNCHANGED <<current, selected, userSel, mountSel, fetch, mm, failures, clicks>>
    /\ LockPanelType

(* The first content chunk: the server served the completion with the     *)
(* model (loading it again if it was unloaded meanwhile); the panel sets   *)
(* currentLoadedModel and, for a new model, dispatches modelLoadEnd.       *)
ChatFirstChunk ==
    /\ chat.pc = "stream"
    /\ served' = ServerLoad(chat.m)
    /\ IF chat.isNew THEN OnModelLoadEnd(chat.m)
       ELSE current' = chat.m /\ UNCHANGED <<selected, userSel>>
    /\ chat' = [chat EXCEPT !.pc = "streaming"]
    /\ UNCHANGED <<mountSel, fetch, mm, failures, clicks>>
    /\ LockPanelType

(* The stream ends, with or without content; finally resets the phase.    *)
ChatDone ==
    /\ chat.pc \in {"stream", "streaming"}
    /\ chat' = [chat EXCEPT !.pc = "idle"]
    /\ UNCHANGED <<served, current, selected, userSel, mountSel, fetch, mm, failures, clicks>>
    /\ LockPanelType

-----------------------------------------------------------------------------
UserStep ==
    \/ \E m \in Models : SelectModel(m) \/ MMLoad(m) \/ MMUnload(m)
    \/ ChatSend

Next ==
    \/ UserStep
    \/ Poll
    \/ \E i \in Slots : FetchServed(i) \/ FetchApplied(i)
    \/ MMEnsureReady \/ MMLoadEnd \/ MMUnloadEnd
    \/ ChatPreflight \/ ChatFirstChunk \/ ChatDone

(* The interval keeps firing while the window is mounted; requests are    *)
(* answered and handlers resume.  The user is never forced to act.         *)
Fairness ==
    /\ WF_vars(Poll)
    /\ \A i \in Slots : WF_vars(FetchServed(i)) /\ WF_vars(FetchApplied(i))
    /\ WF_vars(MMEnsureReady) /\ WF_vars(MMLoadEnd) /\ WF_vars(MMUnloadEnd)
    /\ WF_vars(ChatPreflight) /\ WF_vars(ChatDone)

Spec == Init /\ [][Next]_vars /\ Fairness

-----------------------------------------------------------------------------
(* Once the user, the Model Manager and the chat stop, the chat's         *)
(* currentLoadedModel is eventually and forever a model the server has    *)
(* loaded, or null when none is: the 5 s poll repairs what out-of-order   *)
(* /health answers, a failed load's modelLoadEnd and a modelUnload for    *)
(* one of several engines leave behind.                                   *)
CurrentSettles == <>[](current \in HealthAnswers)

(* The panel is not swapped while the chat infers: a Model Manager load   *)
(* of another modality's model, whose modelLoadStart changes the selected *)
(* model mid-send, leaves the LLM panel rendered until the send ends      *)
(* (ChatWindow.tsx:53-61).  Not checked by a run: it restates that guard. *)
ChatPanelKept == busy => activeType = "llm"

(* A /health answer never replaces a model the user picked in the         *)
(* dropdown (the !userHasSelectedModel test of fetchLoadedModel).  Not    *)
(* checked by a run: the poll's closure reads the mount-time flag.        *)
UserChoiceKept == [][\A i \in Slots : FetchApplied(i) /\ userSel => selected' = selected]_vars

(* The chat only ever switches currentLoadedModel to a model the server   *)
(* has loaded.  Not checked by a run: a failed Model Manager load still   *)
(* dispatches modelLoadEnd with its name.                                  *)
CurrentShowsLoaded == [][current' /= current /\ current' /= NoModel => current' \in Loaded']_vars

=============================================================================
