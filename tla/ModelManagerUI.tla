--------------------------- MODULE ModelManagerUI ---------------------------
(***************************************************************************)
(* The Model Manager panel (src/src/app/src/renderer/ModelManager.tsx):    *)
(* what it shows about each model and the handlers behind its buttons.     *)
(*                                                                         *)
(* The panel keeps two sets: loadedModels, replaced by every answer of     *)
(* fetchCurrentLoadedModel (/health), and loadingModels, the models it     *)
(* shows as busy.  A row's buttons are chosen from modelsData's downloaded *)
(* flag and these two sets.  The handlers (download, resume/retry, load,   *)
(* load with options, unload, delete) each await one or more requests and *)
(* then refetch /health; a 5 s interval and the modelLoadEnd listener      *)
(* refetch too, so several /health answers can be in flight and arrive in  *)
(* any order.                                                              *)
(*                                                                         *)
(* An invocation (or a fetch in flight) occupies one of MaxOps slots;      *)
(* ensureModelReady and pullModel are each one step that settles.          *)
(***************************************************************************)
EXTENDS Naturals, FiniteSets

CONSTANTS
    Models,      \* model names
    MaxOps,      \* handler invocations and /health fetches in flight
    MaxClicks,   \* user actions in one behaviour
    MaxFailures  \* /health fetches that fail in one behaviour

ASSUME MaxOps \in Nat \ {0} /\ MaxClicks \in Nat /\ MaxFailures \in Nat

Slots == 1..MaxOps
Kinds == {"download", "load", "unload", "delete", "poll"}
Pcs   == {"free", "sysinfo", "pull", "ensure", "unload", "confirm", "delete",
          "fetch", "served"}

VARIABLES
    downloaded,     \* server: downloaded[m]
    loaded,         \* server: the models in all_models_loaded
    modelsDl,       \* modelsData[m].downloaded as last fetched
    modelsPending,  \* a modelsUpdated event the models context has not handled
    loadedModels,   \* the panel's loadedModels
    loadingModels,  \* the panel's loadingModels
    resumable,      \* Download Manager entries that offer resume or retry
    ops,            \* ops[i]: the invocation or fetch in slot i
    clicks,         \* user actions so far
    failures        \* failed /health fetches so far

vars == <<downloaded, loaded, modelsDl, modelsPending, loadedModels,
          loadingModels, resumable, ops, clicks, failures>>
server == <<downloaded, loaded>>
view == <<modelsDl, modelsPending, loadedModels, loadingModels>>

Free == [pc |-> "free", kind |-> "poll", m |-> CHOOSE m \in Models : TRUE,
         opts |-> FALSE, ok |-> TRUE, snap |-> {}]
Op == [pc : Pcs, kind : Kinds, m : Models, opts : BOOLEAN,
       ok : BOOLEAN, snap : SUBSET Models]

TypeOK ==
    /\ downloaded \in [Models -> BOOLEAN] /\ loaded \subseteq Models
    /\ modelsDl \in [Models -> BOOLEAN] /\ modelsPending \in BOOLEAN
    /\ loadedModels \subseteq Models /\ loadingModels \subseteq Models
    /\ resumable \subseteq Models
    /\ ops \in [Slots -> Op]
    /\ clicks \in 0..MaxClicks /\ failures \in 0..MaxFailures

(* The panel mounts with empty sets over whatever models are on disk; the  *)
(* mount effect's first fetch is in flight.                                *)
Init ==
    /\ downloaded \in [Models -> BOOLEAN]
    /\ loaded = {}
    /\ modelsDl = downloaded
    /\ modelsPending = FALSE
    /\ loadedModels = {} /\ loadingModels = {}
    /\ resumable = {}
    /\ ops = [i \in Slots |-> IF i = 1 THEN [Free EXCEPT !.pc = "fetch"] ELSE Free]
    /\ clicks = 0 /\ failures = 0

-----------------------------------------------------------------------------
(* The row's status flags and which buttons it renders. *)
IsDownloaded(m) == modelsDl[m]
IsLoaded(m)     == m \in loadedModels
IsLoading(m)    == m \in loadingModels

ShowsDownload(m) == ~IsDownloaded(m)
ShowsLoad(m)     == IsDownloaded(m) /\ ~IsLoaded(m) /\ ~IsLoading(m)
ShowsOptions(m)  == ShowsLoad(m) \/ IsLoaded(m)
ShowsDelete(m)   == ShowsLoad(m) \/ IsLoaded(m)
ShowsUnload(m)   == IsLoaded(m)

Without(m) == loadingModels \ {m}

(* Variant: no bound on user actions. *)
StartUnbounded(kind, m, opts, pc) ==
    /\ \E i \in Slots :
         /\ ops[i].pc = "free"
         /\ ops' = [ops EXCEPT ![i] = [pc |-> pc, kind |-> kind, m |-> m,
                                       opts |-> opts, ok |-> TRUE, snap |-> {}]]
    /\ clicks' = clicks + 1

(* A user action starts handler `kind` for m in a free slot at pc. *)
Start(kind, m, opts, pc) ==
    /\ clicks < MaxClicks
    /\ \E i \in Slots :
         /\ ops[i].pc = "free"
         /\ ops' = [ops EXCEPT ![i] = [pc |-> pc, kind |-> kind, m |-> m,
                                       opts |-> opts, ok |-> TRUE, snap |-> {}]]
    /\ clicks' = clicks + 1

Goto(i, pc) == ops' = [ops EXCEPT ![i].pc = pc]

(* The modelLoadEnd listener: stop showing m as loading and refetch; the   *)
(* refetch takes over the slot of the invocation that dispatched it.       *)
LoadEndListener(i, m) ==
    /\ loadingModels' = Without(m)
    /\ ops' = [ops EXCEPT ![i] = [Free EXCEPT !.pc = "fetch"]]

-----------------------------------------------------------------------------
(* fetchCurrentLoadedModel: the server answers from its state when it      *)
(* serves the request (or the fetch fails) ...                             *)
FetchServed(i) ==
    /\ ops[i].pc = "fetch"
    /\ \/ ops' = [ops EXCEPT ![i].pc = "served", ![i].ok = TRUE, ![i].snap = loaded]
          /\ UNCHANGED failures
       \/ /\ failures < MaxFailures /\ failures' = failures + 1
          /\ ops' = [ops EXCEPT ![i].pc = "served", ![i].ok = FALSE]
    /\ UNCHANGED <<server, view, resumable, clicks>>

(* ... and the answer is applied when it arrives: loadedModels replaced,   *)
(* the loaded names dropped from loadingModels; on failure loadedModels is *)
(* emptied.  Then the awaiting handler goes on: download's finally and     *)
(* load's modelLoadEnd listener also drop m (the listener refetches, and   *)
(* modelsUpdated is dispatched); unload dispatches modelUnload; delete and *)
(* polls end.                                                              *)
FetchApplied(i) ==
    /\ ops[i].pc = "served"
    /\ LET o     == ops[i]
           clear == IF o.kind \in {"download", "load"} THEN {o.m} ELSE {}
       IN  /\ loadedModels' = IF o.ok THEN o.snap ELSE {}
           /\ loadingModels' = (IF o.ok THEN loadingModels \ o.snap
                                ELSE loadingModels) \ clear
           /\ IF o.kind = "load"
              THEN ops' = [ops EXCEPT ![i] = [Free EXCEPT !.pc = "fetch"]] /\ modelsPending' = TRUE
              ELSE ops' = [ops EXCEPT ![i] = Free] /\ UNCHANGED modelsPending
    /\ UNCHANGED <<server, modelsDl, resumable, clicks, failures>>

(* The 5 s interval starts a fetch. *)
Poll ==
    /\ \E i \in Slots : ops[i].pc = "free" /\ ops' = [ops EXCEPT ![i] = [Free EXCEPT !.pc = "fetch"]]
    /\ UNCHANGED <<server, view, resumable, clicks, failures>>

(* The models context handles modelsUpdated by refetching /models. *)
RefreshModels ==
    /\ modelsPending
    /\ modelsDl' = downloaded /\ modelsPending' = FALSE
    /\ UNCHANGED <<server, loadedModels, loadingModels, resumable, ops, clicks, failures>>

-----------------------------------------------------------------------------
(* handleDownloadModel: the download button, or a Download Manager resume  *)
(* or retry.  It first awaits ensureSystemInfoLoaded.                      *)
DownloadClick(m) ==
    /\ ShowsDownload(m)
    /\ Start("download", m, FALSE, "sysinfo")
    /\ UNCHANGED <<server, view, resumable, failures>>

DownloadResume(m) ==
    /\ m \in resumable
    /\ resumable' = resumable \ {m}
    /\ Start("download", m, FALSE, "sysinfo")
    /\ UNCHANGED <<server, view, failures>>

SystemInfoLoaded(i) ==
    /\ ops[i].pc = "sysinfo"
    /\ loadingModels' = loadingModels \cup {ops[i].m}
    /\ Goto(i, "pull")
    /\ UNCHANGED <<server, modelsDl, modelsPending, loadedModels, resumable, clicks, failures>>

(* pullModel settles: complete (modelsUpdated, then refetch /health), or   *)
(* paused/cancelled/failed (the entry offers resume or retry; the finally  *)
(* clears the flag).                                                       *)
PullSettles(i) ==
    /\ ops[i].pc = "pull"
    /\ LET m == ops[i].m IN
       \/ /\ downloaded' = [downloaded EXCEPT ![m] = TRUE]
          /\ modelsPending' = TRUE
          /\ Goto(i, "fetch")
          /\ UNCHANGED <<loadingModels, resumable>>
       \/ /\ resumable' = resumable \cup {m}
          /\ loadingModels' = Without(m)
          /\ ops' = [ops EXCEPT ![i] = Free]
          /\ UNCHANGED <<downloaded, modelsPending>>
    /\ UNCHANGED <<loaded, modelsDl, loadedModels, clicks, failures>>

(* handleLoadModel: Load, or Load with options (shown for a loaded model   *)
(* too).  loadingModels gets m and modelLoadStart is dispatched (its       *)
(* listener adds m again).                                                 *)
LoadClick(m, opts) ==
    /\ IF opts THEN ShowsOptions(m) ELSE ShowsLoad(m)
    /\ loadingModels' = loadingModels \cup {m}
    /\ Start("load", m, opts, "ensure")
    /\ UNCHANGED <<server, modelsDl, modelsPending, loadedModels, resumable, failures>>

(* Variant: the catch neither clears the flag nor dispatches modelLoadEnd. *)
EnsureSettlesNoCleanup(i) ==
    /\ ops[i].pc = "ensure"
    /\ LET m == ops[i].m IN
       \/ /\ downloaded' = [downloaded EXCEPT ![m] = TRUE]
          /\ loaded' = loaded \cup {m}
          /\ Goto(i, "fetch")
       \/ /\ ops' = [ops EXCEPT ![i] = Free]
          /\ UNCHANGED server
    /\ UNCHANGED <<loadingModels, modelsDl, modelsPending, loadedModels, resumable, clicks, failures>>

(* ensureModelReady settles: loaded (then refetch /health), or an error    *)
(* whose catch clears the flag and dispatches modelLoadEnd.                *)
EnsureSettles(i) ==
    /\ ops[i].pc = "ensure"
    /\ LET m == ops[i].m IN
       \/ /\ downloaded' = [downloaded EXCEPT ![m] = TRUE]
          /\ loaded' = loaded \cup {m}
          /\ Goto(i, "fetch")
          /\ UNCHANGED loadingModels
       \/ /\ LoadEndListener(i, m)
          /\ UNCHANGED server
    /\ UNCHANGED <<modelsDl, modelsPending, loadedModels, resumable, clicks, failures>>

(* handleUnloadModel: POST /unload, then refetch /health. *)
UnloadClick(m) ==
    /\ ShowsUnload(m)
    /\ Start("unload", m, FALSE, "unload")
    /\ UNCHANGED <<server, view, resumable, failures>>

UnloadResponds(i) ==
    /\ ops[i].pc = "unload"
    /\ IF ops[i].m \in loaded
       THEN loaded' = loaded \ {ops[i].m} /\ Goto(i, "fetch")
       ELSE ops' = [ops EXCEPT ![i] = Free] /\ UNCHANGED loaded
    /\ UNCHANGED <<downloaded, view, resumable, clicks, failures>>

(* handleDeleteModel: await the confirm dialog, then deleteModel           *)
(* (modelsUpdated) and refetch /health.                                    *)
DeleteClick(m) ==
    /\ ShowsDelete(m)
    /\ Start("delete", m, FALSE, "confirm")
    /\ UNCHANGED <<server, view, resumable, failures>>

Confirm(i) ==
    /\ ops[i].pc = "confirm"
    /\ \/ Goto(i, "delete")
       \/ ops' = [ops EXCEPT ![i] = Free]
    /\ UNCHANGED <<server, view, resumable, clicks, failures>>

DeleteResponds(i) ==
    /\ ops[i].pc = "delete"
    /\ LET m == ops[i].m IN
       IF downloaded[ops[i].m]
       THEN /\ downloaded' = [downloaded EXCEPT ![m] = FALSE]
            /\ loaded' = loaded \ {m}
            /\ modelsPending' = TRUE
            /\ Goto(i, "fetch")
       ELSE ops' = [ops EXCEPT ![i] = Free] /\ UNCHANGED <<server, modelsPending>>
    /\ UNCHANGED <<modelsDl, loadedModels, loadingModels, resumable, clicks, failures>>

-----------------------------------------------------------------------------
(* The confirm dialog is modal: no other button is reachable while it is   *)
(* open.                                                                   *)
UserStep ==
    /\ \A i \in Slots : ops[i].pc /= "confirm"
    /\ \E m \in Models :
           \/ DownloadClick(m) \/ DownloadResume(m)
           \/ \E opts \in BOOLEAN : LoadClick(m, opts)
           \/ UnloadClick(m) \/ DeleteClick(m)

(* Everything the event loop and the server do once a request is out. *)
SystemStep(i) ==
    \/ FetchServed(i) \/ FetchApplied(i) \/ SystemInfoLoaded(i)
    \/ PullSettles(i) \/ EnsureSettles(i) \/ UnloadResponds(i) \/ DeleteResponds(i)

Next ==
    \/ UserStep
    \/ \E i \in Slots : SystemStep(i) \/ Confirm(i)
    \/ Poll
    \/ RefreshModels

(* Requests settle and the event loop runs their continuations; the        *)
(* interval keeps firing and modelsUpdated is handled.  The user, the      *)
(* confirm dialog included, is not fair.                                   *)
Fairness ==
    /\ \A i \in Slots : WF_vars(SystemStep(i))
    /\ WF_vars(Poll) /\ WF_vars(RefreshModels)

Spec == Init /\ [][Next]_vars /\ Fairness

-----------------------------------------------------------------------------
(* Properties. *)

(* Once the user stops, the panel comes to show the server's truth for     *)
(* good: loadedModels equals the loaded models and no model is shown as    *)
(* loading.  Every handler path must clear the flag it set (download's     *)
(* finally, load's catch and modelLoadEnd listener, the /health answers),  *)
(* and /health answers arriving out of order must be overtaken by the      *)
(* interval's later ones.                                                  *)
ViewConverges == <>[](loadedModels = loaded /\ loadingModels = {})

=============================================================================
