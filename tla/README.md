# TLA+ models of Lemonade's backend install, recipes cache, version logic, pre-flight, Model Manager and settings

This directory holds TLA+ models of the parts of Lemonade that install,
uninstall and track inference backends. Lemonade is a local LLM server: a C++
server and an Electron/React client. Each module is translated from the code
under `src/`. Where the code is not in this repository (the server's HTTP
routes, the SSE writer, `SystemInfo`), it is modelled from `spec.md`, and
PROJECT.json marks those definitions `spec_modelled`. PROJECT.json maps every
definition to the source lines it models.

## The system: inventory

| Part | Source | State | Operations | Interacts with |
|---|---|---|---|---|
| Streaming install/pull client | `src/unnamed/part_000` (`installBackend`, `pullModel`) | abort controller, `isPaused`/`isCancelled`/`downloadCompleted`, SSE parser state (`currentEventType`), Download Manager entry | POST with `stream:true`, read loop, inner catch, outer catch, pause/cancel listeners | server `/install` and `/pull` SSE handlers, Download Manager UI, `backendsUpdated`/`modelsUpdated` listeners |
| BackendManager | `src/src/cpp/server/backend_manager.cpp` 1-273 | install directories on disk, `cached_recipes_` under `cache_mutex_` | `install_backend`, `uninstall_backend` (5 `remove_all` attempts), `set_recipes_cache`, `update_recipes_cache_entry` | HTTP handler threads, `/system-info` |
| Version | `backend_manager.cpp` 274-372 (`version_utils.cpp`) | none (pure) | `parse`, `>=`, `==`, `to_string` | the installed-version check of the status computation |
| Pre-flight | `part_000` (`ensureBackendForRecipe`, `ensureModelReady`) | none of its own | install the backend, pull the model, `/load`, with one re-pull and retry on `model_invalidated` | streaming client, server |
| Inference phase | `src/unnamed/part_008` (`useInferenceState`) | `phaseRef`: idle, pre_flight, inferring | `runPreFlight` (re-entry guard), `reset` | chat, TTS, transcription and other panels |
| SystemContext | `src/unnamed/part_006`, `part_007` | `systemInfo`, `hasLoaded`, `isLoading` | `refresh`, `ensureSystemInfoLoaded`, `backendsUpdated` listener | Backend Manager, pre-flight |
| UI handlers | `BackendManager.tsx`, `ModelManager.tsx` | per-item busy flags | install, uninstall, download, resume, retry, load, unload, delete | streaming client, pre-flight |
| Engine servers | `sd_server.cpp`, `ryzenaiserver.cpp`, `part_012`, `part_013` | child process handle, `port_` | `load`, `unload` | BackendManager (`install_backend` on every RyzenAI load) |
| Chat window | `ChatWindow.tsx`, `ModelSelector.tsx` | `currentLoadedModel`, `activeModelType`; the context's `selectedModel`, `userHasSelectedModel` | 5 s `/health` poll, `modelLoadStart`/`modelLoadEnd`/`modelUnload` listeners, panel-type lock, dropdown | Model Manager and chat panel through window events, server `/health` |
| Settings persistence | `App.tsx` (layout load and debounced save), `SettingsPanel.tsx`, `ChatWindow.tsx` (settings subscription) | App's layout, `layoutLoaded`, the save timer; the panel's draft, `isLoading`, `isSaving`; the chat's `appSettings` | layout toggles, view switch, external content, panel load, edit, reset, save, `onSettingsUpdated` | the main process's settings file over IPC |
| Presentational UI, marketplace, status bar, JSON utils | the rest | local UI state | rendering, polling | nothing another component reads |

The behaviours that make these parts hard to get right:

- **Streaming client.** A reset, a truncation or a user abort can arrive at any
  await. Malformed frames must be skipped. The body can end without a
  terminal frame. The call has two catch blocks that must agree with each
  other.
- **BackendManager.** The mutex protects only the cache, so a request's disk
  I/O and its cache update are two separate steps. `remove_all` can fail
  part-way. The cache stays empty until the first `/system-info`, and
  updates that arrive before then are dropped.
- **Version.** Edge cases: an empty parse, `stoi` overflow, and zero padding.
- **Pre-flight.** Callers outside the phase guard can run it concurrently.
  Pause and cancel are keyed by display name.

## Modules

### `ProgressStream`: the `installBackend` client (part_000:56-202)

- **State.**
  - `pc` is the await the async function is at: fetch, response text, read
    loop, or done.
  - The client's flags and the Download Manager entry `tracker`.
  - `wire`: the SSE lines the server has written that the client has not read
    yet.
  - `conn`: whether the connection is open, ended (EOF) or reset.
- **Client actions.**
  - `FetchResolves` has three outcomes: a streaming 200, a non-ok status, or
    a network error.
  - `AbortBeforeBody`, `ErrorBodyRead`.
  - `ReadLine` handles one line. Its `HandleLine` is the parser's branches:
    an event line, a blank line, malformed data or progress data, complete,
    and error.
  - `ReadEOF`, `ReadFails`.
  - `StreamCatch` and `OuterCatch` are the two catch blocks. `AfterLoop` is
    the code that runs after the loop.
- **User actions.** `UserPause` and `UserCancel` are the listeners: they set
  a flag and abort. They act on any event with the entry's name until the
  finally removes them, also after `completeDownload`, so `CompleteWins`
  covers a pause or cancel that arrives after the complete frame.
  `Transfer`'s `Stop` has the same guard.
- **Server actions** (spec-modelled). `SendProgress` (at most `MaxProgress`
  frames), `SendTerminal` (complete or error), `CloseBody`.
- **Transport actions.** `Truncate` ends the body cleanly before a terminal
  frame. `Reset` drops some suffix of the lines in flight.
- **Data abstraction.** Lines are records `[tag, val]`. A data line's JSON is
  either well-formed or malformed. Error texts are not modelled.
- **Fairness.** Weak fairness on the client: the event loop runs every
  continuation that has settled. Weak fairness on the server: the handler
  runs to its end. The user and transport faults have no fairness.
- **pullModel.** `pullModel` (part_000:292-451) has the same control flow. The
  module models it by the same actions but does not map them line by line.

### `Transfer`: what one install or pull call promises (part_000:56-202)

- **Purpose.** The abstract specification of `installBackend` and
  `pullModel`.
- **State.** `state` (running, completed once the complete event was
  handled, done once the call returned), `result`, the Download Manager
  `entry`, and the user's `stop` request.
- **Actions.**
  - `Complete` marks the entry completed.
  - `Stop(k)` is a pause or cancel of the still active, tracked entry.
  - `Return(o)` returns a result from `Allowed`: success once completed;
    otherwise paused or cancelled after a stop, and success or error
    without one. The entry takes the result's status unless it is
    already completed.
- **Fairness.** Weak fairness on `Return`.
- **Refinement.** `ProgressStream` implements `Transfer` through
  `Abstract == INSTANCE Transfer WITH ...`. The mapping:
  - `state` comes from `pc` and `downloadCompleted`;
  - `result` is `outcome`;
  - `entry` is `tracker`;
  - `stop` comes from `isPaused` and `isCancelled`.
  The property `TransferRefined == Abstract!Spec` is checked in the
  `stream_ok` run.
- **What the refinement shows.** Every interleaving of frames, resets,
  truncations, parse failures and Download Manager events is one of
  these abstract behaviours. The two catch blocks therefore never
  contradict each other.

### `RecipesCache`: BackendManager's cache against the disk (backend_manager.cpp)

- **State.**
  - `disk[b]`: none, an old version, the required version, or a partial
    directory whose executable is gone.
  - `cache`: either `Empty` or each entry's `state`.
  - `thread[t]`: the request handler thread `t` is in the middle of.
  - `snapshot[t]`: what the first `/system-info` probed.
- **Actions.** Each request is two actions:
  - `InstallFromGithub`, then `InstallUpdateCache`.
  - `UninstallRemove`, then `UninstallUpdateCache`. The remove step includes
    the failure after 5 attempts, which leaves the directory unchanged or
    partial and skips the cache update.
  - `SystemInfoProbe`, then `SetRecipesCache`.
- **Helpers.** `UpdateEntry` is `update_recipes_cache_entry`: nothing while
  the cache is empty, and unsupported entries are kept. `StatusOf` is the
  spec 4.3 status computation (spec-modelled).
- **Bounds.** `MaxRequests` bounds the requests handled in one behaviour.
- **Fairness.** None. Requests arrive only when clients send them.

### `InferencePhase`: `ensureModelReady` and its callers (part_000, part_008, panels)

- **State.**
  - `call[c]`: the await each caller is at, with the post-step it runs
    after pre-flight. Callers are the chat window (`chat`), a chat
    invocation left running after the panel was hidden (`orphan`), and one
    `outside` slot shared by TTS and the Model Manager, which bypass the
    phase guard.
  - `phase`: `useInferenceState`'s `phaseRef`; `mounted`: whether the chat
    panel is shown.
  - Server side: `backend`, `downloaded`, `invalid`, `loaded` and the
    count of invalidations.
- **Actions.**
  - `ensureModelReady` as steps: `HealthCheck`, `SystemInfoStep`,
    `InstallEnds`, `CheckDownloaded`, `PullEnds`, `LoadResponds`, which
    re-pulls and retries once after `model_invalidated`.
  - Callers: `SendMessage`, `SubmitEdit`, `ImageGeneration`, `Reranking`,
    `Transcription` and `MicStart` all run `RunPreFlight`, which is refused
    while the phase is not idle. `TextToSpeech`, `Speak` and `LoadModel`
    start pre-flight directly.
  - Post-steps: `StreamEnds`, `RequestEnds`, `MicConnected`,
    `MicConnectFails`, `MicStop`, each ending in `Reset`.
  - `HideChat` and `ShowChat`; `PauseOrCancel` and `Invalidate`
    (spec-modelled) are the environment.
- **Fairness.** Weak fairness per caller: each await settles. Hiding,
  pausing and invalidation have none.

### `ModelManagerUI`: the Model Manager panel (ModelManager.tsx)

- **State.**
  - The server's `downloaded` and `loaded`; the panel's `modelsDl`
    (models context), `loadedModels` and `loadingModels`.
  - `ops[i]`: one running async invocation per slot: its kind (download,
    load, unload, delete or a `/health` fetch), its await, and the snapshot
    a served `/health` carries.
- **Actions.**
  - `FetchServed` and `FetchApplied` split `fetchCurrentLoadedModel` at its
    await, so answers can be applied out of order. `Poll` is the interval.
  - `DownloadClick`, `DownloadResume`, `SystemInfoLoaded`, `PullSettles`;
    `LoadClick`, `EnsureSettles` (with the `modelLoadEnd` listener);
    `UnloadClick`, `UnloadResponds`; `DeleteClick`, `Confirm`,
    `DeleteResponds`.
  - A click is offered only when the row shows its button (`Shows*`, from
    the row's render), and not while the confirm dialog is open (it is
    modal).
- **Fairness.** Weak fairness on every await, on the poll and on the models
  context refresh; none on the user.

### `BackendManagerUI`: the Backend Manager panel over SystemContext (BackendManager.tsx, part_006)

- **State.** The server's `disk`; SystemContext's `systemInfo`,
  `isLoading` and `hasLoaded`; whether the backends view is `mounted`;
  `effectDue`, a pending run of the panel's `ensureSystemInfoLoaded`
  effect; the panel's `installing` set; resumable Download Manager
  entries; `ops`, the invocations and refreshes in flight; `sizes`
  (`backendAssetSizes`), `lookup`, the GitHub size lookup in flight, and
  `sizesObj`, which flips with each new `backendAssetSizes` object.
- **Actions.**
  - `refresh` is three steps: `InfoServed` (the server answers from its
    state, or the request fails), `InfoApplied` (`setSystemInfo`) and
    `ChecksSettle` (the system checks, `hasLoaded`, the finally).
  - `SetFlags` changes the two flags and makes the effect due when either
    changes, because `ensureSystemInfoLoaded` depends on both.
    `EnsureEffect` refreshes when nothing is loaded or loading.
  - `SwitchView` mounts or unmounts the panel; a mount starts with an
    empty `installing` set.
  - `InstallClick`, `InstallSettles`, `ResumeInstall` (the Download
    Manager's resume or retry of a backend, from ModelManager.tsx);
    `UninstallClick`, `Confirm`, `UninstallResponds`. A success
    dispatches `backendsUpdated`, which starts a refresh.
  - `SizeEffect` is the asset-size effect (lines 57-81), applied as the
    last conjunct of every action that changes `recipes` or
    `backendAssetSizes` (`InfoApplied`, `SwitchView`, `SizeAnswer`): it
    cancels the lookup in flight and asks for the keys whose size is not
    yet known. `SizeAnswer` settles the lookup with any subset of the keys
    found (GitHub failures are swallowed) and stores them in a new
    object, which re-runs the effect. `SizeLabel` is
    `getBackendSizeLabel`.
- **Fairness.** Weak fairness on each await, on the size lookup and on the
  due effect; none on the user.

### `SettingsStore`: the settings file and its three renderer users (App.tsx, SettingsPanel.tsx, ChatWindow.tsx)

- **State.**
  - `store`, the settings file in the main process.
  - `ipc`, the requests in flight, oldest first. The main process serves
    them one at a time and replies in order, so each `Serve...` action
    also runs the renderer continuation.
  - App's `layout` (view, chat and ModelManager visibility),
    `layoutLoaded`, the debounce `timer` and `external` content.
  - The mounted panel's `loading`, `saving` and `draft`.
  - The mounted ChatWindow's `chatSettings`.
  - A settings value is a preference value (one abstract value for
    temperature, thinking, TTS and connection) plus the layout.
- **Mounting.** The panel is mounted when the ModelManager is visible with
  the settings view. ChatWindow is mounted when the chat is visible and no
  external content replaces it.
  - `SetLayout` mounts and unmounts both and sends each new instance's load
    request.
  - It also detaches the requests of an unmounted instance. These are
    `isMounted` in fetchSettings; for the other requests, the React state
    of an instance that is gone.
- **Actions.**
  - App: `ServeAppLoad`, the `TimerFires` / `ServeLayoutGet` /
    `ServeLayoutSave` read-modify-write, and `ChangeLayout` with its
    `SetView`, `ToggleChat`, `ToggleModelManager`, `OpenExternal` and
    `BackToChat` cases.
  - Panel: `ServePanelGet`, `EditPref` (every field handler, per-field
    reset included), `ResetDefaults`, `Save` and `ServePanelSave`.
  - ChatWindow: `ServeChatGet`, plus the broadcast in `Saved`.
- **Main process.** It is not in the repository. `saveSettings` is modelled
  as storing what it is given and broadcasting it, and
  `mergeWithDefaultSettings` as the identity on these fields.
- **Fairness.** Weak fairness on the main process and the timer; none on
  the user.

### `EngineLifecycle`: `SDServer` and `RyzenAIServer` load and unload (sd_server.cpp, ryzenaiserver.cpp)

- **State.** Per engine slot: the engine object's step in `load` (`pc`),
  whether `port_` is set, its `process_handle_` pid and `is_loaded_`; the
  orchestrator's slot (empty, loading, ready); the set of running child
  pids.
- **Actions.** `load` blocks at each step, so each step is an action:
  `Install` (install and the path checks, which may throw), `ChoosePort`
  (SDServer throws on port 0, RyzenAIServer does not check), `Spawn`
  (SDServer throws on pid 0), `CheckRunning` (RyzenAIServer's
  `is_running`), `Ready`, and `NotReady`, the readiness deadline: SDServer
  calls `unload()`, RyzenAIServer stops the child and resets the handle.
  `RequestUnload` is `unload()`, with `is_loaded_` guarding RyzenAIServer's.
  `ChildExits` lets a child die between any two steps.
- **Spec-modelled.** The orchestrator is not in the repository. Per spec 4.7
  and 5, it serializes load and unload per slot and drops the object when
  `load` throws. `Throw` therefore runs the destructor (`Destroy`):
  SDServer always unloads, RyzenAIServer only when `is_loaded_`.
- **Fairness.** Weak fairness on each slot's load steps: every step either
  returns or throws, and the readiness wait has a deadline. Requests and
  child exits get none.

### `ChatModelView`: the chat's view of the loaded model (ChatWindow.tsx, with ModelManager.tsx and LLMChatPanel.tsx)

- **State.**
  - ChatWindow's `currentLoadedModel` and `activeModelType`.
  - The models context's `selectedModel` and `userHasSelectedModel`.
  - `mountSel`: the flag as the mount effect's closure read it. The model
    follows one mount of ChatWindow, so the effect runs once. App
    unmounts ChatWindow while the chat is hidden or external content is
    shown (App.tsx:294-316). A remount starts over from a state that Init
    covers. Handlers of an earlier mount that run across a remount are
    not modelled.
  - The chat's `/health` fetch in flight and its answer.
  - The Model Manager's load or unload in progress.
  - The chat's send in progress (`busy` is `inference.isBusy`).
  - The server's engine per modality.
- **Actions.**
  - `Poll` is the 5 s interval. `FetchServed` and `FetchApplied` are
    `fetchLoadedModel`: an answer is served from the server's state at one
    step and applied at a later one.
  - `SelectModel` is the dropdown.
  - `MMLoad` is the Model Manager's load and its `modelLoadStart`.
    `MMEnsureReady` succeeds or fails. `MMLoadEnd` dispatches
    `modelLoadEnd` on both paths.
  - `MMUnload` and `MMUnloadEnd` are the unload and its `modelUnload`.
  - `ChatSend`, `ChatPreflight`, `ChatFirstChunk` and `ChatDone` are the
    chat's send. It computes `isNewModelLoad` at the click.
  - Every action that can change the selection or the busy flag ends with
    `LockPanelType`, the effect that follows the selected model's type
    only while idle.
- **Spec-modelled.** The server keeps one engine per modality (spec 4.7).
  `/health`'s `model_loaded` is any loaded model. The models context
  (`hooks/useModels`) is not in the repository; its setters are taken to
  be stable.
- **Fairness.** Weak fairness on the poll, the fetch steps, and the
  handlers' resumptions. The user gets none.

### `VersionCompare`: `Version::parse`, `>=`, `==` (backend_manager.cpp:281-357)

- **Parsing.** Recursive operators follow the code: strip a `v` prefix, split
  on `.`, take each segment's leading digit run, skip empty runs, and apply
  `stoi` with its out-of-range value replaced by 0.
- **Comparison.** `GEFrom` is the element loop with its early returns.
  `VersionGE` adds the guard on empty parts lists. `VersionEq` pads the
  shorter version.
- **State.** The pair (installed, required). The actions replace either
  string.
- **Reference.** `SpecGE` is spec 4.2's padded numeric order.

## Runs

| Run | Cfg | Expect | What it shows |
|---|---|---|---|
| stream_ok | `MC_ProgressStream.cfg` | pass (3578 states) | `CompleteWins`: once the complete frame is handled, no later reset, truncation or abort stops the call returning success with the entry completed and `backendsUpdated` sent. `TrackerMatchesOutcome`: the entry ends in the status matching the outcome, and every cancel sends `download:cleanup-complete`. `EveryCallReturns`: every call returns. `TransferRefined`: the call implements `Transfer`. |
| stream_eof_success | `MC_ProgressStream_eof.cfg` | violation | `SuccessOnlyAfterComplete` fails: fetch, then a clean truncation, then EOF, and the install is reported successful (finding). |
| cache_stale_populate | `MC_RecipesCache_stale.cfg` | violation | `CacheNeverHidesInstalled` fails with two handler threads: the first `/system-info` probes, an install finishes and its cache update is dropped on the still-empty cache, and `set_recipes_cache` stores the old snapshot. The backend reads as installable with its required version on disk (finding). |
| version_compare | `MC_VersionCompare.cfg` | pass (67081) | `>=` and `==` agree with spec 4.2 on every pair of parsable strings of up to 3 characters over `v . 0 1 9 x`. `TypeOK` also checks that `stoi` overflow is caught. |
| phase_chat | `MC_InferencePhase.cfg` | pass (310620) | `PhaseTracksChat`: the chat window's phase is idle, pre_flight or inferring exactly when its invocation is idle, in `ensureModelReady`, or streaming/requesting/recording. `EveryInvocationSettles`: every invocation of every caller (chat, an orphaned chat, TTS or Model Manager) returns to idle, also with invalidations and pauses. |
| phase_orphan_session | `MC_InferencePhase_orphan.cfg` | violation | `NoOrphanSession` fails: the mic is started, the chat panel is hidden while the socket connects, and the connect succeeds into an unmounted panel that keeps recording (finding). |
| engine_lifecycle | `MC_EngineLifecycle.cfg` | pass (794) | `NoOrphanChild`: every running child is some engine object's process handle. This holds across failed installs, ports and spawns, children that exit before `is_running` or before readiness, readiness timeouts, unloads and destructors. |
| chat_model_view | `MC_ChatModelView.cfg` | pass (565467) | `CurrentSettles`: once activity stops, the chat's `currentLoadedModel` is eventually and forever a model the server has loaded (or null). The poll repairs stale answers, a failed load's `modelLoadEnd`, and a `modelUnload` that clears the chat's model while another engine stays loaded. |
| mm_view | `MC_ModelManagerUI.cfg` | pass (624467) | `ViewConverges`: whatever the user clicks, with `/health` answers applied in any order or failing, once the user stops the panel's loaded and loading sets settle on the server's loaded set. |
| bm_view | `MC_BackendManagerUI.cfg` | pass (182425) | `InstallingMatchesRunning`: a row's install button is disabled exactly while that panel instance's install of it runs, across view switches, failures, pauses and resumes. `BackendsEventuallyShown`: an open backends view always gets past "Loading backends...", even after failed requests, because the effect re-runs when `isLoading` changes. `SizeLookupsStop`: the asset-size effect, which depends on the `backendAssetSizes` it sets, eventually stops fetching from GitHub, because each re-run skips cached keys (line 70). |
| settings_sync | `MC_SettingsStore.cfg` | pass (315091) | `ChatSettingsConverge`: once the requests drain, a mounted ChatWindow holds the stored settings, whatever the order of panel saves, layout saves, chat remounts and external content. `PanelEventuallyReady`: a mounted settings panel always gets past "Loading settings..." with Save enabled, also when it was remounted with its load or save in flight. |
| bm_stale_refresh | `MC_BackendManagerUI_stale.cfg` | violation | `ViewConverges` fails: two uninstalls finish close together, their refreshes' answers are applied in the opposite order, and a removed backend stays shown as installed (finding). |

Each property of a passing run has a mutant in PROJECT.json: a variant
operator in the module (a `Variant:` comment precedes each one) that a
plausible bug would produce. TLC finds each property violated when its
variant is substituted.

Every module defines a `TypeOK`. Only `version_compare` checks it, because
its Parse clause can be broken by a real bug (a `stoi` without its catch).
In the other modules, only lifting one of the model's own bounds could
break `TypeOK`, so no run spends a check on it.

## Bounds and why they suffice

- **ProgressStream.**
  - `MaxProgress = 2`. With two progress frames, there is a frame on either
    side of a reset or an abort.
  - The terminal frame is one of two kinds, and each kind can be well-formed
    or malformed.
  - `Tracked` is TRUE so that the Download Manager paths run. With FALSE
    every `Track` call is a no-op.
- **RecipesCache.**
  - Three backends, one of them unsupported, so the guard on unsupported
    entries matters.
  - `cache_stale_populate` runs two handler threads (`MC_TwoThreads`), so
    that an install can land between the probe and the store, with
    reliable removal so that the trace shows the race alone.
  - `MaxRequests = 4`, enough for populate, install, uninstall and one more.
  - Every violation found takes 3 or 4 steps.
- **VersionCompare.**
  - The strings cover a prefix, empty segments, a trailing suffix, zero
    padding and a two-digit segment (`10` versus `9`).
  - `INT_MAX` is scaled down to 99, so that a three-digit run takes the
    out-of-range path.

- **InferencePhase.** One model, one `outside` slot for TTS and the Model
  Manager, and at most one invalidation (`MaxCorrupt = 1`), which is enough
  for the retry path. Two models and separate TTS and Manager slots
  exceed the time budget; the duplicate-transfer run needs only one model
  and the Manager slot.
- **ModelManagerUI.** Two models, two op slots (`MaxOps`), four clicks
  (`MaxClicks`) and one failing `/health` (`MaxFailures`). Two slots
  suffice for a click racing the poll and for two clicks on one model.

- **BackendManagerUI.** Two backends, two op slots, four user actions and
  one failing request. Two backends and two slots are the least that lets
  two installs or uninstalls refresh at once; the stale-refresh run sets
  failures to 0 so that the counterexample shows the ordering alone.
  Both backends take their size from GitHub (`GithubSized`), so a lookup
  can find one size, re-run and ask for the other.

- **SettingsStore.** Two preference values, four user actions, and two
  stored layouts at start: the default one, and one that opens the
  settings view and hides the chat when it is applied. Four actions are
  enough to save, leave and return to the panel while the save is in
  flight, and to interleave a layout save with a panel save.

- **EngineLifecycle.** One SDServer slot and one RyzenAIServer slot, and
  three load requests (`MaxLoads`), so a slot can fail a load and load
  again. A violation of either property takes one load.

- **ChatModelView.** Two LLM models and one embedding model, so a load
  can replace the chat's engine or add a second one. One chat fetch in
  flight (two exceed the time budget), one failed fetch, and four user
  actions: enough for a send with a Model Manager load landing in it, and
  for a pick followed by a load.

## Not modelled (yet)

The plan for later work, in order:

1. **Status bar polling** (part_010), the remaining not-modelled
   component with state of its own. It polls `/stats` every 3 s (15 s
   while disconnected) and throttles `/system-stats` to 1 s, and no other
   component reads its state. The twelve runs the project keeps are spent
   on components that share state, so it has no module yet.
2. **TranscriptionPanel and RerankingPanel** beyond their pre-flight
   calls.

Findings dropped to stay within the run budget, kept as hazard notes in
PROJECT.json: `Version("") >= Version("")` is false, against spec 8; a
partial `remove_all` leaves an "installed" entry with no executable (TLC
finds `CacheInstalledHasExe` violated with one thread and
`RemoveCanFail = TRUE`); `CacheNeverHidesInstalled`, meant to survive a
partial `remove_all`, holds with one thread but no passing run checks it,
because with two threads the stale populate breaks it first;
`CacheInstalledHasExe` and `QuiescentCacheCoherent` hold with one handler
thread and reliable removal, and fail with two threads (the
install/uninstall race is kept as a hazard note at
backend_manager.cpp:90); a click on the
download button of a model that is already downloading makes a running
download show as not loading (ModelManager.tsx:387); the chat and a
Model Manager Load pre-flight the same model at once and both pull it,
against spec 4.7.2 (`OneTransferPerName` in `InferencePhase`, hazard note
at part_008:34).

Two bugs in ChatWindow's model handling are kept as hazard notes:
- **The user's pick is overridden.** `fetchLoadedModel` reads the mount
  render's `userHasSelectedModel`, so the poll replaces a model the user
  picked. TLC finds `UserChoiceKept` violated in 3 steps (ChatWindow.tsx:74).
- **A failed load shows as loaded.** A failed Model Manager load
  dispatches `modelLoadEnd`, and the chat then shows that model as loaded.
  TLC finds `CurrentShowsLoaded` violated (ModelManager.tsx:466).

Of the engines, `port_` left set after a failed start (sd_server.cpp:189,
ryzenaiserver.cpp:115) is not observable, because the failed object is
dropped. Two engines choosing the same port is a race that spec 4.4
accepts. Kokoro and LlamaCpp are only headers in the repository.

Two orders that `SettingsStore` reaches are kept as hazard notes rather
than findings. Both depend on the main process's `saveSettings` and on
`mergeWithDefaultSettings`, and neither is in the repository.
- App's layout save reads the settings, a panel save lands, and App writes
  the old preferences back (App.tsx:75).
- A panel save writes back the layout loaded when the panel mounted,
  undoing the view App had just saved (SettingsPanel.tsx:207).

A GitHub size lookup that fails is not retried, and nothing else re-runs
the asset-size effect while the view stays open, so the size label stays
"..." (BackendManager.tsx:100). `SizeEventuallyShown` states the opposite,
and TLC finds it violated under `MC_BackendManagerUI.cfg`'s constants. The
code calls the lookup best-effort, so this is kept as a hazard note.

Out of scope:

- rendering and the marketplace;
- App's divider drags (widths and heights reach the store only through
  the layout save, which the model keeps);
- the status bar's `/stats` polling;
- the JSON file helpers;
- the FLM installer special case;
- URL and enrichment fields;
- log and error wording.
