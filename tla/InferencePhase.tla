--------------------------- MODULE InferencePhase ---------------------------
(***************************************************************************)
(* The chat window's inference phase and everything that prepares a model  *)
(* for it.                                                                 *)
(*                                                                         *)
(* ChatWindow owns one useInferenceState (src/unnamed/part_008): phase     *)
(* idle -> pre_flight -> inferring -> idle.  Every panel handler (LLM      *)
(* send and edit, image generation, reranking, file and live               *)
(* transcription) enters through runPreFlight, whose synchronous phaseRef  *)
(* guard admits one request at a time, and leaves through reset().        *)
(* runPreFlight awaits ensureModelReady (src/unnamed/part_000): /health    *)
(* fast path, /system-info and backend install, download check, pull,      *)
(* /load with one re-pull and retry on model_invalidated.                  *)
(*                                                                         *)
(* Two more callers run ensureModelReady outside the phase: the inline     *)
(* text-to-speech buttons (useTTS) and the Model Manager's Load button.    *)
(* The Download Manager can pause or cancel a transfer by name, aborting   *)
(* every transfer of that name.                                            *)
(*                                                                         *)
(* Each caller runs at most one invocation at a time, and TTS and the      *)
(* Model Manager share one slot ("outside"); the server's state            *)
(* is what the client can observe: backend state, which models are         *)
(* downloaded, loaded or invalidated.                                     *)
(***************************************************************************)
EXTENDS Naturals, FiniteSets

CONSTANTS
    Models,       \* model names
    TTSModel,     \* appSettings.tts.model
    Backend,      \* the (recipe, backend) display name of the models' backend
    MaxCorrupt,   \* times a downloaded model may become invalid
    Outside,      \* the callers outside the phase that take part
    Hideable      \* whether the user hides the chat in this model

ASSUME TTSModel \in Models /\ MaxCorrupt \in Nat
ASSUME Outside \subseteq {"tts", "manager"} /\ Hideable \in BOOLEAN

ChatCallers == {"chat", "orphan"}   \* the mounted chat window, one unmounted
Callers     == ChatCallers \cup {"outside"}   \* plus one TTS or Model Manager call
Posts       == {"stream", "request", "connect", "speak", "idle"}  \* what follows the pre-flight

VARIABLES
    mounted,      \* isChatVisible: the ChatWindow (and its panel) is mounted
    phase,        \* phaseRef.current of the mounted ChatWindow
    call,         \* call[c]: where caller c's current invocation is
    backend,      \* the backend's state in /system-info
    downloaded,   \* downloaded[m]: the model's files are complete
    invalid,      \* invalid[m]: /load answers model_invalidated
    loaded,       \* models loaded in the server
    corruptions   \* invalidations so far

vars == <<mounted, phase, call, backend, downloaded, invalid, loaded, corruptions>>

EnsureSteps == {"health", "sysinfo", "install", "check", "pull", "load", "repull", "reload"}
ChatSteps   == {"stream", "request", "connect", "recording"}
Steps       == {"idle", "speak"} \cup EnsureSteps \cup ChatSteps

Call == [at : Steps, m : Models, post : Posts, skip : BOOLEAN, aborted : BOOLEAN]
Idle == [at |-> "idle", m |-> TTSModel, post |-> "request", skip |-> FALSE, aborted |-> FALSE]

TypeOK ==
    /\ mounted \in BOOLEAN
    /\ phase \in {"idle", "pre_flight", "inferring"}
    /\ call \in [Callers -> Call]
    /\ backend \in {"installed", "installable", "unsupported"}
    /\ downloaded \in [Models -> BOOLEAN] /\ invalid \in [Models -> BOOLEAN]
    /\ loaded \subseteq Models
    /\ corruptions \in 0..MaxCorrupt

(* The app starts with the chat shown and nothing loaded; the backend and  *)
(* the model files are whatever earlier runs left.                        *)
Init ==
    /\ mounted = TRUE
    /\ phase = "idle"
    /\ call = [c \in Callers |-> Idle]
    /\ backend \in {"installed", "installable", "unsupported"}
    /\ downloaded \in [Models -> BOOLEAN]
    /\ invalid = [m \in Models |-> FALSE]
    /\ loaded = {}
    /\ corruptions = 0

Set(c, at) == call' = [call EXCEPT ![c].at = at]
Server == <<backend, downloaded, invalid, loaded, corruptions>>

(* setPhaseSync from caller c's closure: only the mounted window's ref is  *)
(* the one later handlers read.                                            *)
SetPhase(c, p) == IF c = "chat" THEN phase' = p ELSE UNCHANGED phase

(* The transfers open right now, by Download Manager name. *)
Transferring(c, name) ==
    \/ call[c].at \in {"pull", "repull"} /\ call[c].m = name
    \/ call[c].at = "install" /\ name = Backend

-----------------------------------------------------------------------------
(* How each caller continues when ensureModelReady settles: "ok", "abort"  *)
(* (DownloadAbortError) or "error".                                        *)

(* runPreFlight: inferring on success, idle otherwise; then the handler    *)
(* either returns (not ready) or goes on to its request.                   *)
ChatAfterEnsure(c, r) ==
    IF r = "ok"
    THEN /\ SetPhase(c, "inferring")
         /\ Set(c, call[c].post)
    ELSE SetPhase(c, "idle") /\ Set(c, "idle")

(* handleTextToSpeech: speak on success; on abort or error stop and return. *)
TTSAfterEnsure(r) ==
    Set("outside", IF r = "ok" THEN "speak" ELSE "idle") /\ UNCHANGED phase

(* handleLoadModel: success and failure both end the handler. *)
ManagerAfterEnsure(r) == Set("outside", "idle") /\ UNCHANGED phase

Return(c, r) ==
    CASE c \in ChatCallers          -> ChatAfterEnsure(c, r)
      [] call[c].post = "speak"     -> TTSAfterEnsure(r)
      [] OTHER                      -> ManagerAfterEnsure(r)

Go(c, at) == Set(c, at) /\ UNCHANGED phase

-----------------------------------------------------------------------------
(* ensureModelReady, one action per await. *)

(* Step 1: /health; already loaded -> return.  A failed check goes on. *)
HealthCheck(c) ==
    /\ call[c].at = "health"
    /\ \/ call[c].m \in loaded /\ Return(c, "ok")
       \/ Go(c, "sysinfo")
    /\ UNCHANGED <<mounted, Server>>

(* Step 3: fresh /system-info, then ensureBackendForRecipe. *)
SystemInfoStep(c) ==
    /\ call[c].at = "sysinfo"
    /\ CASE backend = "installed"   -> Go(c, "check")
         [] backend = "installable" -> Go(c, "install")
         [] backend = "unsupported" -> Return(c, "error")
    /\ UNCHANGED <<mounted, Server>>

(* installBackend settles. *)
InstallEnds(c) ==
    /\ call[c].at = "install"
    /\ IF call[c].aborted
       THEN Return(c, "abort") /\ UNCHANGED backend
       ELSE \/ backend' = "installed" /\ Go(c, "check")
            \/ Return(c, "error") /\ UNCHANGED backend
    /\ UNCHANGED <<mounted, downloaded, invalid, loaded, corruptions>>

(* Step 4: modelsData says downloaded, or /models?show_all=true does; if   *)
(* the re-check fails the model is pulled anyway (a no-op pull).          *)
CheckDownloaded(c) ==
    /\ call[c].at = "check"
    /\ \/ downloaded[call[c].m] /\ Go(c, "load")
       \/ Go(c, "pull")
    /\ UNCHANGED <<mounted, Server>>

(* pullModel settles (step 5, and the re-pull of step 6).  A pull of a    *)
(* model the server already lists as downloaded may be a no-op and leave   *)
(* its files invalid.                                                      *)
PullEnds(c) ==
    /\ call[c].at \in {"pull", "repull"}
    /\ IF call[c].aborted
       THEN Return(c, "abort") /\ UNCHANGED <<downloaded, invalid>>
       ELSE \/ /\ downloaded' = [downloaded EXCEPT ![call[c].m] = TRUE]
               /\ \E v \in {FALSE, invalid[call[c].m]} :
                     invalid' = [invalid EXCEPT ![call[c].m] = v]
               /\ Go(c, IF call[c].at = "pull" THEN "load" ELSE "reload")
            \/ Return(c, "error") /\ UNCHANGED <<downloaded, invalid>>
    /\ UNCHANGED <<mounted, backend, loaded, corruptions>>

(* Variant: the invalidated load is re-pulled and retried until it works. *)
LoadRespondsRetryForever(c) ==
    /\ call[c].at \in {"load", "reload"}
    /\ \/ /\ ~invalid[call[c].m]
          /\ loaded' = loaded \cup {call[c].m}
          /\ Return(c, "ok")
       \/ /\ invalid[call[c].m]
          /\ call' = [call EXCEPT ![c].at = "repull", ![c].aborted = FALSE]
          /\ UNCHANGED <<loaded, phase>>
       \/ Return(c, "error") /\ UNCHANGED loaded
    /\ UNCHANGED <<mounted, backend, downloaded, invalid, corruptions>>

(* Step 6: POST /load.  model_invalidated the first time: re-pull, retry   *)
(* once; the retry's failure, or any other failure, is thrown.             *)
LoadResponds(c) ==
    /\ call[c].at \in {"load", "reload"}
    /\ \/ /\ ~invalid[call[c].m]
          /\ loaded' = loaded \cup {call[c].m}
          /\ Return(c, "ok")
       \/ /\ invalid[call[c].m] /\ call[c].at = "load"
          /\ call' = [call EXCEPT ![c].at = "repull", ![c].aborted = FALSE]
          /\ UNCHANGED <<loaded, phase>>
       \/ /\ invalid[call[c].m] /\ call[c].at = "reload"
          /\ Return(c, "error") /\ UNCHANGED loaded
       \/ Return(c, "error") /\ UNCHANGED loaded
    /\ UNCHANGED <<mounted, backend, downloaded, invalid, corruptions>>

EnsureStep(c) ==
    \/ HealthCheck(c) \/ SystemInfoStep(c) \/ InstallEnds(c)
    \/ CheckDownloaded(c) \/ PullEnds(c) \/ LoadResponds(c)

-----------------------------------------------------------------------------
(* Panel handlers of the mounted window.  Each checks isBusy, then calls   *)
(* runPreFlight, whose phaseRef guard sets pre_flight.                     *)
StartEnsure(c, m, post, skip) ==
    call' = [call EXCEPT ![c] = [at |-> IF skip THEN "sysinfo" ELSE "health",
                                 m |-> m, post |-> post, skip |-> skip, aborted |-> FALSE]]

RunPreFlight(post) ==
    /\ mounted /\ phase = "idle"
    /\ phase' = "pre_flight"
    /\ \E m \in Models : StartEnsure("chat", m, post, FALSE)
    /\ UNCHANGED <<mounted, Server>>

SendMessage      == RunPreFlight("stream")
SubmitEdit       == RunPreFlight("stream")
ImageGeneration  == RunPreFlight("request")
Reranking        == RunPreFlight("request")
Transcription    == RunPreFlight("request")
MicStart         == RunPreFlight("connect")

(* reset() in the handler's finally (or catch). *)
Reset(c) == SetPhase(c, "idle") /\ Set(c, "idle")

(* handleStreamingResponse settles (content, an error, or the abort of the *)
(* Stop button or of unmounting); sendMessage/submitEdit's finally resets. *)
StreamEnds(c) ==
    /\ call[c].at = "stream"
    /\ Reset(c) /\ UNCHANGED <<mounted, Server>>

(* The image, reranking or transcription request settles; finally resets. *)
RequestEnds(c) ==
    /\ call[c].at = "request"
    /\ Reset(c) /\ UNCHANGED <<mounted, Server>>

(* handleMicStart: the WebSocket connects, 500 ms pass and recording       *)
(* starts; or connect/startRecording throws and the catch resets.          *)
MicConnected(c) ==
    /\ call[c].at = "connect"
    /\ Go(c, "recording") /\ UNCHANGED <<mounted, Server>>

(* Variant: the catch shows the error but forgets reset(). *)
MicConnectFailsNoReset(c) ==
    /\ call[c].at = "connect"
    /\ Go(c, "idle") /\ UNCHANGED <<mounted, Server>>

MicConnectFails(c) ==
    /\ call[c].at = "connect"
    /\ Reset(c) /\ UNCHANGED <<mounted, Server>>

(* handleMicStop: the mounted panel's stop button. *)
MicStop ==
    /\ mounted /\ call["chat"].at = "recording"
    /\ Reset("chat") /\ UNCHANGED <<mounted, Server>>

(* The chat is hidden: ChatWindow unmounts with its phase.  The panel's    *)
(* cleanup stops a live recording; an invocation still awaiting runs on   *)
(* in the unmounted closure.                                               *)
HideChat ==
    /\ Hideable /\ mounted /\ call["orphan"].at = "idle"
    /\ mounted' = FALSE
    /\ phase' = "idle"
    /\ call' = [call EXCEPT !["chat"] = Idle,
                            !["orphan"] = IF call["chat"].at = "recording"
                                          THEN Idle ELSE call["chat"]]
    /\ UNCHANGED Server

(* The chat is shown again: a fresh ChatWindow, phase idle. *)
ShowChat ==
    /\ ~mounted
    /\ mounted' = TRUE
    /\ UNCHANGED <<phase, call, Server>>

-----------------------------------------------------------------------------
(* Callers outside the phase. *)

(* handleAudioButtonClick -> handleTextToSpeech(ttsModel). *)
TextToSpeech ==
    /\ "tts" \in Outside /\ call["outside"].at = "idle"
    /\ StartEnsure("outside", TTSModel, "speak", FALSE)
    /\ UNCHANGED <<mounted, phase, Server>>

(* doTextToSpeech: /audio/speech settles (errors stop the audio). *)
Speak ==
    /\ call["outside"].at = "speak"
    /\ Go("outside", "idle") /\ UNCHANGED <<mounted, Server>>

(* Model Manager Load, or Load with options (skipHealthCheck). *)
LoadModel ==
    /\ "manager" \in Outside /\ call["outside"].at = "idle"
    /\ \E m \in Models, skip \in BOOLEAN : StartEnsure("outside", m, "idle", skip)
    /\ UNCHANGED <<mounted, phase, Server>>

-----------------------------------------------------------------------------
(* Environment. *)

(* Download Manager pause or cancel of one entry: the listeners of every   *)
(* transfer with that name abort.                                          *)
PauseOrCancel(name) ==
    /\ \E c \in Callers : Transferring(c, name) /\ ~call[c].aborted
    /\ call' = [c \in Callers |->
                  IF Transferring(c, name) THEN [call[c] EXCEPT !.aborted = TRUE]
                  ELSE call[c]]
    /\ UNCHANGED <<mounted, phase, Server>>

(* Variant: no bound on invalidations. *)
InvalidateUnbounded(m) ==
    /\ downloaded[m] /\ ~invalid[m]
    /\ invalid' = [invalid EXCEPT ![m] = TRUE]
    /\ loaded' = loaded \ {m}
    /\ corruptions' = corruptions + 1
    /\ UNCHANGED <<mounted, phase, call, backend, downloaded>>

(* A downloaded model's files become invalid (removed or corrupted). *)
Invalidate(m) ==
    /\ downloaded[m] /\ ~invalid[m] /\ corruptions < MaxCorrupt
    /\ invalid' = [invalid EXCEPT ![m] = TRUE]
    /\ loaded' = loaded \ {m}
    /\ corruptions' = corruptions + 1
    /\ UNCHANGED <<mounted, phase, call, backend, downloaded>>

ChatStep(c) == StreamEnds(c) \/ RequestEnds(c) \/ MicConnected(c) \/ MicConnectFails(c)

ClientStep(c) ==
    \/ EnsureStep(c)
    \/ c \in ChatCallers /\ ChatStep(c)
    \/ c = "outside" /\ Speak

Next ==
    \/ SendMessage \/ SubmitEdit \/ ImageGeneration \/ Reranking
    \/ Transcription \/ MicStart \/ MicStop
    \/ HideChat \/ ShowChat
    \/ TextToSpeech \/ LoadModel
    \/ \E c \in Callers : ClientStep(c)
    \/ \E name \in Models \cup {Backend} : PauseOrCancel(name)
    \/ \E m \in Models : Invalidate(m)

(* The event loop runs every settled continuation and the server answers   *)
(* every request; the user and file corruption are not fair.               *)
Fairness == \A c \in Callers : WF_vars(ClientStep(c))

Spec == Init /\ [][Next]_vars /\ Fairness

-----------------------------------------------------------------------------
(* Properties. *)

(* The mounted window's phase says what its panel is doing: idle exactly   *)
(* when no handler of that panel is running, pre_flight while its          *)
(* ensureModelReady runs, inferring from then until the handler's reset    *)
(* (runPreFlight, every catch and finally calling reset, and unmounting).  *)
PhaseTracksChat ==
    /\ (phase = "idle")       = (call["chat"].at = "idle")
    /\ (phase = "pre_flight") = (call["chat"].at \in EnsureSteps)
    /\ (phase = "inferring")  = (call["chat"].at \in ChatSteps)

(* Every invocation of every caller returns, whatever the Download Manager *)
(* and file invalidation do: ensureModelReady's re-pull and retry on       *)
(* model_invalidated happen once, and every handler ends in reset().  A    *)
(* live recording lasts until the user stops it.                           *)
EveryInvocationSettles ==
    \A c \in Callers :
        call[c].at \notin {"idle", "recording"} ~> call[c].at \in {"idle", "recording"}

(* Spec 4.7.2: concurrent pre-flights of one model are rejected and the    *)
(* Download Manager sees one transfer.  Only the chat window's pre-flight  *)
(* is guarded; TTS and Model Manager Load call ensureModelReady directly.  *)
OneTransferPerName ==
    \A name \in Models \cup {Backend} :
        Cardinality({c \in Callers : Transferring(c, name)}) <= 1

(* A live transcription session is only ever open in a mounted panel that  *)
(* can stop it: handleMicStart of a panel unmounted during its pre-flight  *)
(* must not go on to connect the WebSocket and start recording.            *)
NoOrphanSession == call["orphan"].at /= "recording"

=============================================================================
