--------------------------- MODULE ProgressStream ---------------------------
(***************************************************************************)
(* The client side of the progress-streaming protocol: installBackend()    *)
(* (and pullModel(), whose control flow is the same) in                    *)
(* src/unnamed/part_000.  One call POSTs /install with stream:true, reads  *)
(* the SSE body line by line and ends in exactly one of: success, paused,  *)
(* cancelled, error.  Around it:                                           *)
(*   - the server, which writes event:/data:/blank frames (progress*, then *)
(*     complete or error) and closes the response;                        *)
(*   - the transport, which may reset the connection (dropping what was    *)
(*     in flight) or end the body early;                                   *)
(*   - the Download Manager UI, which dispatches download:paused /        *)
(*     download:cancelled for the tracked entry, aborting the fetch.       *)
(* The Download Manager entry (downloadTracker) is modelled by the status  *)
(* the client writes into it.                                              *)
(***************************************************************************)
EXTENDS Naturals, Sequences

CONSTANTS
    MaxProgress,   \* progress frames the server writes at most
    Tracked        \* showInDownloadManager: a downloadId exists

ASSUME MaxProgress \in Nat /\ Tracked \in BOOLEAN

VARIABLES
    pc,                 \* "fetch" | "text" | "read" | "done": the await the call is at
    currentEventType,   \* event name the next data: line belongs to
    downloadCompleted,  \* a complete frame has been handled
    isPaused,           \* set by handlePause
    isCancelled,        \* set by handleCancel
    aborted,            \* abortController.abort() has been called
    tracker,            \* status of the Download Manager entry
    outcome,            \* how the call ended
    notified,           \* backendsUpdated (modelsUpdated) dispatched
    cleanupSent,        \* download:cleanup-complete dispatched
    srv,                \* server handler: "idle" | "streaming" | "finished"
    wire,               \* SSE lines written and not yet read by the client
    conn,               \* "open" | "eof" | "reset"
    sentComplete,       \* the server wrote a complete frame
    sentProgress        \* progress frames written so far

clientVars == <<pc, currentEventType, downloadCompleted, isPaused, isCancelled,
                aborted, tracker, outcome, notified, cleanupSent>>
serverVars == <<srv, wire, conn, sentComplete, sentProgress>>
vars == <<clientVars, serverVars>>

Outcomes == {"none", "ok", "paused", "cancelled", "error"}
TrackerStates == {"none", "active", "completed", "failed", "paused", "cancelled"}
EventNames == {"progress", "complete", "error"}

(* SSE lines, abstracted to what the parser tells apart. *)
EventLine(n) == [tag |-> "event", val |-> n]
DataLine(j)  == [tag |-> "data", val |-> j]       \* j: "json" | "malformed"
BlankLine    == [tag |-> "blank", val |-> ""]
Lines == {EventLine(n) : n \in EventNames} \cup
         {DataLine(j) : j \in {"json", "malformed"}} \cup {BlankLine}
Frame(kind, j) == <<EventLine(kind), DataLine(j), BlankLine>>

TypeOK ==
    /\ pc \in {"fetch", "text", "read", "done"}
    /\ currentEventType \in EventNames
    /\ downloadCompleted \in BOOLEAN /\ isPaused \in BOOLEAN
    /\ isCancelled \in BOOLEAN /\ aborted \in BOOLEAN
    /\ tracker \in TrackerStates /\ outcome \in Outcomes
    /\ notified \in BOOLEAN /\ cleanupSent \in BOOLEAN
    /\ srv \in {"idle", "streaming", "finished"}
    /\ wire \in Seq(Lines)
    /\ conn \in {"open", "eof", "reset"}
    /\ sentComplete \in BOOLEAN /\ sentProgress \in 0..MaxProgress

(* downloadTracker.startDownload runs only when showInDownloadManager. *)
Init ==
    /\ pc = "fetch"
    /\ currentEventType = "progress"
    /\ downloadCompleted = FALSE
    /\ isPaused = FALSE /\ isCancelled = FALSE /\ aborted = FALSE
    /\ tracker = IF Tracked THEN "active" ELSE "none"
    /\ outcome = "none"
    /\ notified = FALSE /\ cleanupSent = FALSE
    /\ srv = "idle" /\ wire = <<>> /\ conn = "open"
    /\ sentComplete = FALSE /\ sentProgress = 0

(* A downloadTracker call; a no-op when there is no downloadId. *)
Track(status) == IF Tracked THEN status ELSE tracker

Finish(o) == pc' = "done" /\ outcome' = o

(* Variant: backendsUpdated dispatched only inside the completeDownload    *)
(* branch, i.e. only when no complete frame was handled.                   *)
AfterLoopNotifyInBranch ==
    /\ tracker' = IF downloadCompleted THEN tracker ELSE Track("completed")
    /\ notified' = ~downloadCompleted
    /\ Finish("ok")
    /\ UNCHANGED <<currentEventType, downloadCompleted, isPaused, isCancelled,
                   aborted, cleanupSent>>

(* Falling out of the read loop: complete the entry unless a complete      *)
(* frame already did, notify, return normally.                             *)
AfterLoop ==
    /\ tracker' = IF downloadCompleted THEN tracker ELSE Track("completed")
    /\ notified' = TRUE
    /\ Finish("ok")
    /\ UNCHANGED <<currentEventType, downloadCompleted, isPaused, isCancelled,
                   aborted, cleanupSent>>

(* Variant: the cancel branch without download:cleanup-complete. *)
OuterCatchNoCleanup(kind) ==
    /\ IF downloadCompleted
         THEN /\ notified' = TRUE /\ Finish("ok")
              /\ UNCHANGED <<tracker, cleanupSent>>
       ELSE IF kind = "abort" /\ isPaused /\ Tracked
         THEN /\ tracker' = "paused" /\ Finish("paused")
              /\ UNCHANGED <<notified, cleanupSent>>
       ELSE IF kind = "abort"
         THEN /\ tracker' = Track("cancelled")
              /\ Finish("cancelled") /\ UNCHANGED <<notified, cleanupSent>>
       ELSE /\ tracker' = Track("failed") /\ Finish("error")
            /\ UNCHANGED <<notified, cleanupSent>>
    /\ UNCHANGED <<currentEventType, downloadCompleted, isPaused, isCancelled, aborted>>

(* Variant: the AbortError test never matches (the error's name is not   *)
(* "AbortError"), so a pause or cancel is handled as a failure.            *)
OuterCatchAbortAsError(kind) ==
    /\ IF downloadCompleted
         THEN /\ notified' = TRUE /\ Finish("ok")
              /\ UNCHANGED <<tracker, cleanupSent>>
       ELSE /\ tracker' = Track("failed") /\ Finish("error")
            /\ UNCHANGED <<notified, cleanupSent>>
    /\ UNCHANGED <<currentEventType, downloadCompleted, isPaused, isCancelled, aborted>>

(* The outer catch; kind is "abort" for an AbortError, "error" otherwise. *)
OuterCatch(kind) ==
    /\ IF downloadCompleted
         THEN /\ notified' = TRUE /\ Finish("ok")
              /\ UNCHANGED <<tracker, cleanupSent>>
       ELSE IF kind = "abort" /\ isPaused /\ Tracked
         THEN /\ tracker' = "paused" /\ Finish("paused")
              /\ UNCHANGED <<notified, cleanupSent>>
       ELSE IF kind = "abort"
         THEN /\ tracker' = Track("cancelled") /\ cleanupSent' = TRUE
              /\ Finish("cancelled") /\ UNCHANGED notified
       ELSE /\ tracker' = Track("failed") /\ Finish("error")
            /\ UNCHANGED <<notified, cleanupSent>>
    /\ UNCHANGED <<currentEventType, downloadCompleted, isPaused, isCancelled, aborted>>

(* The catch around the read loop: swallow once complete, else rethrow. *)
StreamCatch(kind) ==
    IF downloadCompleted THEN AfterLoop ELSE OuterCatch(kind)

-----------------------------------------------------------------------------
(* Client: one action per resumption of the async function. *)

(* serverFetch('/install') settles: a streaming 200, a non-ok status, or a *)
(* network failure (TypeError).                                            *)
FetchResolves ==
    /\ pc = "fetch" /\ ~aborted
    /\ \/ /\ pc' = "read" /\ srv' = "streaming"
          /\ UNCHANGED <<currentEventType, downloadCompleted, isPaused, isCancelled,
                         aborted, tracker, outcome, notified, cleanupSent,
                         wire, conn, sentComplete, sentProgress>>
       \/ /\ pc' = "text"
          /\ UNCHANGED <<currentEventType, downloadCompleted, isPaused, isCancelled,
                         aborted, tracker, outcome, notified, cleanupSent, serverVars>>
       \/ OuterCatch("error") /\ UNCHANGED serverVars

(* An abort while awaiting fetch or response.text() rejects with AbortError. *)
AbortBeforeBody ==
    /\ pc \in {"fetch", "text"} /\ aborted
    /\ OuterCatch("abort") /\ UNCHANGED serverVars

(* response.text() of a non-ok response resolves: throw Error. *)
ErrorBodyRead ==
    /\ pc = "text" /\ ~aborted
    /\ OuterCatch("error") /\ UNCHANGED serverVars

(* One line of the body handled by the for-loop. *)
HandleLine(l) ==
    CASE l.tag = "event" ->
            /\ currentEventType' = l.val
            /\ UNCHANGED <<downloadCompleted, tracker, pc, outcome, notified>>
      [] l.tag = "blank" ->
            /\ currentEventType' = "progress"
            /\ UNCHANGED <<downloadCompleted, tracker, pc, outcome, notified>>
      [] l.tag = "data" /\ (l.val = "malformed" \/ currentEventType = "progress") ->
            UNCHANGED <<currentEventType, downloadCompleted, tracker, pc, outcome, notified>>
      [] l.tag = "data" /\ l.val = "json" /\ currentEventType = "complete" ->
            /\ tracker' = Track("completed") /\ downloadCompleted' = TRUE
            /\ UNCHANGED <<currentEventType, pc, outcome, notified>>
      [] l.tag = "data" /\ l.val = "json" /\ currentEventType = "error" ->
            \* failDownload, then throw into the stream catch
            /\ tracker' = Track("failed")
            /\ IF downloadCompleted
                 THEN notified' = TRUE /\ Finish("ok")
                 ELSE Finish("error") /\ UNCHANGED notified
            /\ UNCHANGED <<currentEventType, downloadCompleted>>

ReadLine ==
    /\ pc = "read" /\ ~aborted /\ wire /= <<>>
    /\ HandleLine(Head(wire))
    /\ wire' = Tail(wire)
    /\ UNCHANGED <<isPaused, isCancelled, aborted, cleanupSent,
                   srv, conn, sentComplete, sentProgress>>

(* Variant: done is not checked and the loop keeps calling read(). *)
ReadEOFKeepsReading ==
    /\ pc = "read" /\ ~aborted /\ wire = <<>> /\ conn = "eof"
    /\ UNCHANGED vars

(* reader.read() returns done: leave the loop. *)
ReadEOF ==
    /\ pc = "read" /\ ~aborted /\ wire = <<>> /\ conn = "eof"
    /\ AfterLoop /\ UNCHANGED serverVars

(* reader.read() rejects: connection reset, or the abort signal. *)
ReadFails ==
    /\ pc = "read"
    /\ \/ ~aborted /\ wire = <<>> /\ conn = "reset" /\ StreamCatch("error")
       \/ aborted /\ StreamCatch("abort")
    /\ UNCHANGED serverVars

-----------------------------------------------------------------------------
(* Download Manager UI: a pause/cancel event with the entry's name, which  *)
(* the listeners act on whatever the entry's status, until the finally    *)
(* removes them.  The listener aborts; the rejection is delivered before  *)
(* the next UI event, so a second control event cannot arrive while an    *)
(* abort is pending.                                                       *)
Control(flagPaused) ==
    /\ Tracked /\ pc /= "done" /\ ~aborted
    /\ aborted' = TRUE
    /\ IF flagPaused THEN isPaused' = TRUE /\ UNCHANGED isCancelled
                     ELSE isCancelled' = TRUE /\ UNCHANGED isPaused
    /\ UNCHANGED <<pc, currentEventType, downloadCompleted, tracker, outcome,
                   notified, cleanupSent, serverVars>>

UserPause  == Control(TRUE)
UserCancel == Control(FALSE)

-----------------------------------------------------------------------------
(* Server handler and transport. *)

(* Variant: no bound on the frames written. *)
SendProgressUnbounded ==
    /\ srv = "streaming" /\ conn = "open"
    /\ \E j \in {"json", "malformed"} : wire' = wire \o Frame("progress", j)
    /\ sentProgress' = sentProgress + 1
    /\ UNCHANGED <<srv, conn, sentComplete, clientVars>>

SendProgress ==
    /\ srv = "streaming" /\ conn = "open" /\ sentProgress < MaxProgress
    /\ \E j \in {"json", "malformed"} : wire' = wire \o Frame("progress", j)
    /\ sentProgress' = sentProgress + 1
    /\ UNCHANGED <<srv, conn, sentComplete, clientVars>>

(* The terminal frame: complete or error, never both. *)
SendTerminal ==
    /\ srv = "streaming" /\ conn = "open"
    /\ \E k \in {"complete", "error"}, j \in {"json", "malformed"} :
          /\ wire' = wire \o Frame(k, j)
          /\ sentComplete' = (k = "complete")
    /\ srv' = "finished"
    /\ UNCHANGED <<conn, sentProgress, clientVars>>

(* The handler returns and the chunked body ends. *)
CloseBody ==
    /\ srv = "finished" /\ conn = "open"
    /\ conn' = "eof"
    /\ UNCHANGED <<srv, wire, sentComplete, sentProgress, clientVars>>

(* The body ends cleanly before any terminal frame. *)
Truncate ==
    /\ srv = "streaming" /\ conn = "open"
    /\ conn' = "eof" /\ srv' = "finished"
    /\ UNCHANGED <<wire, sentComplete, sentProgress, clientVars>>

(* RST: whatever was still in flight is lost. *)
Reset ==
    /\ srv /= "idle" /\ conn = "open"
    /\ conn' = "reset"
    /\ \E k \in 0..Len(wire) : wire' = SubSeq(wire, 1, k)
    /\ UNCHANGED <<srv, sentComplete, sentProgress, clientVars>>

-----------------------------------------------------------------------------
Client == FetchResolves \/ AbortBeforeBody \/ ErrorBodyRead
          \/ ReadLine \/ ReadEOF \/ ReadFails
Server == SendProgress \/ SendTerminal \/ CloseBody

Next ==
    \/ Client
    \/ Server
    \/ Truncate \/ Reset
    \/ UserPause \/ UserCancel

(* The event loop runs every settled continuation; the server handler runs *)
(* to its end.  Transport faults and the user are not fair.                *)
Fairness == WF_vars(Client) /\ WF_vars(Server)

Spec == Init /\ [][Next]_vars /\ Fairness

-----------------------------------------------------------------------------
(* Properties *)

Status(o) == CASE o = "ok" -> "completed" [] o = "paused" -> "paused"
               [] o = "cancelled" -> "cancelled" [] o = "error" -> "failed"

(* Completion race (installBackend's two catch blocks): once the complete  *)
(* frame has been handled, a later reset, truncation or user abort must    *)
(* still end the call in success, with the entry completed and            *)
(* backendsUpdated dispatched.                                             *)
CompleteWins ==
    (downloadCompleted /\ pc = "done") =>
        /\ outcome = "ok" /\ notified
        /\ tracker = Track("completed")

(* The Download Manager entry ends in the status that matches how the call *)
(* ended, and a call reported as cancelled always told the Download        *)
(* Manager that file handles are released (download:cleanup-complete).     *)
TrackerMatchesOutcome ==
    pc = "done" =>
        /\ Tracked => tracker = Status(outcome)
        /\ outcome = "cancelled" => cleanupSent
        /\ outcome = "paused" => isPaused

(* Spec 4.6: completion is defined by the complete frame, not by transport *)
(* EOF.  A call that reports success has seen the server write complete.   *)
SuccessOnlyAfterComplete ==
    outcome = "ok" => sentComplete

(* Every call returns once the server handler has run to its end. *)
EveryCallReturns == <>(pc = "done")

-----------------------------------------------------------------------------
(* Refinement: the call as the Transfer specification sees it. *)
TransferState ==
    IF pc = "done" THEN "done"
    ELSE IF downloadCompleted THEN "completed" ELSE "running"

UserStop == IF isPaused THEN "pause" ELSE IF isCancelled THEN "cancel" ELSE "none"

Abstract == INSTANCE Transfer WITH state <- TransferState, result <- outcome,
                                   entry <- tracker, stop <- UserStop

(* installBackend implements Transfer: across resets, truncations, frames  *)
(* that fail to parse and pause/cancel at every await, the entry is marked *)
(* completed once and then the call succeeds, a pause or cancel before     *)
(* completion decides the result, the entry ends in the result's status,   *)
(* and the call returns.                                                    *)
TransferRefined == Abstract!Spec

=============================================================================
