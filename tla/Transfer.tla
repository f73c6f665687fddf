------------------------------ MODULE Transfer ------------------------------
(***************************************************************************)
(* What one installBackend() (or pullModel()) call promises its caller and *)
(* the Download Manager, without the SSE stream, the transport or the two  *)
(* catch blocks (src/unnamed/part_000:56-202):                              *)
(*   - the download entry is marked completed at most once, when the       *)
(*     server's completion is seen, and from then on the call succeeds;    *)
(*   - a pause or cancel from the Download Manager, before completion,     *)
(*     ends the call paused or cancelled; after completion it is ignored;   *)
(*   - otherwise the call ends in success or error;                         *)
(*   - the entry ends in the status of the result;                          *)
(*   - the call returns.                                                    *)
(* ProgressStream implements this specification (see TransferRefined).     *)
(***************************************************************************)
CONSTANT Tracked   \* showInDownloadManager: a downloadId exists

VARIABLES
    state,    \* "running" | "completed" (complete seen) | "done" (returned)
    result,   \* how the call ended, "none" before
    entry,    \* status of the Download Manager entry
    stop      \* "none" | "pause" | "cancel": the user's request

vars == <<state, result, entry, stop>>

Results == {"ok", "paused", "cancelled", "error"}

Track(status) == IF Tracked THEN status ELSE entry

StatusOf(o) == CASE o = "ok" -> "completed" [] o = "paused" -> "paused"
                 [] o = "cancelled" -> "cancelled" [] o = "error" -> "failed"

Init ==
    /\ state = "running" /\ result = "none" /\ stop = "none"
    /\ entry = IF Tracked THEN "active" ELSE "none"

(* The complete event is handled: completeDownload. *)
Complete ==
    /\ state = "running" /\ stop = "none"
    /\ state' = "completed" /\ entry' = Track("completed")
    /\ UNCHANGED <<result, stop>>

(* handlePause / handleCancel: a same-name event while the call runs. *)
Stop(k) ==
    /\ Tracked /\ state /= "done" /\ stop = "none"
    /\ stop' = k
    /\ UNCHANGED <<state, result, entry>>

(* The results the call may return from the current state. *)
Allowed ==
    IF state = "completed" THEN {"ok"}
    ELSE CASE stop = "pause"  -> {"paused"}
           [] stop = "cancel" -> {"cancelled"}
           [] OTHER           -> {"ok", "error"}

(* The call returns o; the entry takes o's status unless it is completed. *)
Return(o) ==
    /\ state /= "done" /\ o \in Allowed
    /\ state' = "done" /\ result' = o
    /\ entry' = IF state = "completed" THEN entry ELSE Track(StatusOf(o))
    /\ UNCHANGED stop

Next == Complete \/ (\E k \in {"pause", "cancel"} : Stop(k))
        \/ (\E o \in Results : Return(o))

Spec == Init /\ [][Next]_vars /\ WF_vars(\E o \in Results : Return(o))

=============================================================================
