-------------------------- MODULE EngineLifecycle ---------------------------
(***************************************************************************)
(* The wrapped engine servers' load and unload: SDServer                   *)
(* (src/src/cpp/server/backends/sd_server.cpp) and RyzenAIServer           *)
(* (backends/ryzenaiserver.cpp), each managing one child process.          *)
(*                                                                         *)
(* load runs on the request's thread and blocks at each step, so each     *)
(* step is an action: install the backend, choose a port, spawn the       *)
(* child, (RyzenAI) check it is running, wait for readiness.  A failed    *)
(* step throws.  Between steps the child may exit on its own.             *)
(*                                                                         *)
(* The orchestrator (not in the repository; spec 4.7 and 5) serializes   *)
(* load and unload per engine slot, and drops the engine object when a   *)
(* load throws or after unloading it, running its destructor; the next   *)
(* load uses a fresh object.                                              *)
(*                                                                         *)
(* A port is abstracted to whether port_ is nonzero; a child process to   *)
(* its pid, in alive while it runs.                                       *)
(***************************************************************************)
EXTENDS Naturals

CONSTANTS
    Engines,    \* engine slots
    Kind,       \* Kind[e] \in {"sd", "ryzen"}
    MaxLoads    \* load requests in one behaviour

ASSUME Kind \in [Engines -> {"sd", "ryzen"}] /\ MaxLoads \in Nat

Steps == {"idle", "install", "port", "spawn", "check", "wait"}

VARIABLES
    eng,      \* eng[e]: the engine object's pc, port_ (set or 0), process_handle_ pid, is_loaded_
    slot,     \* slot[e]: the orchestrator's view: "empty" | "loading" | "ready"
    alive,    \* pids of the child processes that are running
    nextPid,  \* the pid the next spawned child gets
    loads     \* load requests so far

vars == <<eng, slot, alive, nextPid, loads>>

Fresh == [pc |-> "idle", port |-> FALSE, pid |-> 0, loaded |-> FALSE]

TypeOK ==
    /\ eng \in [Engines -> [pc : Steps, port : BOOLEAN, pid : 0..MaxLoads, loaded : BOOLEAN]]
    /\ slot \in [Engines -> {"empty", "loading", "ready"}]
    /\ alive \subseteq 1..MaxLoads
    /\ nextPid \in 1..MaxLoads + 1
    /\ loads \in 0..MaxLoads

Init ==
    /\ eng = [e \in Engines |-> Fresh]
    /\ slot = [e \in Engines |-> "empty"]
    /\ alive = {} /\ nextPid = 1 /\ loads = 0

(* ProcessManager::stop_process: idempotent on an exited child. *)
Stop(p) == alive \ {p}

(* unload() of the object in state s: the children still running after it. *)
UnloadAlive(s, e) ==
    IF Kind[e] = "sd"
    THEN IF s.pid /= 0 THEN Stop(s.pid) ELSE alive
    ELSE IF s.loaded /\ s.pid > 0 THEN Stop(s.pid) ELSE alive

(* The destructor: SDServer always calls unload(), RyzenAIServer only when *)
(* is_loaded_.  unload() itself returns early when is_loaded_ is false.    *)
Destroy(s, e) == UnloadAlive(s, e)

(* The step throws with the object in state s: the orchestrator drops it.  *)
Throw(e, s, survivors) ==
    /\ eng' = [eng EXCEPT ![e] = Fresh]
    /\ slot' = [slot EXCEPT ![e] = "empty"]
    /\ alive' = Destroy(s, e) \cap survivors

At(e, step) == eng[e].pc = step /\ slot[e] = "loading"
Goto(e, step) == eng' = [eng EXCEPT ![e].pc = step]

-----------------------------------------------------------------------------
(* Variant: no bound on load requests. *)
RequestLoadUnbounded(e) ==
    /\ slot[e] = "empty"
    /\ slot' = [slot EXCEPT ![e] = "loading"] /\ loads' = loads + 1
    /\ Goto(e, "install")
    /\ UNCHANGED <<alive, nextPid>>

(* The orchestrator loads a new engine object into an empty slot. *)
RequestLoad(e) ==
    /\ slot[e] = "empty" /\ loads < MaxLoads
    /\ slot' = [slot EXCEPT ![e] = "loading"] /\ loads' = loads + 1
    /\ Goto(e, "install")
    /\ UNCHANGED <<alive, nextPid>>

(* install(backend) / install_backend, and the executable and model path   *)
(* checks: each may throw before anything is started.                      *)
Install(e) ==
    /\ At(e, "install")
    /\ \/ Goto(e, "port") /\ UNCHANGED <<slot, alive>>
       \/ Throw(e, eng[e], alive)
    /\ UNCHANGED <<nextPid, loads>>

(* port_ = choose_port(): SDServer throws on 0, RyzenAIServer goes on.     *)
ChoosePort(e) ==
    /\ At(e, "port")
    /\ \E ok \in BOOLEAN :
         LET s == [eng[e] EXCEPT !.port = ok, !.pc = "spawn"] IN
         IF ~ok /\ Kind[e] = "sd" THEN Throw(e, s, alive)
         ELSE eng' = [eng EXCEPT ![e] = s] /\ UNCHANGED <<slot, alive>>
    /\ UNCHANGED <<nextPid, loads>>

(* process_handle_ = start_process(...): a new running child, or pid 0.     *)
(* SDServer throws on pid 0; RyzenAIServer checks is_running next.         *)
Spawn(e) ==
    /\ At(e, "spawn")
    /\ \E started \in BOOLEAN :
         LET pid == IF started THEN nextPid ELSE 0
             s   == [eng[e] EXCEPT !.pid = pid,
                                   !.pc = IF Kind[e] = "sd" THEN "wait" ELSE "check"]
             running == IF started THEN alive \cup {pid} ELSE alive
         IN  /\ nextPid' = IF started THEN nextPid + 1 ELSE nextPid
             /\ IF ~started /\ Kind[e] = "sd" THEN Throw(e, s, running)
                ELSE eng' = [eng EXCEPT ![e] = s] /\ alive' = running /\ UNCHANGED slot
    /\ UNCHANGED loads

(* RyzenAIServer: !is_running(process_handle_) throws, keeping the handle. *)
CheckRunning(e) ==
    /\ At(e, "check")
    /\ IF eng[e].pid \in alive THEN Goto(e, "wait") /\ UNCHANGED <<slot, alive>>
       ELSE Throw(e, eng[e], alive)
    /\ UNCHANGED <<nextPid, loads>>

(* wait_for_ready answers once the child listens on port_. *)
Ready(e) ==
    /\ At(e, "wait") /\ eng[e].pid \in alive /\ eng[e].port
    /\ eng' = [eng EXCEPT ![e].pc = "idle", ![e].loaded = (Kind[e] = "ryzen")]
    /\ slot' = [slot EXCEPT ![e] = "ready"]
    /\ UNCHANGED <<alive, nextPid, loads>>

(* Variant: the child is forgotten without being stopped. *)
NotReadyNoStop(e) ==
    /\ At(e, "wait")
    /\ Throw(e, [eng[e] EXCEPT !.pid = 0], alive)
    /\ UNCHANGED <<nextPid, loads>>

(* Variant: wait_for_ready without a deadline never gives up. *)
NotReadyNoDeadline(e) == FALSE

(* The readiness deadline passes: SDServer calls unload(), RyzenAIServer   *)
(* stops the child and resets the handle; both throw.                      *)
NotReady(e) ==
    /\ At(e, "wait")
    /\ Throw(e, [eng[e] EXCEPT !.pid = 0, !.port = IF Kind[e] = "sd" THEN FALSE ELSE @],
             Stop(eng[e].pid))
    /\ UNCHANGED <<nextPid, loads>>

(* The orchestrator unloads a ready engine and drops the object, whose    *)
(* destructor then finds nothing left to stop.                             *)
RequestUnload(e) ==
    /\ slot[e] = "ready"
    /\ alive' = UnloadAlive(eng[e], e)
    /\ eng' = [eng EXCEPT ![e] = Fresh]
    /\ slot' = [slot EXCEPT ![e] = "empty"]
    /\ UNCHANGED <<nextPid, loads>>

(* A child exits on its own: a crash, or a failure to bind its port. *)
ChildExits(p) ==
    /\ p \in alive
    /\ alive' = alive \ {p}
    /\ UNCHANGED <<eng, slot, nextPid, loads>>

-----------------------------------------------------------------------------
LoadStep(e) ==
    Install(e) \/ ChoosePort(e) \/ Spawn(e) \/ CheckRunning(e) \/ Ready(e) \/ NotReady(e)

Next ==
    \/ \E e \in Engines : RequestLoad(e) \/ RequestUnload(e) \/ LoadStep(e)
    \/ \E p \in alive : ChildExits(p)

(* A blocked load step always completes: the readiness wait has a deadline. *)
Fairness == \A e \in Engines : WF_vars(LoadStep(e))

Spec == Init /\ [][Next]_vars /\ Fairness

-----------------------------------------------------------------------------
(* No child process outlives its engine: every running child is the       *)
(* process_handle_ of an engine object, across spawn failures, children   *)
(* that exit before or after readiness, readiness timeouts, unloads and   *)
(* the destructors of dropped objects (spec 9: no leaked PID).            *)
NoOrphanChild == \A p \in alive : \E e \in Engines : eng[e].pid = p

(* Every load ends, ready or failed, also when the child dies before it   *)
(* answers (the readiness deadline, spec 5).  Not checked by a run:      *)
(* wait_for_ready is not in the repository, so the deadline is assumed.  *)
EveryLoadSettles == \A e \in Engines : slot[e] = "loading" ~> slot[e] /= "loading"

=============================================================================
