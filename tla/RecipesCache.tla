---------------------------- MODULE RecipesCache ----------------------------
(***************************************************************************)
(* BackendManager's recipes cache (src/src/cpp/server/backend_manager.cpp) *)
(* against the install directories on disk, under HTTP handler threads     *)
(* that run /install, /uninstall and the first /system-info concurrently.  *)
(*                                                                         *)
(* install_backend = install_from_github (download, extract, drop older    *)
(*   versions) then update_recipes_cache_entry(.., true);                  *)
(* uninstall_backend = remove_all with retries then                        *)
(*   update_recipes_cache_entry(.., false);                                *)
(* the first /system-info probes every backend and set_recipes_cache()s    *)
(* the result; until then targeted updates are dropped.                    *)
(* Only the cache mutex serialises anything: the I/O of one request and    *)
(* the cache update that follows it are two steps.                         *)
(***************************************************************************)
EXTENDS Naturals

CONSTANTS
    Backends,       \* (recipe, backend) pairs of the spec table
    Unsupported,    \* pairs whose OS-support predicate rejects this host
    Threads,        \* HTTP handler threads
    MaxRequests,    \* requests handled in one behaviour
    RemoveCanFail,  \* remove_all can still fail after its 5 attempts
    StartPopulated, \* the first /system-info has already been answered
    Empty           \* the cache before set_recipes_cache (model value)

ASSUME Unsupported \subseteq Backends /\ MaxRequests \in Nat
ASSUME RemoveCanFail \in BOOLEAN /\ StartPopulated \in BOOLEAN

VARIABLES
    disk,      \* disk[b]: "none" | "old" | "req" | "partial"
    cache,     \* Empty, or cache[b]: the "state" field of the entry
    thread,    \* thread[t]: the request t is in the middle of
    snapshot,  \* snapshot[t]: statuses probed by a /system-info thread
    requests   \* requests started so far

vars == <<disk, cache, thread, snapshot, requests>>

(* "req": the required version is extracted; "old": an older version is;   *)
(* "partial": the directory is there but the executable is gone.           *)
DiskStates  == {"none", "old", "req", "partial"}
CacheStates == {"installed", "installable", "update_required", "unsupported"}
Idle == [op |-> "none", b |-> CHOOSE b \in Backends : TRUE]

TypeOK ==
    /\ disk \in [Backends -> DiskStates]
    /\ cache \in {Empty} \cup [Backends -> CacheStates]
    /\ thread \in [Threads -> [op : {"none", "install", "uninstall", "populate"},
                              b : Backends]]
    /\ snapshot \in [Threads -> {Empty} \cup [Backends -> CacheStates]]
    /\ requests \in 0..MaxRequests

(* Spec 4.3 state computation (SystemInfo::get_all_recipe_statuses). *)
StatusOf(b, d) ==
    IF b \in Unsupported THEN "unsupported"
    ELSE CASE d = "req" -> "installed"
           [] d = "old" -> "update_required"
           [] d \in {"none", "partial"} -> "installable"

Probe == [b \in Backends |-> StatusOf(b, disk[b])]

(* Variants: the installed flag ignored; the unsupported guard dropped. *)
UpdateEntryAlwaysInstalled(c, b, installed) ==
    IF c = Empty \/ c[b] = "unsupported" THEN c
    ELSE [c EXCEPT ![b] = "installed"]

UpdateEntrySwapped(c, b, installed) ==
    IF c = Empty \/ c[b] = "unsupported" THEN c
    ELSE [c EXCEPT ![b] = IF installed THEN "installable" ELSE "installed"]

UpdateEntryNoUnsupportedGuard(c, b, installed) ==
    IF c = Empty THEN c
    ELSE [c EXCEPT ![b] = IF installed THEN "installed" ELSE "installable"]

(* update_recipes_cache_entry: only the one entry, never an unsupported    *)
(* one's state, nothing before the cache is populated.                     *)
UpdateEntry(c, b, installed) ==
    IF c = Empty \/ c[b] = "unsupported" THEN c
    ELSE [c EXCEPT ![b] = IF installed THEN "installed" ELSE "installable"]

(* A server starts with whatever install directories earlier runs left;   *)
(* the cache is empty until the first /system-info has been answered.     *)
Init ==
    /\ disk \in {d \in [Backends -> {"none", "old", "req"}] :
                    \A b \in Unsupported : d[b] = "none"}
    /\ cache = IF StartPopulated THEN Probe ELSE Empty
    /\ thread = [t \in Threads |-> Idle]
    /\ snapshot = [t \in Threads |-> Empty]
    /\ requests = 0

(* Variant: the request bound not checked. *)
BeginUnbounded(t) == thread[t].op = "none"

Begin(t) == thread[t].op = "none" /\ requests < MaxRequests
Step(t, op, b) == thread' = [thread EXCEPT ![t] = [op |-> op, b |-> b]]
Done(t) == thread' = [thread EXCEPT ![t] = Idle]

-----------------------------------------------------------------------------
(* install_backend, first part: install_from_github.  A failed download or *)
(* extraction leaves the directories as they were and throws; success      *)
(* leaves exactly the required version (no-op if it is already there).     *)
InstallFromGithub(t, b) ==
    /\ Begin(t)
    /\ requests' = requests + 1
    /\ \/ disk' = [disk EXCEPT ![b] = "req"] /\ Step(t, "install", b)
       \/ UNCHANGED <<disk, thread>>
    /\ UNCHANGED <<cache, snapshot>>

(* install_backend, second part: the cache update under the mutex. *)
InstallUpdateCache(t) ==
    /\ thread[t].op = "install"
    /\ cache' = UpdateEntry(cache, thread[t].b, TRUE)
    /\ Done(t)
    /\ UNCHANGED <<disk, snapshot, requests>>

(* uninstall_backend, first part: remove_all, retried 5 times.  If the     *)
(* directory still exists afterwards it throws, possibly having deleted    *)
(* part of it (the executable among them).                                 *)
UninstallRemove(t, b) ==
    /\ Begin(t)
    /\ requests' = requests + 1
    /\ \/ disk' = [disk EXCEPT ![b] = "none"] /\ Step(t, "uninstall", b)
       \/ /\ RemoveCanFail /\ disk[b] /= "none"
          /\ \E d \in {disk[b], "partial"} : disk' = [disk EXCEPT ![b] = d]
          /\ UNCHANGED thread
    /\ UNCHANGED <<cache, snapshot>>

UninstallUpdateCache(t) ==
    /\ thread[t].op = "uninstall"
    /\ cache' = UpdateEntry(cache, thread[t].b, FALSE)
    /\ Done(t)
    /\ UNCHANGED <<disk, snapshot, requests>>

(* First /system-info: the cache is empty, so probe every backend ...      *)
SystemInfoProbe(t) ==
    /\ Begin(t) /\ cache = Empty
    /\ requests' = requests + 1
    /\ snapshot' = [snapshot EXCEPT ![t] = Probe]
    /\ Step(t, "populate", Idle.b)
    /\ UNCHANGED <<disk, cache>>

(* ... and store the result with set_recipes_cache. *)
SetRecipesCache(t) ==
    /\ thread[t].op = "populate"
    /\ cache' = snapshot[t]
    /\ snapshot' = [snapshot EXCEPT ![t] = Empty]
    /\ Done(t)
    /\ UNCHANGED <<disk, requests>>

Next ==
    \E t \in Threads :
        \/ \E b \in Backends : InstallFromGithub(t, b)
        \/ InstallUpdateCache(t)
        \/ \E b \in Backends : UninstallRemove(t, b)
        \/ UninstallUpdateCache(t)
        \/ SystemInfoProbe(t)
        \/ SetRecipesCache(t)

Spec == Init /\ [][Next]_vars

-----------------------------------------------------------------------------
(* Properties *)

Quiescent == \A t \in Threads : thread[t].op = "none"

(* Spec 8: an entry the cache reports as installed has the required        *)
(* version's executable on disk.  Checked for every pair no install or     *)
(* uninstall is working on (between its disk I/O and its cache update a    *)
(* request necessarily disagrees with the disk).                           *)
InFlight(b) == \E t \in Threads : thread[t].op \in {"install", "uninstall"} /\ thread[t].b = b

CacheInstalledHasExe ==
    cache /= Empty =>
        \A b \in Backends :
            (cache[b] = "installed" /\ ~InFlight(b)) => disk[b] = "req"

(* /system-info never hides a usable backend: an entry that offers an      *)
(* install or an update, and that no request is working on, has no         *)
(* required-version executable on disk.  Unlike CacheInstalledHasExe this  *)
(* is meant to survive a remove_all that fails part-way (the cache then    *)
(* errs toward "installed", never toward "installable").                   *)
CacheNeverHidesInstalled ==
    cache /= Empty =>
        \A b \in Backends :
            (cache[b] \in {"installable", "update_required"} /\ ~InFlight(b))
                => disk[b] /= "req"

(* Spec 5: updates made by install/uninstall are visible to the next       *)
(* /system-info read.  Once no request is in flight, every populated entry *)
(* says what a fresh probe of the disk would say.                          *)
QuiescentCacheCoherent ==
    (Quiescent /\ cache /= Empty) => cache = Probe

=============================================================================
