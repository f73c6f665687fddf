-------------------------- MODULE BackendManagerUI --------------------------
(***************************************************************************)
(* The Backend Manager panel (src/src/app/src/renderer/BackendManager.tsx) *)
(* over the SystemContext provider (src/unnamed/part_006, the useSystem    *)
(* hook).                                                                  *)
(*                                                                         *)
(* SystemContext holds systemInfo, isLoading and hasLoaded.  refresh()     *)
(* sets isLoading, awaits /system-info, stores the answer, awaits the     *)
(* system checks, sets hasLoaded, and clears isLoading in its finally.    *)
(* It runs on every backendsUpdated event, which installBackend and       *)
(* uninstallBackend dispatch on success, so several refreshes can be in   *)
(* flight and their answers can be applied in any order.                   *)
(*                                                                         *)
(* The panel is mounted while the left panel shows the backends view.     *)
(* Its mount effect calls ensureSystemInfoLoaded, and calls it again      *)
(* whenever that callback changes, i.e. whenever hasLoaded or isLoading   *)
(* changes.  Its installingBackends set disables a row's install button   *)
(* while that row's install runs; the set is the panel's local state and  *)
(* starts empty on every mount.                                            *)
(*                                                                         *)
(* A backend's state is "installed" or "installable"; the server answers  *)
(* /system-info from its recipes cache, taken here to agree with the disk *)
(* (RecipesCache checks that separately).  installBackend is one step     *)
(* that settles (ProgressStream models its stream).                        *)
(*                                                                         *)
(* The panel also looks up, on the GitHub Releases API, the download size *)
(* of backends whose size the server does not give.  That effect depends  *)
(* on [backendAssetSizes, recipes]: it runs again whenever system info is *)
(* stored and whenever it stores sizes itself, and its cleanup cancels    *)
(* the lookup in flight (a cancelled lookup's answer is discarded, so it  *)
(* is dropped at once here).                                               *)
(***************************************************************************)
EXTENDS Naturals, FiniteSets

CONSTANTS
    Keys,        \* "recipe:backend" keys of the supported backends
    NoInfo,      \* systemInfo before the first answer
    MaxOps,      \* handler invocations and refreshes in flight
    MaxClicks,   \* user actions in one behaviour
    MaxFailures, \* failed requests in one behaviour
    GithubSized  \* keys whose size only the GitHub release gives

ASSUME MaxOps \in Nat \ {0} /\ MaxClicks \in Nat /\ MaxFailures \in Nat
       /\ GithubSized \subseteq Keys

Slots  == 1..MaxOps
States == {"installed", "installable"}
Pcs    == {"free", "info", "served", "checks", "install", "confirm", "uninstall"}

VARIABLES
    disk,        \* server: disk[k]
    systemInfo,  \* SystemContext: the recipes of the last stored answer
    isLoading,   \* SystemContext: isLoading
    hasLoaded,   \* SystemContext: hasLoaded
    mounted,     \* the backends view is shown
    effectDue,   \* the panel's ensureSystemInfoLoaded effect has to run
    installing,  \* the panel's installingBackends
    resumable,   \* Download Manager entries that offer resume or retry
    ops,         \* ops[i]: the invocation in slot i
    clicks,      \* user actions so far
    failures,    \* failed requests so far
    sizes,       \* the panel's backendAssetSizes: keys with a known size
    lookup,      \* keys the live GitHub lookup asks for, {} when none
    sizesObj     \* flips with each setBackendAssetSizes: a new object

vars == <<disk, systemInfo, isLoading, hasLoaded, mounted, effectDue,
          installing, resumable, ops, clicks, failures, sizes, lookup, sizesObj>>
assets == <<sizes, lookup, sizesObj>>

Free == [pc |-> "free", k |-> CHOOSE k \in Keys : TRUE,
         snap |-> NoInfo, panel |-> FALSE]
Op == [pc : Pcs, k : Keys, snap : [Keys -> States] \cup {NoInfo},
       panel : BOOLEAN]

TypeOK ==
    /\ disk \in [Keys -> States]
    /\ systemInfo \in [Keys -> States] \cup {NoInfo}
    /\ isLoading \in BOOLEAN /\ hasLoaded \in BOOLEAN
    /\ mounted \in BOOLEAN /\ effectDue \in BOOLEAN
    /\ installing \subseteq Keys /\ resumable \subseteq Keys
    /\ ops \in [Slots -> Op]
    /\ clicks \in 0..MaxClicks /\ failures \in 0..MaxFailures
    /\ sizes \subseteq GithubSized /\ lookup \subseteq GithubSized
    /\ sizesObj \in BOOLEAN

(* No system info is fetched at startup; the app opens on another view. *)
Init ==
    /\ disk \in [Keys -> States]
    /\ systemInfo = NoInfo
    /\ isLoading = FALSE /\ hasLoaded = FALSE
    /\ mounted = FALSE /\ effectDue = FALSE
    /\ installing = {} /\ resumable = {}
    /\ ops = [i \in Slots |-> Free]
    /\ clicks = 0 /\ failures = 0
    /\ sizes = {} /\ lookup = {} /\ sizesObj = FALSE

-----------------------------------------------------------------------------
(* Variant: the effect runs only on mount. *)
SetFlagsMountOnly(loading, loadedFlag) ==
    /\ isLoading' = loading
    /\ hasLoaded' = loadedFlag
    /\ UNCHANGED effectDue

(* SystemContext's two flags change; a change of either gives a new        *)
(* ensureSystemInfoLoaded, which re-runs the mounted panel's effect.       *)
SetFlags(loading, loadedFlag) ==
    /\ isLoading' = loading
    /\ hasLoaded' = loadedFlag
    /\ effectDue' = (effectDue \/ (mounted /\ (loading /= isLoading
                                               \/ loadedFlag /= hasLoaded)))

(* refresh(): setIsLoading(true) and the /system-info request, in slot i. *)
StartRefresh(i) ==
    /\ ops' = [ops EXCEPT ![i] = [Free EXCEPT !.pc = "info"]]
    /\ SetFlags(TRUE, hasLoaded)

(* The backendsUpdated listener calls refresh(); the refresh takes over    *)
(* the slot of the call that dispatched the event.                         *)
BackendsUpdated(i) == StartRefresh(i)

(* The panel's row: it renders only once recipes are known and no refresh *)
(* is loading, and offers install or uninstall by the shown state.        *)
Visible == mounted /\ ~isLoading /\ systemInfo /= NoInfo
ShowsInstall(k)   == Visible /\ systemInfo[k] = "installable"
InstallEnabled(k) == ShowsInstall(k) /\ k \notin installing
ShowsUninstall(k) == Visible /\ systemInfo[k] = "installed"

(* Variant: no bound on user actions. *)
StartUnbounded(op) ==
    /\ \E i \in Slots : ops[i].pc = "free" /\ ops' = [ops EXCEPT ![i] = op]
    /\ clicks' = clicks + 1

(* A user action starts an invocation in a free slot. *)
Start(op) ==
    /\ clicks < MaxClicks
    /\ \E i \in Slots : ops[i].pc = "free" /\ ops' = [ops EXCEPT ![i] = op]
    /\ clicks' = clicks + 1

-----------------------------------------------------------------------------
(* refresh(), after fetchSystemInfoData: the server answers from its state *)
(* when it serves the request, or the request fails and refresh's catch   *)
(* and finally run.                                                        *)
InfoServed(i) ==
    /\ ops[i].pc = "info"
    /\ \/ /\ ops' = [ops EXCEPT ![i].pc = "served", ![i].snap = disk]
          /\ UNCHANGED <<isLoading, hasLoaded, effectDue, failures>>
       \/ /\ failures < MaxFailures
          /\ failures' = failures + 1
          /\ ops' = [ops EXCEPT ![i] = Free]
          /\ SetFlags(FALSE, hasLoaded)
    /\ UNCHANGED <<disk, systemInfo, mounted, installing, resumable, clicks>>
    /\ UNCHANGED assets

(* Variant: the lookup asks again for sizes it already has. *)
SizeEffectNoCache(on, info, known) ==
    lookup' = IF ~on \/ info = NoInfo THEN {} ELSE GithubSized

(* The asset-size effect, run after a render that changed recipes or      *)
(* backendAssetSizes: it returns without recipes, collects the backends   *)
(* whose size neither the server nor backendAssetSizes has, and returns   *)
(* if there are none; otherwise it starts the lookup.  The cleanup of the *)
(* previous run has cancelled the lookup in flight.                       *)
SizeEffect(on, info, known) ==
    lookup' = IF ~on \/ info = NoInfo THEN {} ELSE GithubSized \ known

(* setSystemInfo(data.info), then the fetchSystemChecks request.  The new *)
(* recipes object re-runs the mounted panel's asset-size effect.           *)
InfoApplied(i) ==
    /\ ops[i].pc = "served"
    /\ systemInfo' = ops[i].snap
    /\ ops' = [ops EXCEPT ![i].pc = "checks"]
    /\ SizeEffect(mounted, ops[i].snap, sizes)
    /\ UNCHANGED <<disk, isLoading, hasLoaded, mounted, effectDue, installing,
                   resumable, clicks, failures, sizes, sizesObj>>

(* The GitHub lookups settle (Promise.all): the sizes found are those of  *)
(* releases that answered and list the file; a failure is swallowed.  If  *)
(* none is found nothing is stored; otherwise they are merged into        *)
(* a new backendAssetSizes object, which re-runs the effect.             *)
SizeAnswer ==
    /\ lookup /= {}
    /\ \E found \in SUBSET lookup :
         IF found = {} THEN lookup' = {} /\ UNCHANGED <<sizes, sizesObj>>
         ELSE /\ sizes' = sizes \cup found
              /\ sizesObj' = ~sizesObj
              /\ SizeEffect(TRUE, systemInfo, sizes \cup found)
    /\ UNCHANGED <<disk, systemInfo, isLoading, hasLoaded, mounted, effectDue,
                   installing, resumable, ops, clicks, failures>>

(* getBackendSizeLabel for a key whose size only GitHub gives. *)
SizeLabel(k) == IF k \in sizes THEN "MB" ELSE "..."

(* fetchSystemChecks settles: setHasLoaded(true) on success; the finally   *)
(* clears isLoading either way.                                            *)
ChecksSettle(i) ==
    /\ ops[i].pc = "checks"
    /\ \/ SetFlags(FALSE, TRUE) /\ UNCHANGED failures
       \/ failures < MaxFailures /\ failures' = failures + 1
          /\ SetFlags(FALSE, hasLoaded)
    /\ ops' = [ops EXCEPT ![i] = Free]
    /\ UNCHANGED <<disk, systemInfo, mounted, installing, resumable, clicks>>
    /\ UNCHANGED assets

(* The panel's effect: ensureSystemInfoLoaded refreshes unless system info *)
(* has been loaded or is loading.                                          *)
EnsureEffect ==
    /\ mounted /\ effectDue
    /\ IF ~hasLoaded /\ ~isLoading
       THEN \E i \in Slots :
              /\ ops[i].pc = "free"
              /\ ops' = [ops EXCEPT ![i] = [Free EXCEPT !.pc = "info"]]
              /\ isLoading' = TRUE /\ UNCHANGED hasLoaded
       ELSE UNCHANGED <<ops, isLoading, hasLoaded>>
    /\ effectDue' = FALSE
    /\ UNCHANGED <<disk, systemInfo, mounted, installing, resumable, clicks,
                   failures>>
    /\ UNCHANGED assets

-----------------------------------------------------------------------------
(* The user switches the left panel to or away from the backends view.    *)
(* Mounting starts with an empty installingBackends and runs the effect;  *)
(* unmounting detaches the running handlers from the panel's state.       *)
(* backendAssetSizes starts empty; the asset-size effect runs on mount,   *)
(* and its cleanup cancels the lookup on unmount.                          *)
SwitchView ==
    /\ clicks < MaxClicks
    /\ clicks' = clicks + 1
    /\ mounted' = ~mounted
    /\ installing' = {}
    /\ effectDue' = ~mounted
    /\ ops' = [i \in Slots |-> [ops[i] EXCEPT !.panel = FALSE]]
    /\ sizes' = {} /\ sizesObj' = FALSE
    /\ SizeEffect(~mounted, systemInfo, {})
    /\ UNCHANGED <<disk, systemInfo, isLoading, hasLoaded, resumable, failures>>

(* handleInstallBackend: add the key to installingBackends, then           *)
(* installBackend.                                                         *)
InstallClick(k) ==
    /\ InstallEnabled(k)
    /\ Start([Free EXCEPT !.pc = "install", !.k = k, !.panel = TRUE])
    /\ installing' = installing \cup {k}
    /\ UNCHANGED <<disk, systemInfo, isLoading, hasLoaded, mounted, effectDue,
                   resumable, failures>>
    /\ UNCHANGED assets

(* The Download Manager's resume or retry of a backend entry: the         *)
(* download:resume listener calls installBackend directly.                *)
ResumeInstall(k) ==
    /\ k \in resumable
    /\ Start([Free EXCEPT !.pc = "install", !.k = k])
    /\ resumable' = resumable \ {k}
    /\ UNCHANGED <<disk, systemInfo, isLoading, hasLoaded, mounted, effectDue,
                   installing, failures>>
    /\ UNCHANGED assets

(* Variant: the finally block only runs on success. *)
InstallSettlesNoFinally(i) ==
    /\ ops[i].pc = "install"
    /\ LET k == ops[i].k IN
       \/ /\ installing' = IF ops[i].panel THEN installing \ {k} ELSE installing
          /\ disk' = [disk EXCEPT ![k] = "installed"]
          /\ BackendsUpdated(i)
          /\ UNCHANGED resumable
       \/ /\ resumable' \in {resumable \cup {k}, resumable \ {k}}
          /\ ops' = [ops EXCEPT ![i] = Free]
          /\ UNCHANGED <<disk, isLoading, hasLoaded, effectDue, installing>>
    /\ UNCHANGED <<systemInfo, mounted, clicks, failures>>
    /\ UNCHANGED assets

(* installBackend settles.  On success the backend is installed and       *)
(* backendsUpdated starts a refresh; on a pause or an error the Download  *)
(* Manager keeps a resumable entry; a cancel removes it.  The handler's   *)
(* finally clears the key, in the panel instance that started it.         *)
InstallSettles(i) ==
    /\ ops[i].pc = "install"
    /\ LET k == ops[i].k IN
       /\ installing' = IF ops[i].panel THEN installing \ {k} ELSE installing
       /\ \/ /\ disk' = [disk EXCEPT ![k] = "installed"]
             /\ BackendsUpdated(i)
             /\ UNCHANGED resumable
          \/ /\ resumable' \in {resumable \cup {k}, resumable \ {k}}
             /\ ops' = [ops EXCEPT ![i] = Free]
             /\ UNCHANGED <<disk, isLoading, hasLoaded, effectDue>>
    /\ UNCHANGED <<systemInfo, mounted, clicks, failures>>
    /\ UNCHANGED assets

(* handleUninstallBackend: await the confirm dialog. *)
UninstallClick(k) ==
    /\ ShowsUninstall(k)
    /\ Start([Free EXCEPT !.pc = "confirm", !.k = k, !.panel = TRUE])
    /\ UNCHANGED <<disk, systemInfo, isLoading, hasLoaded, mounted, effectDue,
                   installing, resumable, failures>>
    /\ UNCHANGED assets

(* The dialog closes: uninstallBackend on confirm, return on cancel. *)
Confirm(i) ==
    /\ ops[i].pc = "confirm"
    /\ \/ ops' = [ops EXCEPT ![i].pc = "uninstall"]
       \/ ops' = [ops EXCEPT ![i] = Free]
    /\ UNCHANGED <<disk, systemInfo, isLoading, hasLoaded, mounted, effectDue,
                   installing, resumable, clicks, failures>>
    /\ UNCHANGED assets

(* uninstallBackend: POST /uninstall; backendsUpdated only when ok. *)
UninstallResponds(i) ==
    /\ ops[i].pc = "uninstall"
    /\ \/ /\ disk' = [disk EXCEPT ![ops[i].k] = "installable"]
          /\ BackendsUpdated(i)
          /\ UNCHANGED failures
       \/ /\ failures < MaxFailures /\ failures' = failures + 1
          /\ ops' = [ops EXCEPT ![i] = Free]
          /\ UNCHANGED <<disk, isLoading, hasLoaded, effectDue>>
    /\ UNCHANGED <<systemInfo, mounted, installing, resumable, clicks>>
    /\ UNCHANGED assets

-----------------------------------------------------------------------------
(* The confirm dialog is modal: no other user action while it is open. *)
UserStep ==
    /\ \A i \in Slots : ops[i].pc /= "confirm"
    /\ \/ SwitchView
       \/ \E k \in Keys : InstallClick(k) \/ ResumeInstall(k) \/ UninstallClick(k)

SystemStep(i) ==
    \/ InfoServed(i) \/ InfoApplied(i) \/ ChecksSettle(i)
    \/ InstallSettles(i) \/ Confirm(i) \/ UninstallResponds(i)

Next == UserStep \/ EnsureEffect \/ SizeAnswer \/ \E i \in Slots : SystemStep(i)

(* Every await settles and React runs a due effect; the user may stop. *)
Fairness == WF_vars(EnsureEffect) /\ WF_vars(SizeAnswer)
            /\ \A i \in Slots : WF_vars(SystemStep(i))

Spec == Init /\ [][Next]_vars /\ Fairness

-----------------------------------------------------------------------------
(* Running installs started from the current panel instance. *)
PanelInstalls == {ops[i].k : i \in {j \in Slots : ops[j].pc = "install" /\ ops[j].panel}}

(* installingBackends is exactly the set of keys with an install running   *)
(* from this mount of the panel: a row's install button is disabled, and  *)
(* shows its spinner, while and only while its own install runs, across   *)
(* remounts, failures, pauses and cancels.                                 *)
InstallingMatchesRunning == installing = PanelInstalls

(* Once the backends view is open, the panel gets past "Loading           *)
(* backends..." (system info loaded, no refresh loading) or is closed,    *)
(* even when a /system-info or system-checks request fails: the effect    *)
(* re-runs when isLoading falls back to false and retries.                 *)
BackendsEventuallyShown == mounted ~> (~mounted \/ (hasLoaded /\ ~isLoading))

(* Spec 5 (updates visible to the next /system-info read): once the user   *)
(* stops, the backend states the panel shows settle on the server's.       *)
ViewConverges == <>[](systemInfo /= NoInfo => systemInfo = disk)

(* The asset-size effect, which depends on the backendAssetSizes it       *)
(* writes, stops looking sizes up: after the user stops, no GitHub lookup *)
(* is in flight, however the answers, system-info refreshes and remounts  *)
(* interleave (each re-run asks only for sizes still unknown).            *)
SizeLookupsStop == <>[](lookup = {})

(* While the backends view stays open with its rows shown, every size     *)
(* label eventually leaves "...".  Not checked by a run: a lookup that    *)
(* fails is not retried until something else re-runs the effect.          *)
SizeEventuallyShown ==
    \A k \in GithubSized : Visible ~> (~mounted \/ SizeLabel(k) = "MB")

=============================================================================
