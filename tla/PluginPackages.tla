---------------------------- MODULE PluginPackages ----------------------------
(***************************************************************************)
(* Plugin packages and their activation (plugins/manager.go, package.go,   *)
(* catalog.go, core/plugin_registry.go and the loading half of             *)
(* core/controller.go): immutable releases on disk, discovery, what the    *)
(* configuration enables, and what was activated when RunPilot started.    *)
(***************************************************************************)
EXTENDS Naturals, FiniteSets, FiniteSetsExt

CONSTANTS
  Ids,            \* plugins
  Versions,       \* version numbers, in their order
  Incompatible,   \* versions this host cannot run
  WithBackend,    \* plugins that have a backend
  Fixture,        \* releases [id, version] that an old RunPilot installed by itself
  MaxRetired      \* bound: uninstalls between two starts

PackagesAssumption ==
  /\ Versions \subseteq Nat \ {0} /\ Incompatible \subseteq Versions /\ WithBackend \subseteq Ids
  /\ Fixture \subseteq [id : Ids, version : Versions] /\ IsFiniteSet(Fixture) /\ MaxRetired \in Nat

VARIABLES
  state,          \* down, opening (before discovery), up, uninstalling (configuration saved)
  going,          \* the plugin being uninstalled
  releases,       \* on disk: the versions below plugins/<id>/releases
  retired,        \* on disk: the .removed- directories
  enabled,        \* on disk: what the configuration enables
  plugins,        \* Manager.plugins: version and failure message of what was discovered
  live,           \* Manager.active: version and directory of what was activated
  runtimes,       \* Controller.runtimes
  restart,        \* Manager.restartRequired
  torn            \* plugins whose last uninstall returned an error

pkgDisk == <<releases, retired, enabled>>
pkgMemory == <<plugins, live, runtimes, restart>>
pkgVars == <<state, going, pkgDisk, pkgMemory, torn>>

Unknown == [version |-> 0, failed |-> FALSE]
Inactive == [version |-> 0, dir |-> 0]
InReleases == 0                 \* a directory: the releases, or the n-th retired one

Init ==
  /\ state = "down" /\ going = {} /\ retired = {} /\ torn = {} /\ restart = FALSE
  /\ releases = [id \in Ids |-> {f.version : f \in {g \in Fixture : g.id = id}}]
  /\ enabled \in [Ids -> BOOLEAN] /\ \A id \in Ids : enabled[id] => releases[id] # {}
  /\ plugins = [id \in Ids |-> Unknown] /\ live = [id \in Ids |-> Inactive] /\ runtimes = {}

-----------------------------------------------------------------------------
(* Discovery and activation. *)

\* Reload: the newest release; a message stays with its version.
Discovered(disk) ==
  [id \in Ids |->
    IF disk[id] = {} THEN Unknown
    ELSE [version |-> Max(disk[id]),
          failed |-> plugins[id].version = Max(disk[id]) /\ plugins[id].failed]]

SweptAlways(frozen) == {}

\* Before activation Reload removes what earlier uninstalls left.
Swept(frozen) == IF frozen THEN retired ELSE {}

\* CleanupObsoleteSystemFixture, before the configuration is told.
Open ==
  /\ state = "down" /\ state' = "opening"
  /\ releases' = [id \in Ids |-> releases[id] \ {f.version : f \in {g \in Fixture : g.id = id}}]
  /\ going' = {id \in Ids : releases'[id] # releases[id]}
  /\ UNCHANGED <<retired, enabled, pkgMemory, torn>>

Activatable(id) == enabled'[id] /\ plugins'[id].version \notin {0} \cup Incompatible

\* LoadRuntime of every enabled plugin, SetFailure, then FreezeActivation.
Activate(failing) ==
  /\ failing \subseteq {id \in WithBackend : Activatable(id)}
  /\ runtimes' = {id \in WithBackend : Activatable(id)} \ failing
  /\ live' = [id \in Ids |-> IF Activatable(id) /\ id \notin failing
                THEN [version |-> plugins'[id].version, dir |-> InReleases] ELSE Inactive]

\* The rest of Open: a removed fixture is disabled, packages are discovered.
Load ==
  /\ state = "opening" /\ state' = "up" /\ going' = {} /\ restart' = FALSE /\ torn' = {}
  /\ enabled' = [id \in Ids |-> enabled[id] /\ id \notin going]
  /\ \E failing \in SUBSET Ids :
       /\ plugins' = [id \in Ids |-> [Discovered(releases)[id] EXCEPT !.failed = id \in failing]]
       /\ Activate(failing)
  /\ retired' = Swept(FALSE) /\ UNCHANGED releases

\* Controller.Close at a restart, or a crash in the middle of anything.
Exit ==
  /\ state # "down" /\ state' = "down" /\ going' = {} /\ restart' = FALSE /\ torn' = {}
  /\ plugins' = [id \in Ids |-> Unknown] /\ live' = [id \in Ids |-> Inactive] /\ runtimes' = {}
  /\ UNCHANGED pkgDisk

-----------------------------------------------------------------------------
(* Operations, under pluginMu. *)

Rescan ==
  /\ state = "up" /\ plugins' = Discovered(releases) /\ retired' = Swept(TRUE) /\ restart' = TRUE
  /\ UNCHANGED <<state, going, releases, enabled, live, runtimes, torn>>

\* installPackage: a rename puts the whole release there; one that exists is kept.
InstallPackage(id, v) == releases' = [releases EXCEPT ![id] = @ \cup {v}]

InstallSilently(id, v) ==
  /\ state = "up" /\ v > plugins[id].version /\ v \notin Incompatible
  /\ InstallPackage(id, v)
  /\ plugins' = Discovered(releases') /\ retired' = Swept(TRUE)
  /\ UNCHANGED <<state, going, enabled, live, runtimes, restart, torn>>

\* InstallCatalogPlugin: only what is newer and runs here.
Install(id, v) ==
  /\ state = "up" /\ v > plugins[id].version /\ v \notin Incompatible
  /\ InstallPackage(id, v)
  /\ plugins' = Discovered(releases') /\ retired' = Swept(TRUE) /\ restart' = TRUE
  /\ UNCHANGED <<state, going, enabled, live, runtimes, torn>>

SetEnabled(id, value) ==
  /\ state = "up" /\ plugins[id] # Unknown
  /\ value => plugins[id].version \notin Incompatible
  /\ enabled' = [enabled EXCEPT ![id] = value] /\ restart' = TRUE
  /\ UNCHANGED <<state, going, releases, retired, plugins, live, runtimes, torn>>

\* UninstallPlugin: the configuration first, then Manager.Uninstall.
Disable(id) ==
  /\ state = "up" /\ plugins[id] # Unknown /\ state' = "uninstalling" /\ going' = {id}
  /\ enabled' = [enabled EXCEPT ![id] = FALSE]
  /\ UNCHANGED <<releases, retired, pkgMemory, torn>>

Batches == Cardinality(retired)

\* The rename into a retired directory of its own.
Moved(id, n) ==
  /\ n <= MaxRetired
  /\ retired' = retired \cup {[n |-> n, id |-> id, versions |-> releases[id]]}
  /\ releases' = [releases EXCEPT ![id] = {}]

Uninstall(id) ==
  /\ state = "uninstalling" /\ going = {id} /\ state' = "up" /\ going' = {}
  /\ Moved(id, Batches + 1)
  /\ live' = [live EXCEPT ![id] = IF @ = Inactive THEN @ ELSE [@ EXCEPT !.dir = Batches + 1]]
  /\ plugins' = [plugins EXCEPT ![id] = Unknown] /\ restart' = TRUE /\ torn' = torn \ {id}
  /\ UNCHANGED <<enabled, runtimes>>

\* It fails before the rename, or after it when the empty releases cannot be made.
UninstallFails(id) ==
  /\ state = "uninstalling" /\ going = {id} /\ state' = "up" /\ going' = {} /\ torn' = torn \cup {id}
  /\ UNCHANGED <<releases, retired>> \/ Moved(id, Batches + 1)
  /\ UNCHANGED <<enabled, pkgMemory>>

\* A release that an administrator unpacks there; a rescan will find it.
Drop(id, v) ==
  /\ v \notin releases[id] /\ InstallPackage(id, v)
  /\ UNCHANGED <<state, going, retired, enabled, pkgMemory, torn>>

Next ==
  \/ Open \/ Load \/ Exit \/ Rescan
  \/ \E id \in Ids :
       \/ \E v \in Versions : Install(id, v) \/ Drop(id, v)
       \/ \E value \in BOOLEAN : SetEnabled(id, value)
       \/ Disable(id) \/ Uninstall(id) \/ UninstallFails(id)

Spec == Init /\ [][Next]_pkgVars

-----------------------------------------------------------------------------
TypeOK ==
  /\ state \in {"down", "opening", "up", "uninstalling"} /\ going \in SUBSET Ids
  /\ releases \in [Ids -> SUBSET Versions] /\ enabled \in [Ids -> BOOLEAN]
  /\ retired \subseteq [n : 1..MaxRetired, id : Ids, versions : SUBSET Versions]
  /\ plugins \in [Ids -> [version : {0} \cup Versions, failed : BOOLEAN]]
  /\ live \in [Ids -> [version : {0} \cup Versions, dir : 0..MaxRetired]]
  /\ runtimes \subseteq WithBackend /\ restart \in BOOLEAN /\ torn \subseteq Ids

\* What a directory holds of a plugin.
Held(id, dir) ==
  IF dir = InReleases THEN releases[id]
  ELSE UNION {batch.versions : batch \in {b \in retired : b.n = dir /\ b.id = id}}

\* The files of a plugin that was activated stay on disk until the next start,
\* through uninstalls, new installs and rescans (Reload's sweep, Uninstall).
FilesKept ==
  \A id \in Ids : live[id] # Inactive => \E dir \in 0..MaxRetired : live[id].version \in Held(id, dir)

\* A restart is announced as soon as it would activate something else than what
\* is active, unless an uninstall of the plugin failed (SetRestartRequired).
RestartTold ==
  state = "up" /\ ~restart =>
    \A id \in Ids \ torn :
      LET runs == enabled[id] /\ plugins[id].version \notin {0} \cup Incompatible /\ ~plugins[id].failed
      IN live[id].version = IF runs THEN plugins[id].version ELSE 0

\* What runs keeps its files, and what would run after a restart is told
\* (Uninstall, Reload, SetRestartRequired).
PackagesKept == FilesKept /\ RestartTold
=============================================================================
