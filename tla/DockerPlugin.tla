------------------------------ MODULE DockerPlugin ------------------------------
(* The Docker plugin (plugins/docker/backend) with the migration of legacy     *)
(* Compose projects that runs before the plugins are loaded                    *)
(* (core/docker_migration.go).  A project is a directory below the projects    *)
(* folder; Docker knows a project only by its name, so containers of several   *)
(* directories can carry the same one.  Every docker command of a request is a *)
(* step of its own: other users of the same Docker act between them.  The      *)
(* plugin serves one request at a time.                                        *)
EXTENDS FiniteSets, Naturals

CONSTANTS
  Names,       \* project names
  Legacy,      \* names of projects below <dataDir>/compose
  External,    \* absolute folders that can be chosen
  Shells,      \* ids of container terminals, fresh for each
  MaxStarts    \* bound: starts of RunPilot

LegacyAssumption == Legacy \subseteq Names /\ MaxStarts \in Nat

VARIABLES
  phase,       \* "down", "migrating", "up"
  starts,
  todo,        \* legacy projects the migration has not looked at
  staged,      \* the temporary directory it fills: its project's name and files
  settings,    \* the stored projects folder
  folder,      \* p.projectsFolder
  files,       \* folder -> name -> what the directory holds: "compose", "origin"; Absent
  docker,      \* name -> the containers' label -> "none", "stopped", "running"
  available,   \* docker and Compose answer
  call,        \* the request in progress
  known,       \* p.sessions
  open         \* process sessions of the host that run

dockerVars == <<phase, starts, todo, staged, settings, folder, files, docker, available, call, known, open>>

Workspace == "projects"
Folders == External \cup {Workspace}
Origin == "legacy"
Contents == SUBSET {"compose", "origin"}
Absent == {"absent"}
Nothing == [name |-> "", has |-> {}]
Free == [op |-> "", name |-> ""]

\* Compose labels a container with the directory of its file and with the
\* project's directory; a migrated project keeps the original as the latter.
Labels == {<<f, f>> : f \in Folders \cup {Origin, "other"}} \cup {<<f, Origin>> : f \in Folders}
Present(n) == {l \in Labels : docker[n][l] # "none"}

\* requireProject, composeFile.
Exists(n) == files[folder][n] # Absent
HasFile(n) == Exists(n) /\ "compose" \in files[folder][n]

\* projectDirectories: where the project is, and where it came from.
Directories(n) == {folder} \cup (IF "origin" \in files[folder][n] THEN {Origin} ELSE {})
OwnLabel(n) == <<folder, IF "origin" \in files[folder][n] THEN Origin ELSE folder>>

\* checkProjectOwnership: nobody uses the name, or a file of the project's
\* directories is among those Docker lists.  (Variant: the name alone decides.)
OwnedAlways(n) == TRUE
Owned(n) == Present(n) = {} \/ \E l \in Present(n) : l[1] \in Directories(n)

\* managedContainer: the directory the container was started for.
Manages(n, l) == Exists(n) /\ l[2] \in Directories(n)

Init ==
  /\ phase = "down" /\ starts = 0 /\ todo = {} /\ staged = Nothing
  /\ settings \in Folders /\ folder = settings
  /\ files \in [Folders -> [Names -> {Absent}]]
       \cup {[f \in Folders |-> [m \in Names |-> IF f \in External THEN has ELSE Absent]] :
               has \in {{}, {"compose"}}}
  /\ docker \in [Names -> {[l \in Labels |-> IF l = taken THEN "running" ELSE "none"] :
                             taken \in {<<Origin, Origin>>, <<"other", "other">>, <<Workspace, Workspace>>}}]
  /\ available \in BOOLEAN /\ call = Free /\ known = {} /\ open = {}

-----------------------------------------------------------------------------
(* A start of RunPilot: the migration, then the plugin.                        *)

Boot ==
  /\ phase = "down" /\ starts < MaxStarts
  /\ phase' = "migrating" /\ starts' = starts + 1 /\ todo' = Legacy
  /\ UNCHANGED <<staged, settings, folder, files, docker, available, call, known, open>>

Skip(n) ==
  /\ phase = "migrating" /\ n \in todo /\ staged = Nothing
  /\ files[Workspace][n] # Absent
  /\ todo' = todo \ {n}
  /\ UNCHANGED <<phase, starts, staged, settings, folder, files, docker, available, call, known, open>>

\* A project is put together beside the others and takes its name when it is
\* whole.  (Variant: it is put together where it belongs.)
StageInPlace(n) ==
  /\ phase = "migrating" /\ n \in todo /\ staged = Nothing
  /\ files[Workspace][n] = Absent
  /\ staged' = [name |-> n, has |-> {}]
  /\ files' = [files EXCEPT ![Workspace][n] = {}]
  /\ UNCHANGED <<phase, starts, todo, settings, folder, docker, available, call, known, open>>

Stage(n) ==
  /\ phase = "migrating" /\ n \in todo /\ staged = Nothing
  /\ files[Workspace][n] = Absent
  /\ staged' = [name |-> n, has |-> {}]
  /\ UNCHANGED <<phase, starts, todo, settings, folder, files, docker, available, call, known, open>>

CopyControlFiles ==
  /\ phase = "migrating" /\ staged # Nothing /\ staged.has = {}
  /\ staged' = [staged EXCEPT !.has = {"compose"}]
  /\ UNCHANGED <<phase, starts, todo, settings, folder, files, docker, available, call, known, open>>

MarkOrigin ==
  /\ phase = "migrating" /\ staged.has = {"compose"}
  /\ staged' = [staged EXCEPT !.has = {"compose", "origin"}]
  /\ UNCHANGED <<phase, starts, todo, settings, folder, files, docker, available, call, known, open>>

Rename ==
  /\ phase = "migrating" /\ staged.has = {"compose", "origin"}
  /\ files' = [files EXCEPT ![Workspace][staged.name] = staged.has]
  /\ todo' = todo \ {staged.name} /\ staged' = Nothing
  /\ UNCHANGED <<phase, starts, settings, folder, docker, available, call, known, open>>

\* Any step may fail; what was put together is removed.
MigrationFails ==
  /\ phase = "migrating" /\ staged # Nothing
  /\ todo' = todo \ {staged.name} /\ staged' = Nothing
  /\ UNCHANGED <<phase, starts, settings, folder, files, docker, available, call, known, open>>

\* init: the stored folder when it can be read and is absolute.
Load ==
  /\ phase = "migrating" /\ todo = {}
  /\ phase' = "up" /\ folder' = settings
  /\ UNCHANGED <<starts, todo, staged, settings, files, docker, available, call, known, open>>

\* An orderly end: shutdown asks the host to end the terminals it knows.
Shutdown ==
  /\ phase = "up" /\ call = Free
  /\ phase' = "down" /\ open' = open \ known /\ known' = {}
  /\ UNCHANGED <<starts, todo, staged, settings, folder, files, docker, available, call>>

\* A crash takes the plugin's memory and the host's sessions with it.
Crash ==
  /\ phase # "down"
  /\ phase' = "down" /\ todo' = {} /\ staged' = Nothing /\ call' = Free
  /\ known' = {} /\ open' = {}
  /\ UNCHANGED <<starts, settings, folder, files, docker, available>>

-----------------------------------------------------------------------------
(* Everyone else.                                                              *)

\* Another tool, or RunPilot's legacy manager, brings a project up or down
\* from its own directory.
OtherTool(n) ==
  /\ \E d \in {Origin, "other"}, s \in {"none", "stopped", "running"} :
       /\ docker[n][<<d, d>>] # s
       /\ docker' = [docker EXCEPT ![n][<<d, d>>] = s]
  /\ call' = IF call.op # "" THEN [call EXCEPT !.seen = {l \in @ : docker'[n][l] # "none" \/ n # call.name}] ELSE call
  /\ UNCHANGED <<phase, starts, todo, staged, settings, folder, files, available, known, open>>

DockerSwitched ==
  /\ available' = ~available
  /\ UNCHANGED <<phase, starts, todo, staged, settings, folder, files, docker, call, known, open>>

-----------------------------------------------------------------------------
(* Requests.  `seen' of a request are the containers its check knew of that    *)
(* are still the same, `own' the directories it compared them with, `shared'   *)
(* whether a container of the project was among them.                          *)

Idle == phase = "up" /\ call = Free
Asked(op, n, S, own) ==
  [op |-> op, name |-> n, seen |-> S, own |-> own, shared |-> \E l \in S : l[1] \in own]
Checked(op, n) == Asked(op, n, Present(n), Directories(n))

\* setProjectsFolder: made, stored, and only then used.
SetFolder(f) ==
  /\ Idle
  /\ settings' = f /\ folder' = f
  /\ UNCHANGED <<phase, starts, todo, staged, files, docker, available, call, known, open>>

\* createProject: the name is free here and, when Docker answers, there.
CreateChecked(n) ==
  /\ Idle /\ ~Exists(n)
  /\ available => Present(n) = {}
  /\ call' = Asked("create", n, Present(n), {folder})
  /\ UNCHANGED <<phase, starts, todo, staged, settings, folder, files, docker, available, known, open>>

\* mkdir, then the empty Compose file; a failed write removes the directory,
\* which may fail as well.
Create ==
  /\ phase = "up" /\ call.op = "create"
  /\ \E has \in {Absent, {}, {"compose"}} : files' = [files EXCEPT ![folder][call.name] = has]
  /\ call' = Free
  /\ UNCHANGED <<phase, starts, todo, staged, settings, folder, docker, available, known, open>>

SetFile(n) ==
  /\ Idle /\ Exists(n)
  /\ files' = [files EXCEPT ![folder][n] = @ \cup {"compose"}]
  /\ UNCHANGED <<phase, starts, todo, staged, settings, folder, docker, available, call, known, open>>

\* deleteProject: no container carries the name.
DeleteChecked(n) ==
  /\ Idle /\ Exists(n) /\ available /\ Present(n) = {}
  /\ call' = Checked("delete", n)
  /\ UNCHANGED <<phase, starts, todo, staged, settings, folder, files, docker, available, known, open>>

\* The recursive removal may stop half way.
Delete ==
  /\ phase = "up" /\ call.op = "delete"
  /\ \E has \in {Absent} \cup SUBSET files[folder][call.name] :
       files' = [files EXCEPT ![folder][call.name] = has]
  /\ call' = Free
  /\ UNCHANGED <<phase, starts, todo, staged, settings, folder, docker, available, known, open>>

\* projectAction up to the compose command.
ActionChecked(n) ==
  /\ Idle /\ HasFile(n) /\ available /\ Owned(n)
  /\ \E op \in {"up", "start", "stop", "down"} : call' = Checked(op, n)
  /\ UNCHANGED <<phase, starts, todo, staged, settings, folder, files, docker, available, known, open>>

\* What the command does to a container it reaches.
After(op, s) ==
  CASE op = "up" -> "running"
    [] op = "start" /\ s # "none" -> "running"
    [] op = "stop" /\ s # "none" -> "stopped"
    [] op = "down" -> "none"
    [] OTHER -> s

\* Compose goes by the project's name: it reaches the containers of every
\* directory that carry it.  It may fail or run out of time half way.
Compose ==
  /\ phase = "up" /\ call.op \in {"up", "start", "stop", "down"}
  /\ \E reached \in SUBSET (Present(call.name) \cup {OwnLabel(call.name)}) :
       docker' = [docker EXCEPT ![call.name] =
                    [l \in Labels |-> IF l \in reached THEN After(call.op, @[l]) ELSE @[l]]]
  /\ call' = Free
  /\ UNCHANGED <<phase, starts, todo, staged, settings, folder, files, available, known, open>>

\* containerAction: one container, by its id.
ContainerChecked(n, l) ==
  /\ Idle /\ available /\ l \in Present(n) /\ Manages(n, l)
  /\ \E op \in {"c.start", "c.stop", "c.delete"} :
       /\ op = "c.delete" => docker[n][l] = "stopped"
       /\ op = "c.start" => docker[n][l] = "stopped"
       /\ op = "c.stop" => docker[n][l] = "running"
       /\ call' = Asked(op, n, {l}, Directories(n))
  /\ UNCHANGED <<phase, starts, todo, staged, settings, folder, files, docker, available, known, open>>

\* The container may be gone, or Docker refuse; it never removes one that runs.
Container ==
  /\ phase = "up" /\ call.op \in {"c.start", "c.stop", "c.delete"}
  /\ \/ docker' = docker
     \/ \E l \in call.seen :
          /\ docker[call.name][l] # "none"
          /\ call.op = "c.delete" => docker[call.name][l] = "stopped"
          /\ docker' = [docker EXCEPT ![call.name][l] =
                          CASE call.op = "c.start" -> "running"
                            [] call.op = "c.stop" -> "stopped"
                            [] OTHER -> "none"]
  /\ call' = Free
  /\ UNCHANGED <<phase, starts, todo, staged, settings, folder, files, available, known, open>>

-----------------------------------------------------------------------------
(* Terminals of containers.                                                    *)

TerminalOpen(n, s) ==
  /\ Idle /\ available /\ s \notin open \cup known
  /\ \E l \in Present(n) : Manages(n, l) /\ docker[n][l] = "running"
  /\ known' = known \cup {s} /\ open' = open \cup {s}
  /\ UNCHANGED <<phase, starts, todo, staged, settings, folder, files, docker, available, call>>

\* terminal.close: forgotten once the host has ended it; an unknown session is
\* an error, and so is one the host cannot end.
\* (Variant: forgotten whatever the host answers.)
CloseForgets(s) ==
  /\ Idle /\ s \in known
  /\ open' \in {open, open \ {s}} /\ known' = known \ {s}
  /\ UNCHANGED <<phase, starts, todo, staged, settings, folder, files, docker, available, call>>

TerminalClose(s) ==
  /\ Idle /\ s \in known
  /\ open' = open \ {s} /\ known' = known \ {s}
  /\ UNCHANGED <<phase, starts, todo, staged, settings, folder, files, docker, available, call>>

\* The shell ends; the callback drops it from the sessions, or is lost.
ShellEnds(s) ==
  /\ s \in open
  /\ open' = open \ {s} /\ known' \in {known, known \ {s}}
  /\ UNCHANGED <<phase, starts, todo, staged, settings, folder, files, docker, available, call>>

Next ==
  \/ Boot \/ CopyControlFiles \/ MarkOrigin \/ Rename \/ MigrationFails \/ Load
  \/ Shutdown \/ Crash \/ DockerSwitched
  \/ Create \/ Delete \/ Compose \/ Container
  \/ \E n \in Names :
       \/ Skip(n) \/ Stage(n) \/ OtherTool(n) \/ SetFile(n)
       \/ CreateChecked(n) \/ DeleteChecked(n) \/ ActionChecked(n)
       \/ \E l \in Labels : ContainerChecked(n, l)
       \/ \E s \in Shells : TerminalOpen(n, s)
  \/ \E f \in External : SetFolder(f)
  \/ \E s \in Shells : TerminalClose(s) \/ ShellEnds(s)

Spec == Init /\ [][Next]_dockerVars

-----------------------------------------------------------------------------
TypeOK ==
  /\ phase \in {"down", "migrating", "up"} /\ starts \in 0..MaxStarts
  /\ todo \subseteq Legacy /\ staged.name \in Names \cup {""} /\ staged.has \in Contents
  /\ settings \in Folders /\ folder \in Folders
  /\ files \in [Folders -> [Names -> Contents \cup {Absent}]]
  /\ docker \in [Names -> [Labels -> {"none", "stopped", "running"}]]
  /\ available \in BOOLEAN /\ known \subseteq Shells /\ open \subseteq Shells
  /\ phase = "up" => folder = settings

\* A request changes containers only if they are the project's own, or appeared
\* after the check that comes before the command, or share the name with
\* containers that are its own: a name another directory uses alone is left
\* alone (checkProjectOwnership, managedContainer), whatever other tools do
\* between the check and the command, and wherever the folder was moved.
OthersLeftAlone ==
  [][\A n \in Names, l \in Labels :
       docker'[n][l] # docker[n][l] /\ call.op # "" /\ call' = Free =>
         l[1] \in call.own \/ l[2] \in call.own \/ l \notin call.seen \/ call.shared]_dockerVars

\* A legacy project appears below the projects folder only with its Compose
\* file and the note where it came from, although the migration can fail or the
\* process end at any of its steps and start again: without the note its
\* containers would be taken for somebody else's.
MigratedWhole ==
  [][\A n \in Names :
       phase = "migrating" /\ files'[Workspace][n] # files[Workspace][n] =>
         files'[Workspace][n] = {"compose", "origin"}]_dockerVars

\* No container terminal runs that the plugin would not end at its shutdown.
ShellsKnown == phase = "up" => open \subseteq known
=============================================================================
