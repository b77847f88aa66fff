---------------------------- MODULE ComposeManager ----------------------------
(***************************************************************************)
(* The Docker Compose projects of the server's own routes                  *)
(* (internal/dockercompose): directories below the data root, requests     *)
(* that run at the same time, the lock of a project that `busy` is, and    *)
(* Docker, which other tools use as well. A request looks at the directory *)
(* before it asks for the lock.                                            *)
(***************************************************************************)
EXTENDS Naturals

CONSTANTS
  Projects,
  Requests      \* HTTP requests at the same time

VARIABLES
  dir,          \* the project's directory: "none", "empty" or "compose"
  containers,   \* Docker's containers of that name: "none", "stopped", "running"
  outside,      \* projects whose containers another tool brought up
  busy,         \* Manager.busy
  request       \* [op, project, at]

composeVars == <<dir, containers, outside, busy, request>>

Actions == {"up", "start", "stop", "restart", "down"}
Idle == [op |-> "none", project |-> "none", at |-> "idle"]
At(r, op, at) == request[r].op = op /\ request[r].at = at
Goes(r, at) == request' = [request EXCEPT ![r].at = at]
Answered(r) == request' = [request EXCEPT ![r] = Idle]

Init ==
  /\ dir = [p \in Projects |-> "none"]
  /\ containers = [p \in Projects |-> "none"] /\ outside = {}
  /\ busy = {} /\ request = [r \in Requests |-> Idle]

\* A request arrives, or is refused before it changes anything: the project is
\* not there, Docker is not, or there is no Compose file for an action.
Ask(r, op, p) ==
  /\ request[r] = Idle
  /\ request' = [request EXCEPT ![r] = [op |-> op, project |-> p, at |-> "asked"]]
  /\ UNCHANGED <<dir, containers, outside, busy>>
Refuse(r) ==
  /\ request[r].at \in {"asked", "checked"} /\ Answered(r)
  /\ UNCHANGED <<dir, containers, outside, busy>>

\* The checks before the lock: managedDir, composeAt, Runtime.
Check(r) ==
  LET p == request[r].project
  IN /\ request[r].at = "asked"
     /\ \/ request[r].op \in Actions /\ dir[p] = "compose"
        \/ request[r].op \in {"write", "delete", "container"} /\ dir[p] # "none"
     /\ Goes(r, "checked")
     /\ UNCHANGED <<dir, containers, outside, busy>>

\* acquire: one command of a project at a time.
Acquire(p) == p \notin busy /\ busy' = busy \cup {p}

Release(p) == busy' = busy \ {p}

\* ErrBusy.
Busy(r) ==
  /\ request[r].at = "checked" /\ request[r].op \in Actions \cup {"delete"}
  /\ request[r].project \in busy /\ Answered(r)
  /\ UNCHANGED <<dir, containers, outside, busy>>

-----------------------------------------------------------------------------
(* Action: one docker compose command, which loads the file when it starts *)
(* and changes containers until it ends or its request is given up.        *)

Start(r) ==
  /\ request[r].op \in Actions /\ request[r].at = "checked"
  /\ Acquire(request[r].project)
  /\ Goes(r, IF dir[request[r].project] = "compose" THEN "running" ELSE "ending")
  /\ UNCHANGED <<dir, containers, outside>>

Effects(op, is) ==
  CASE op = "up" -> {"stopped", "running"}
    [] op \in {"start", "restart"} -> IF is = "none" THEN {} ELSE {"running"}
    [] op = "stop" -> IF is = "none" THEN {} ELSE {"stopped"}
    [] op = "down" -> {"none"}

Changed(p, is) ==
  /\ containers' = [containers EXCEPT ![p] = is]
  /\ outside' = IF is = "none" THEN outside \ {p} ELSE outside

Works(r) ==
  /\ request[r].at = "running"
  /\ \E is \in Effects(request[r].op, containers[request[r].project]) : Changed(request[r].project, is)
  /\ UNCHANGED <<dir, busy, request>>

Ends(r) ==
  /\ request[r].op \in Actions /\ request[r].at \in {"running", "ending"}
  /\ Release(request[r].project) /\ Answered(r)
  /\ UNCHANGED <<dir, containers, outside>>

\* ContainerAction: start, stop and rm of one container, without the lock.
Container(r) ==
  LET p == request[r].project
      is == containers[p]
  IN /\ At(r, "container", "checked")
     /\ \/ is # "none" /\ (\E then \in {"running", "stopped"} : Changed(p, then))
        \/ is = "stopped" /\ Changed(p, "none")
     /\ Answered(r) /\ UNCHANGED <<dir, busy>>

-----------------------------------------------------------------------------
(* Create, WriteFile, Delete. *)

\* Mkdir refuses a project that is there; the file comes after it.
Create(r) ==
  /\ At(r, "create", "asked") /\ dir[request[r].project] = "none"
  /\ dir' = [dir EXCEPT ![request[r].project] = "empty"] /\ Goes(r, "made")
  /\ UNCHANGED <<containers, outside, busy>>

\* The first file; when it cannot be written an empty directory is removed.
Filled(r) ==
  LET p == request[r].project
  IN /\ At(r, "create", "made") /\ Answered(r)
     /\ \/ dir[p] # "none" /\ dir' = [dir EXCEPT ![p] = "compose"]
        \/ dir' = [dir EXCEPT ![p] = IF @ = "empty" THEN "none" ELSE @]
     /\ UNCHANGED <<containers, outside, busy>>

\* WriteFile of the Compose file: renamed into a directory that may be gone.
Write(r) ==
  /\ At(r, "write", "checked") /\ Answered(r)
  /\ dir' = [dir EXCEPT ![request[r].project] = IF @ = "none" THEN @ ELSE "compose"]
  /\ UNCHANGED <<containers, outside, busy>>

\* Delete: the lock, then Docker is asked; a project that is not down is kept.
Delete(r) ==
  /\ At(r, "delete", "checked") /\ Acquire(request[r].project)
  /\ Goes(r, IF containers[request[r].project] = "none" THEN "down" ELSE "kept")
  /\ UNCHANGED <<dir, containers, outside>>

\* RemoveAll, which may fail half way, and the release.
Remove(r) ==
  LET p == request[r].project
  IN /\ request[r].op = "delete" /\ request[r].at \in {"down", "kept"}
     /\ \/ request[r].at = "down" /\ \E is \in {"none", "empty"} :
             dir' = [dir EXCEPT ![p] = IF @ = "none" THEN @ ELSE is]
        \/ UNCHANGED dir
     /\ Release(p) /\ Answered(r)
     /\ UNCHANGED <<containers, outside>>

-----------------------------------------------------------------------------

\* Docker is used by others too, under any project name.
OtherTool(p) ==
  /\ \/ containers[p] = "none" /\ outside' = outside \cup {p}
        /\ containers' = [containers EXCEPT ![p] = "running"]
     \/ containers[p] # "none" /\ Changed(p, "none")
  /\ UNCHANGED <<dir, busy, request>>

Next ==
  \/ \E r \in Requests :
       \/ \E op \in Actions \cup {"create", "write", "delete", "container"}, p \in Projects : Ask(r, op, p)
       \/ Refuse(r) \/ Check(r) \/ Busy(r) \/ Start(r) \/ Works(r) \/ Ends(r)
       \/ Container(r) \/ Create(r) \/ Filled(r) \/ Write(r) \/ Delete(r) \/ Remove(r)
  \/ \E p \in Projects : OtherTool(p)

Spec == Init /\ [][Next]_composeVars

-----------------------------------------------------------------------------

TypeOK ==
  /\ dir \in [Projects -> {"none", "empty", "compose"}]
  /\ containers \in [Projects -> {"none", "stopped", "running"}]
  /\ outside \subseteq Projects /\ busy \subseteq Projects
  /\ request \in [Requests -> [op : Actions \cup {"none", "create", "write", "delete", "container"},
                               project : Projects \cup {"none"},
                               at : {"idle", "asked", "checked", "running", "ending", "made", "down", "kept"}]]

\* Containers that RunPilot brought up keep the directory of their project, by
\* which alone they can be taken down again here: however requests overlap, a
\* delete never passes between the look at Docker and a command's containers
\* (Action, Delete, acquire).
ProjectsKept == \A p \in Projects : containers[p] # "none" /\ p \notin outside => dir[p] # "none"

\* A project is busy exactly while a command of it runs or it is deleted: no
\* request that was refused or that ended leaves it locked or opens the lock.
BusyIsHeld ==
  \A p \in Projects : p \in busy <=>
    \E r \in Requests : request[r].project = p /\ request[r].at \in {"running", "ending", "down", "kept"}
=============================================================================
