------------------------------ MODULE TasksPlugin ------------------------------
(***************************************************************************)
(* The Tasks plugin (plugins/tasks/backend) as one state machine together  *)
(* with the part of the host it drives: the owner's process table, the     *)
(* plugin scheduler, the execution history and the callback queue.         *)
(*                                                                         *)
(* Plugin code runs under the runtime's mutex, so a handler never overlaps *)
(* another one; the host does move between two host calls of a handler.    *)
(* A handler is therefore a chain of steps, one per host call that matters,*)
(* driven by `call`; no other handler starts until `call` is idle again.   *)
(*                                                                         *)
(* A run is one launch of a task: its history execution and its process.   *)
(* Runs are pairs <<task, slot>>; a slot is used again once nothing in the *)
(* plugin or the host still refers to the earlier run, so that behaviours  *)
(* are unbounded while the state stays finite.                             *)
(***************************************************************************)
EXTENDS Naturals, FiniteSets

CONSTANTS
  Continuous,      \* identifiers of continuous tasks
  Scheduled,       \* identifiers of scheduled tasks
  Slots,           \* names that tell the runs of one task apart
  ContinuousDefs,  \* the definitions a continuous task may be given
  ScheduledDefs,   \* the definitions a scheduled task may be given
  CountCap,        \* bound: restartCount saturates here
  MaxTicks,        \* bound: undelivered fires of one registration
  MaxQueue,        \* bound: callbacks waiting for the plugin
  None

Tasks == Continuous \cup Scheduled
Runs  == Tasks \X Slots
Task(r) == r[1]

Modes == {"never", "on-failure", "always"}

\* CountCap only has to be at least every retry limit: the count is compared
\* with that limit and nothing else.
ASSUME ConstantsAssumption ==
  /\ Continuous \cap Scheduled = {}
  /\ None \notin Tasks \cup Runs
  /\ ContinuousDefs # {} /\ ScheduledDefs # {}
  /\ ContinuousDefs \subseteq
       [mode : Modes, maxRetries : 0 .. CountCap, autostart : BOOLEAN]
  /\ ScheduledDefs \subseteq [enabled : BOOLEAN, overlap : {"skip", "allow"}]
  /\ CountCap \in Nat /\ MaxTicks \in Nat /\ MaxQueue \in Nat
  /\ IsFiniteSet(Slots)

VARIABLES
  tasks,     \* the tasks that exist, in storage and in the plugin
  issued,    \* identifiers ever given out: `next` never goes back
  def,       \* the definition of each task
  rt,        \* plugin memory per task (taskRuntime)
  procs,     \* plugin memory: the runs it believes are running
  call,      \* the handler in progress
  open,      \* history: the unfinished executions
  host,      \* host: the process table of this plugin
  exits,     \* host: process.exit callbacks not delivered yet
  timer,     \* host: the restart registration of each task, named after the
             \* run whose exit asked for it
  fires,     \* host: fires of restart registrations not delivered yet
  schedule,  \* host: scheduled tasks with a registration
  due,       \* host: fires of those registrations not delivered yet
  asked      \* auxiliary: the last thing an administrator asked of the task

storage == <<tasks, issued, def>>
memory  == <<rt, procs, call>>
queue   == <<exits, fires, due>>
vars == <<tasks, issued, def, rt, procs, call, open, host, exits, timer,
          fires, schedule, due, asked>>

Defs(t) == IF t \in Continuous THEN ContinuousDefs ELSE ScheduledDefs
NoDef(t) == CHOOSE d \in Defs(t) : TRUE
Ticks == 1 .. MaxTicks
States == {"stopped", "running", "stopping", "restarting"}
HostStates == {"none", "running", "killed", "succeeded", "failed"}
Ops == {"none", "check", "start", "stop", "restart", "run", "delete"}
Phases == {"down", "readonly", "restore", "idle", "reconcile", "halt",
           "status", "shutdown"}

\* taskRuntime
Memories == [state : States, desired : BOOLEAN, pendingStart : BOOLEAN,
             restartTimer : BOOLEAN, restartCount : 0 .. CountCap,
             process : Runs \cup {None}, active : Nat]

Fresh == [state |-> "stopped", desired |-> FALSE, pendingStart |-> FALSE,
          restartTimer |-> FALSE, restartCount |-> 0, process |-> None,
          active |-> 0]

\* The handler in progress: what it is doing, for which operation and task, the
\* runs (or tasks) its loop has still to visit, the run being terminated and
\* the task's state before.
Calls == [phase : Phases, op : Ops, task : Tasks \cup {None},
          todo : SUBSET (Runs \cup Tasks), run : Runs \cup {None},
          prev : States]

Idle == [phase |-> "idle", op |-> "none", task |-> None, todo |-> {},
         run |-> None, prev |-> "stopped"]
Phase(p, todo) == [Idle EXCEPT !.phase = p, !.todo = todo]

Live(r) == host[r] \in {"running", "killed"}
Up == call.phase \notin {"down", "shutdown"}
Queued == Cardinality(exits) + Cardinality(fires) + Cardinality(due)
RunsOf(t) == {r \in procs : Task(r) = t}

\* The slots of t that nothing refers to any more.
Free(t) == {r \in {t} \X Slots :
              /\ r \notin procs \cup open
              /\ host[r] = "none"
              /\ timer[t] # r
              /\ \A ok \in BOOLEAN : <<r, ok>> \notin exits
              /\ \A n \in Ticks : <<r, n>> \notin fires}

Init ==
  /\ tasks = {} /\ issued = {}
  /\ def = [t \in Tasks |-> NoDef(t)]
  /\ rt = [t \in Tasks |-> Fresh]
  /\ procs = {} /\ open = {}
  /\ call = Phase("down", {})
  /\ host = [r \in Runs |-> "none"]
  /\ timer = [t \in Tasks |-> None]
  /\ exits = {} /\ fires = {} /\ schedule = {} /\ due = {}
  /\ asked = [t \in Tasks |-> "nothing"]

-----------------------------------------------------------------------------
(* Operators that stand right before another one, with its parameters, and  *)
(* that no action uses are faulty variants of it: each run is repeated with *)
(* a variant in place of the original, and must then fail.                  *)

(* Launching a run and settling one that exited: the parts every handler    *)
(* shares.  They constrain rt', procs', open', host' and timer'.            *)

\* The runs in `gone` are settled; run r is recorded and started (None when
\* nothing starts, or when the start failed and its execution was closed).
Ledger(gone, r) ==
  /\ procs' = (procs \ gone) \cup ({r} \ {None})
  /\ open'  = (open \ gone) \cup ({r} \ {None})
  /\ host'  = [x \in Runs |-> IF x = r THEN "running" ELSE host[x]]

Launches(t) == IF Free(t) = {} THEN {} ELSE Free(t) \cup {None}

SpawnedUnmarked(m, r) == [m EXCEPT !.process = r]
Spawned(m, r) ==
  IF r = None
    THEN [m EXCEPT !.state = "stopped", !.desired = FALSE, !.process = None]
    ELSE [m EXCEPT !.state = "running", !.process = r]

\* Start a continuous task whose memory is m, having settled `gone`.
Spawn(t, m, gone) ==
  \E r \in Launches(t) :
    /\ Ledger(gone, r)
    /\ rt' = [rt EXCEPT ![t] = Spawned(m, r)]

WantsRestart(t, ok) ==
  /\ rt[t].desired
  /\ \/ def[t].mode = "always"
     \/ def[t].mode = "on-failure" /\ ~ok

LimitReached(t) ==
  def[t].maxRetries > 0 /\ rt[t].restartCount >= def[t].maxRetries

Counted(n) == IF n < CountCap THEN n + 1 ELSE n

\* The exit of the process a continuous task is running.
ContinuousExited(r, ok) ==
  LET t == Task(r)
      m == [rt[t] EXCEPT !.process = None, !.state = "stopped"]
      To(n) == Ledger({r}, None) /\ rt' = [rt EXCEPT ![t] = n]
  IN \/ /\ m.pendingStart
        /\ Spawn(t, [m EXCEPT !.pendingStart = FALSE, !.restartCount = 0,
                              !.desired = TRUE], {r})
        /\ UNCHANGED timer
     \/ /\ ~m.pendingStart /\ ~WantsRestart(t, ok)
        /\ To(m) /\ UNCHANGED timer
     \/ /\ ~m.pendingStart /\ WantsRestart(t, ok) /\ LimitReached(t)
        /\ To([m EXCEPT !.desired = FALSE]) /\ UNCHANGED timer
     \/ /\ ~m.pendingStart /\ WantsRestart(t, ok) /\ ~LimitReached(t)
        /\ LET c == [m EXCEPT !.restartCount = Counted(@)]
           IN \/ /\ timer[t] = None
                 /\ To([c EXCEPT !.restartTimer = TRUE, !.state = "restarting"])
                 /\ timer' = [timer EXCEPT ![t] = r]
              \/ To([c EXCEPT !.desired = FALSE]) /\ UNCHANGED timer

LeftNone(n) == 0
Left(n) == IF n > 0 THEN n - 1 ELSE 0

ScheduledExited(r) ==
  LET t == Task(r)
      left == Left(rt[t].active)
  IN /\ Ledger({r}, None)
     /\ rt' = [rt EXCEPT ![t].active = left,
                         ![t].process = IF left = 0 THEN None ELSE @]
     /\ UNCHANGED timer

\* The exit of run r reaches the plugin: by callback, by a status poll or as
\* the answer to a terminate.
Exited(r, ok) ==
  LET t == Task(r) IN
  \/ r \notin procs /\ UNCHANGED <<rt, procs, open, host, timer>>
  \/ /\ r \in procs
     /\ t \notin tasks \/ (t \in Continuous /\ rt[t].process # r)
     /\ Ledger({r}, None) /\ UNCHANGED <<rt, timer>>
  \/ r \in procs /\ t \in tasks \cap Scheduled /\ ScheduledExited(r)
  \/ /\ r \in procs /\ t \in tasks \cap Continuous /\ rt[t].process = r
     /\ ContinuousExited(r, ok)

-----------------------------------------------------------------------------
(* Start and end of the plugin. *)

BootKeepsOpen ==
  /\ call.phase = "down" /\ call' = Phase("restore", tasks)
  /\ UNCHANGED <<storage, rt, procs, open, host, exits, timer, fires,
                 schedule, due, asked>>

\* The history store fails what an earlier process left unfinished, before
\* any plugin runs; then init loads the definitions and restores each task.
Boot ==
  /\ call.phase = "down"
  /\ call' = Phase("restore", tasks)
  /\ open' = {}
  /\ UNCHANGED <<storage, rt, procs, host, exits, timer, fires, schedule,
                 due, asked>>

\* Stored definitions that cannot be read leave the plugin read-only.
LoadFails ==
  /\ call.phase = "down"
  /\ call' = Phase("readonly", {})
  /\ open' = {}
  /\ UNCHANGED <<storage, rt, procs, host, exits, timer, fires, schedule,
                 due, asked>>

RestoreScheduled(t) ==
  /\ t \in Scheduled
  /\ \/ def[t].enabled /\ schedule' = schedule \cup {t}
     \/ UNCHANGED schedule      \* not enabled, or the registration failed
  /\ UNCHANGED <<rt, procs, open, host, asked>>

RestoreContinuous(t) ==
  /\ t \in Continuous
  /\ \/ /\ def[t].autostart
        /\ Spawn(t, [rt[t] EXCEPT !.desired = TRUE], {})
        /\ asked' = [asked EXCEPT ![t] = "start"]
     \/ UNCHANGED <<rt, procs, open, host, asked>>  \* no autostart, or invalid
  /\ UNCHANGED schedule

Restore(t) ==
  /\ call.phase = "restore" /\ t \in call.todo
  /\ RestoreScheduled(t) \/ RestoreContinuous(t)
  /\ call' = [call EXCEPT !.todo = @ \ {t}]
  /\ UNCHANGED <<storage, queue, timer>>

Restored ==
  /\ call.phase = "restore" /\ call.todo = {}
  /\ call' = Idle
  /\ UNCHANGED <<storage, rt, procs, open, host, queue, timer, schedule, asked>>

\* A graceful stop waits for the handler in progress.
Shutdown ==
  /\ call.phase \in {"idle", "readonly"}
  /\ call' = Phase("shutdown", procs)
  /\ UNCHANGED <<storage, rt, procs, open, host, queue, timer, schedule, asked>>

\* Every run is told to stop and its execution closed, whatever came of it.
ShutdownStep(r) ==
  /\ call.phase = "shutdown" /\ r \in call.todo
  /\ \/ Live(r) /\ host' = [host EXCEPT ![r] = "killed"]
     \/ UNCHANGED host
  /\ open' = open \ {r}
  /\ call' = [call EXCEPT !.todo = @ \ {r}]
  /\ UNCHANGED <<storage, rt, procs, queue, timer, schedule, asked>>

\* Nothing of the plugin's memory or of the host's survives the process.
Gone ==
  /\ call' = Phase("down", {})
  /\ rt' = [t \in Tasks |-> Fresh]
  /\ procs' = {}
  /\ host' = [r \in Runs |-> "none"]
  /\ timer' = [t \in Tasks |-> None]
  /\ schedule' = {} /\ exits' = {} /\ fires' = {} /\ due' = {}
  /\ asked' = [t \in Tasks |-> "nothing"]
  /\ UNCHANGED <<storage, open>>

ShutdownDone == call.phase = "shutdown" /\ call.todo = {} /\ Gone

Crash == call.phase # "down" /\ Gone

-----------------------------------------------------------------------------
(* Callbacks from the host. *)

DeliverExit(r) ==
  /\ call.phase = "idle"
  /\ \E ok \in BOOLEAN :
       /\ <<r, ok>> \in exits
       /\ exits' = exits \ {<<r, ok>>}
       /\ Exited(r, ok)
  /\ UNCHANGED <<storage, call, fires, due, schedule, asked>>

WantedTooLate(m) == m.restartTimer /\ m.state = "restarting" /\ m.desired
Wanted(m) == m.state = "restarting" /\ m.desired

\* The callback only carries the task: the registration it removes need not be
\* the one that fired.
RestartFired(r) ==
  LET t == Task(r)
      m == [rt[t] EXCEPT !.restartTimer = FALSE]
  IN /\ call.phase = "idle"
     /\ \E n \in Ticks : <<r, n>> \in fires /\ fires' = fires \ {<<r, n>>}
     /\ timer' = [timer EXCEPT ![t] = None]
     /\ \/ t \notin tasks /\ UNCHANGED <<rt, procs, open, host>>
        \/ /\ t \in tasks /\ ~Wanted(m)
           /\ rt' = [rt EXCEPT ![t] = m]
           /\ UNCHANGED <<procs, open, host>>
        \/ /\ t \in tasks /\ Wanted(m)
           /\ Spawn(t, m, {})
     /\ UNCHANGED <<storage, call, exits, due, schedule, asked>>

MayOverlapByOne(t) == rt[t].active <= 1 \/ def[t].overlap = "allow"
MayOverlap(t) == rt[t].active = 0 \/ def[t].overlap = "allow"

\* Launch a scheduled task, unless a run is active and may not be joined.
RunNow(t) ==
  \/ ~MayOverlap(t) /\ UNCHANGED <<rt, procs, open, host>>
  \/ /\ MayOverlap(t)
     /\ \E r \in Launches(t) :
          /\ Ledger({}, r)
          /\ rt' = IF r = None THEN rt
                   ELSE [rt EXCEPT ![t].active = @ + 1, ![t].process = r,
                                   ![t].state = "running"]

TaskFired(t) ==
  /\ call.phase = "idle"
  /\ \E n \in Ticks : <<t, n>> \in due /\ due' = due \ {<<t, n>>}
  /\ \/ /\ t \notin tasks \/ ~def[t].enabled
        /\ schedule' = schedule \ {t}
        /\ UNCHANGED <<rt, procs, open, host>>
     \/ t \in tasks /\ def[t].enabled /\ RunNow(t) /\ UNCHANGED schedule
  /\ UNCHANGED <<storage, call, exits, fires, timer, asked>>

-----------------------------------------------------------------------------
(* Reconciliation: on its own timer, on tasks.list, and as the first thing  *)
(* every control operation does.                                            *)

Reconcile(op, t) ==
  /\ call.phase = "idle"
  /\ call' = [Phase("reconcile", procs) EXCEPT !.op = op, !.task = t]
  /\ UNCHANGED <<storage, rt, procs, open, host, queue, timer, schedule, asked>>

Check == Reconcile("check", None)

Control(op, t) == t \in tasks /\ op \in Ops \ {"none", "check"} /\ Reconcile(op, t)

ReconcileKnown(r) ==
  /\ call.phase = "reconcile" /\ r \in call.todo
  /\ call' = [call EXCEPT !.todo = @ \ {r}]
  /\ \/ /\ host[r] \in {"none", "running", "killed"}
        /\ UNCHANGED <<rt, procs, open, host, timer>>
     \/ host[r] \in {"succeeded", "failed"} /\ Exited(r, host[r] = "succeeded")
  /\ UNCHANGED <<storage, queue, schedule, asked>>

ReconcileStep(r) ==
  /\ call.phase = "reconcile" /\ r \in call.todo
  /\ call' = [call EXCEPT !.todo = @ \ {r}]
  /\ \/ Live(r) /\ UNCHANGED <<rt, procs, open, host, timer>>
     \/ ~Live(r) /\ Exited(r, host[r] = "succeeded")
  /\ UNCHANGED <<storage, queue, schedule, asked>>

Reconciled(op) == call.phase = "reconcile" /\ call.todo = {} /\ call.op = op

-----------------------------------------------------------------------------
(* Control operations, once the reconciliation is done. *)

CancelNothing(t) == timer' = timer
CancelTimer(t) ==
  timer' = IF rt[t].restartTimer THEN [timer EXCEPT ![t] = None] ELSE timer

MayStartStopping(t) == rt[t].state # "running"
MayStart(t) == rt[t].state \notin {"running", "stopping"}

\* A check is done; an operation was refused (wrong kind of task, already
\* running, not saved).
Return ==
  /\ call.phase = "reconcile" /\ call.todo = {}
  /\ \/ call.op \in {"check", "delete"}
     \/ call.op \in {"start", "restart"} /\ call.task \in Scheduled
     \/ /\ call.op = "start" /\ call.task \in Continuous
        /\ ~MayStart(call.task)
     \/ call.op = "run" /\ call.task \in Continuous
  /\ call' = Idle
  /\ UNCHANGED <<storage, rt, procs, open, host, queue, timer, schedule, asked>>

StartTask(t) ==
  /\ MayStart(t)
  /\ CancelTimer(t)
  /\ Spawn(t, [rt[t] EXCEPT !.desired = TRUE, !.restartTimer = FALSE,
                            !.restartCount = 0, !.pendingStart = FALSE], {})
  /\ call' = Idle
  /\ asked' = [asked EXCEPT ![t] = "start"]
  /\ UNCHANGED <<storage, queue, schedule>>

Start == LET t == call.task IN
  Reconciled("start") /\ t \in Continuous /\ StartTask(t)

Run == LET t == call.task IN
  /\ Reconciled("run") /\ t \in Scheduled
  /\ RunNow(t)
  /\ call' = Idle
  /\ UNCHANGED <<storage, queue, timer, schedule, asked>>

\* stopTask up to its first terminate call: the runs to terminate become the
\* call's todo list.
StopTask(t, pending) ==
  LET m == [rt[t] EXCEPT !.desired = FALSE, !.restartTimer = FALSE,
                         !.pendingStart = pending]
      left == IF t \in Scheduled THEN RunsOf(t) ELSE {rt[t].process} \ {None}
  IN /\ CancelTimer(t)
     /\ rt' = [rt EXCEPT ![t] =
                 IF t \in Scheduled THEN m
                 ELSE [m EXCEPT !.state =
                         IF left = {} THEN "stopped" ELSE "stopping"]]
     /\ call' = [call EXCEPT !.phase = "halt", !.todo = left,
                             !.prev = rt[t].state]
     /\ UNCHANGED <<issued, procs, open, host, queue, schedule>>

StopKeepsPending == LET t == call.task IN
  /\ Reconciled("stop")
  /\ StopTask(t, rt[t].pendingStart)
  /\ asked' = [asked EXCEPT ![t] = "stop"]
  /\ UNCHANGED <<tasks, def>>

Stop == LET t == call.task IN
  /\ Reconciled("stop")
  /\ StopTask(t, FALSE)
  /\ asked' = [asked EXCEPT ![t] = "stop"]
  /\ UNCHANGED <<tasks, def>>

\* A restart of a running task is a stop that remembers to start again.
Restart == LET t == call.task IN
  /\ Reconciled("restart") /\ t \in Continuous
  /\ \/ rt[t].process = None /\ StartTask(t)
     \/ /\ rt[t].process # None
        /\ StopTask(t, TRUE)
        /\ asked' = [asked EXCEPT ![t] = "start"]
        /\ UNCHANGED <<tasks, def>>

\* The definition is gone from storage before its runs are stopped.
Delete == LET t == call.task IN
  /\ Reconciled("delete")
  /\ tasks' = tasks \ {t}
  /\ def' = [def EXCEPT ![t] = NoDef(t)]
  /\ StopTask(t, FALSE)
  /\ asked' = [asked EXCEPT ![t] = "stop"]

\* process.terminate of one run: it is gone already, it is signalled, or the
\* signal fails.
Terminate(r) ==
  /\ call.phase = "halt" /\ r \in call.todo
  /\ \/ /\ ~Live(r) /\ Exited(r, host[r] = "succeeded")
        /\ call' = [call EXCEPT !.todo = @ \ {r}]
     \/ /\ Live(r) /\ host' = [host EXCEPT ![r] = "killed"]
        /\ call' = [call EXCEPT !.phase = "status", !.run = r]
        /\ UNCHANGED <<rt, procs, open, timer>>
  /\ UNCHANGED <<storage, queue, schedule, asked>>

\* What a failed terminate puts back.
UndoneState(m) == [m EXCEPT !.state = call.prev]
UndonePending(m) == [m EXCEPT !.pendingStart = @ /\ call.op # "restart"]
Undone(m) == [m EXCEPT !.state = call.prev,
                       !.pendingStart = @ /\ call.op # "restart"]

TerminateFails(r) == LET t == Task(r) IN
  /\ call.phase = "halt" /\ r \in call.todo /\ Live(r)
  /\ rt' = IF t \in Scheduled THEN rt
           ELSE [rt EXCEPT ![t] = Undone(rt[t])]
  /\ call' = IF call.op = "delete" THEN [call EXCEPT !.todo = {}] ELSE Idle
  /\ UNCHANGED <<storage, procs, open, host, queue, timer, schedule, asked>>

\* The status that answers a terminate is read after the signal.
TerminateStatus == LET r == call.run IN
  /\ call.phase = "status"
  /\ call' = [call EXCEPT !.phase = "halt", !.todo = @ \ {r}, !.run = None]
  /\ \/ Live(r) /\ UNCHANGED <<rt, procs, open, host, timer>>
     \/ ~Live(r) /\ Exited(r, host[r] = "succeeded")
  /\ UNCHANGED <<storage, queue, schedule, asked>>

Halted == LET t == call.task IN
  /\ call.phase = "halt" /\ call.todo = {}
  /\ call' = Idle
  /\ \/ call.op # "delete" /\ UNCHANGED <<rt, schedule>>
     \/ /\ call.op = "delete"
        /\ schedule' = schedule \ {t}
        /\ rt' = [rt EXCEPT ![t] = Fresh]
  /\ UNCHANGED <<storage, procs, open, host, queue, timer, asked>>

Registered(t, d) == IF t \in Scheduled /\ d.enabled THEN {t} ELSE {}

CreateReusing(t, d) ==
  /\ call.phase = "idle" /\ t \notin issued /\ d \in Defs(t)
  /\ tasks' = tasks \cup {t} /\ UNCHANGED issued
  /\ def' = [def EXCEPT ![t] = d]
  /\ schedule' = schedule \cup Registered(t, d)
  /\ UNCHANGED <<memory, open, host, queue, timer, asked>>

Create(t, d) ==
  /\ call.phase = "idle" /\ t \notin issued /\ d \in Defs(t)
  /\ tasks' = tasks \cup {t} /\ issued' = issued \cup {t}
  /\ def' = [def EXCEPT ![t] = d]
  /\ schedule' = schedule \cup Registered(t, d)
  /\ UNCHANGED <<memory, open, host, queue, timer, asked>>

Update(t, d) ==
  /\ call.phase = "idle" /\ t \in tasks /\ d \in Defs(t)
  /\ def' = [def EXCEPT ![t] = d]
  /\ schedule' = (schedule \ {t}) \cup Registered(t, d)
  /\ UNCHANGED <<tasks, issued, memory, open, host, queue, timer, asked>>

\* The new schedule or the save is refused: the old registration is put back,
\* if the host accepts it.
UpdateFails(t) ==
  /\ call.phase = "idle" /\ t \in tasks
  /\ \E back \in {{}, Registered(t, def[t])} :
       schedule' = (schedule \ {t}) \cup back
  /\ UNCHANGED <<storage, memory, open, host, queue, timer, asked>>

-----------------------------------------------------------------------------
(* The host. *)

\* A process ends and its callback is queued, or dropped when the queue stays
\* full too long.
ProcessExits(r, ok) ==
  /\ Live(r) /\ call.phase # "down"
  /\ host' = [host EXCEPT ![r] = IF ok THEN "succeeded" ELSE "failed"]
  /\ \/ Queued < MaxQueue /\ exits' = exits \cup {<<r, ok>>}
     \/ UNCHANGED exits
  /\ UNCHANGED <<storage, memory, open, timer, fires, schedule, due, asked>>

\* The timeout of a scheduled run.
Timeout(r) ==
  /\ Task(r) \in Scheduled /\ host[r] = "running"
  /\ host' = [host EXCEPT ![r] = "killed"]
  /\ UNCHANGED <<storage, memory, open, queue, timer, schedule, asked>>

\* Five minutes after its exit the host no longer knows a process.
Forget(r) ==
  /\ host[r] \in {"succeeded", "failed"}
  /\ host' = [host EXCEPT ![r] = "none"]
  /\ UNCHANGED <<storage, memory, open, queue, timer, schedule, asked>>

RestartTick(t) ==
  /\ timer[t] # None /\ Queued < MaxQueue
  /\ \E n \in Ticks : /\ <<timer[t], n>> \notin fires
                      /\ fires' = fires \cup {<<timer[t], n>>}
  /\ UNCHANGED <<storage, memory, open, host, exits, timer, schedule, due, asked>>

ScheduleTick(t) ==
  /\ t \in schedule /\ Queued < MaxQueue
  /\ \E n \in Ticks : <<t, n>> \notin due /\ due' = due \cup {<<t, n>>}
  /\ UNCHANGED <<storage, memory, open, host, exits, timer, fires, schedule, asked>>

-----------------------------------------------------------------------------
HandlerStep ==
  \/ Restored \/ Return \/ Start \/ Run \/ Stop \/ Restart \/ Delete
  \/ TerminateStatus \/ Halted \/ ShutdownDone
  \/ \E t \in Tasks : Restore(t)
  \/ \E r \in Runs : ReconcileStep(r) \/ Terminate(r) \/ ShutdownStep(r)

Callback == \E r \in Runs : DeliverExit(r) \/ RestartFired(r)

HostStep ==
  \/ \E r \in Runs : Timeout(r) \/ Forget(r) \/ \E ok \in BOOLEAN : ProcessExits(r, ok)
  \/ \E t \in Tasks : RestartTick(t) \/ ScheduleTick(t)

Request ==
  \/ \E t \in Tasks, op \in Ops : Control(op, t)
  \/ \E t \in Tasks : UpdateFails(t) \/ \E d \in Defs(t) : Create(t, d) \/ Update(t, d)

Next ==
  \/ Boot \/ LoadFails \/ Shutdown \/ Crash \/ Check
  \/ HandlerStep \/ Callback \/ HostStep \/ Request
  \/ \E r \in Runs : TerminateFails(r)
  \/ \E t \in Tasks : TaskFired(t)

Spec == Init /\ [][Next]_vars

\* A signalled process ends.
Dies(r) == host[r] = "killed" /\ \E ok \in BOOLEAN : ProcessExits(r, ok)

(* Fairness: a handler in progress returns; signalled processes die; timers  *)
(* keep ticking; and each kind of callback, the reconcile timer included,    *)
(* gets its turn at the mutex although administrators keep calling.          *)
Fairness ==
  /\ WF_vars(HandlerStep)
  /\ SF_vars(Check)
  /\ SF_vars(\E r \in Runs : DeliverExit(r))
  /\ SF_vars(\E r \in Runs : RestartFired(r))
  /\ WF_vars(\E r \in Runs : Forget(r))
  /\ \A t \in Continuous : WF_vars(RestartTick(t))
  /\ \A r \in Runs : WF_vars(Dies(r))

FairSpec == Spec /\ Fairness

-----------------------------------------------------------------------------
(* Properties. *)

TypeOK ==
  /\ tasks \subseteq issued /\ issued \subseteq Tasks
  /\ def \in [Tasks -> ContinuousDefs \cup ScheduledDefs]
  /\ \A t \in Tasks : def[t] \in Defs(t)
  /\ rt \in [Tasks -> Memories]
  /\ procs \subseteq Runs /\ open \subseteq Runs
  /\ call \in Calls
  /\ host \in [Runs -> HostStates]
  /\ timer \in [Tasks -> Runs \cup {None}]
  /\ exits \subseteq Runs \X BOOLEAN
  /\ fires \subseteq Runs \X Ticks
  /\ schedule \subseteq Scheduled /\ due \subseteq Scheduled \X Ticks
  /\ asked \in [Tasks -> {"nothing", "start", "stop"}]

\* Whatever exits, stops, deletes, failed terminates and failed starts do, the
\* unfinished executions in the history are exactly the runs the plugin
\* tracks, and every live process of the plugin is one of them: no process is
\* orphaned and no execution is left open or closed early.
LedgerConsistent ==
  Up => /\ open = procs
        /\ \A r \in Runs : Live(r) => r \in procs

\* A continuous task never has two processes alive, not even across a restart
\* request, an automatic restart and a stale timer, or after its deletion.
OneProcess ==
  \A t \in Continuous, r1, r2 \in Runs :
    Task(r1) = t /\ Task(r2) = t /\ Live(r1) /\ Live(r2) => r1 = r2

\* The reported state of a continuous task and its process agree: a task is
\* running or stopping exactly while the plugin tracks one process for it.
StateMatchesProcess ==
  \A t \in tasks \cap Continuous :
    /\ rt[t].state \in {"running", "stopping"} <=> rt[t].process # None
    /\ RunsOf(t) = {rt[t].process} \ {None}

\* A task waiting to be restarted has a host timer that will wake it and is
\* still wanted; a timer exists only for such a task.  Otherwise the task
\* would wait forever, or a timer would tick for nobody.
RestartingIsArmed ==
  \A t \in Continuous :
    /\ rt[t].state = "restarting" <=> timer[t] # None
    /\ rt[t].restartTimer <=> timer[t] # None
    /\ timer[t] # None => rt[t].desired /\ t \in tasks

\* A remembered restart request exists only while the old process is on its
\* way out, and outside a handler a stopping task's process was signalled:
\* otherwise the request, or the stop, would never complete.
PendingIsStopping ==
  \A t \in Continuous :
    /\ rt[t].pendingStart => rt[t].state = "stopping"
    /\ call.phase = "idle" /\ rt[t].state = "stopping"
         => host[rt[t].process] # "running"

\* The number of active runs of a scheduled task, which decides whether the
\* next fire is skipped, is the number of runs tracked for it.
ActiveIsTracked ==
  \A t \in tasks \cap Scheduled : rt[t].active = Cardinality(RunsOf(t))

\* The run of a task that starts in this step.
Begins(r) == ~Live(r) /\ Live(r)'

\* Once an administrator's last word is stop (or delete), no restart request,
\* automatic restart, pending timer or schedule of the past starts the
\* continuous task again.
NoUnwantedStart ==
  [][\A r \in Runs : Task(r) \in Continuous /\ Begins(r)
       => asked'[Task(r)] = "start" /\ Task(r) \in tasks]_vars

\* With overlap policy skip a scheduled task starts only when no process of an
\* earlier run is alive.
SkipNeverOverlaps ==
  [][\A r \in Runs : Task(r) \in Scheduled /\ Begins(r)
       => \/ def[Task(r)].overlap = "allow"
          \/ \A o \in Runs : Task(o) = Task(r) => ~Live(o)]_vars

\* "A one-shot delay is an interval registration removed on its first fire"
\* (docs/PLUGIN_API.md:184): an automatic restart is caused by a fire of the
\* delay that was registered for it, not of an earlier one.
OneShotDelay ==
  [][\A r \in Runs : RestartFired(r) /\ procs' # procs => timer[Task(r)] = r]_vars

\* An exit is settled in the end even when its callback was dropped.
ExitSettles ==
  \A r \in Runs : (r \in procs /\ ~Live(r)) ~> (r \notin procs \/ ~Up)

\* A task that waits for its restart delay leaves that state.
RestartHappens ==
  \A t \in Continuous :
    rt[t].state = "restarting" ~> (rt[t].state # "restarting" \/ ~Up)

\* A stop or restart request completes: the task does not stay in stopping.
StopCompletes ==
  \A t \in Continuous :
    rt[t].state = "stopping" ~> (rt[t].state # "stopping" \/ ~Up)

=============================================================================
