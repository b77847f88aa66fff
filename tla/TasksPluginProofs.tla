--------------------------- MODULE TasksPluginProofs ---------------------------
(***************************************************************************)
(* Proofs about the Tasks plugin: its types, the execution ledger, one     *)
(* process per continuous task, and the agreement of a task's state with   *)
(* its process and its restart timer, for any tasks, slots, definitions    *)
(* and bounds.                                                             *)
(***************************************************************************)
EXTENDS TasksPlugin, FiniteSetTheorems, TLAPS

\* Every live process is tracked, tracked runs are the open executions while
\* the plugin runs, and an exit callback means that its process is gone.
LedgerInv ==
  /\ Up => open = procs
  /\ call.phase = "down" => procs = {}
  /\ \A r \in Runs : Live(r) => r \in procs
  /\ \A r \in Runs, ok \in BOOLEAN : <<r, ok>> \in exits => ~Live(r)

\* At most one tracked run per continuous task, deleted ones included.
OneTracked ==
  \A r1, r2 \in procs :
    Task(r1) = Task(r2) /\ Task(r1) \in Continuous => r1 = r2

\* Tasks that no handler touched yet since they got, or will get, their name.
Untouched(t) == rt[t] = Fresh /\ RunsOf(t) = {}
UntouchedInv ==
  /\ \A t \in Tasks \ issued : Untouched(t)
  /\ call.phase = "down" => \A t \in Tasks : Untouched(t)
  /\ call.phase = "restore" =>
       call.todo \subseteq tasks /\ \A t \in call.todo : Untouched(t)

\* What the handler in progress knows about its task.
CallInv ==
  /\ call.phase = "reconcile" =>
       call.op = "check" \/ (call.op # "none" /\ call.task \in tasks)
  /\ call.phase \in {"halt", "status"} =>
       /\ call.task \in Tasks
       /\ call.op \in {"stop", "restart", "delete"}
       /\ call.task \in tasks <=> call.op # "delete"
       /\ call.task \in issued
       /\ \A r \in call.todo : r \in Runs /\ Task(r) = call.task
       /\ call.task \in Continuous /\ call.todo # {} =>
            /\ rt[call.task].process # None
            /\ call.todo = {rt[call.task].process}
            /\ rt[call.task].state = "stopping"
            /\ call.prev \in {"running", "stopping"}
            /\ call.op # "restart" => ~rt[call.task].pendingStart
  /\ call.phase = "status" => call.run \in call.todo

\* Restart timers and their fires belong to continuous tasks.
TimerOwner ==
  \A t \in Tasks : timer[t] # None => t \in Continuous /\ Task(timer[t]) = t
FiresInv == \A r \in Runs, n \in Ticks : <<r, n>> \in fires => Task(r) \in Continuous

PendingInv == \A t \in Continuous : rt[t].pendingStart => rt[t].state = "stopping"

IInv ==
  /\ TypeOK /\ LedgerInv /\ OneTracked /\ UntouchedInv /\ CallInv
  /\ StateMatchesProcess /\ RestartingIsArmed /\ PendingInv
  /\ TimerOwner /\ FiresInv

\* The parts of the invariant that speak of memory, host table and timers only.
Core ==
  /\ rt \in [Tasks -> Memories]
  /\ procs \subseteq Runs /\ open \subseteq Runs
  /\ host \in [Runs -> HostStates]
  /\ timer \in [Tasks -> Runs \cup {None}]
  /\ open = procs
  /\ \A r \in Runs : Live(r) => r \in procs
  /\ \A r \in Runs, ok \in BOOLEAN : <<r, ok>> \in exits => ~Live(r)
  /\ OneTracked /\ StateMatchesProcess /\ RestartingIsArmed /\ PendingInv
  /\ TimerOwner

\* What a step about task t leaves alone.
Others(t) ==
  \A x \in Tasks \ {t} : rt'[x] = rt[x] /\ RunsOf(x)' = RunsOf(x)

LEMMA RunTask == \A r \in Runs : Task(r) \in Tasks
  BY DEF Runs, Task

LEMMA NoneIsNothing == None \notin Runs /\ None \notin Tasks
  BY ConstantsAssumption

LEMMA ZeroCount == 0 \in 0 .. CountCap
  BY ConstantsAssumption

\* A free slot belongs to its task and nothing refers to it.
LEMMA FreeFacts ==
  ASSUME NEW t \in Tasks, NEW r \in Free(t)
  PROVE  /\ r \in Runs /\ Task(r) = t
         /\ r \notin procs /\ r # timer[t]
         /\ \A ok \in BOOLEAN : <<r, ok>> \notin exits
  BY DEF Free, Runs, Task

\* Starting a continuous task that has no process, or whose process is being
\* settled, keeps the core.
LEMMA SpawnKeepsCore ==
  ASSUME Core, Up, NEW t \in tasks \cap Continuous, tasks \subseteq Tasks,
         NEW m \in Memories, NEW gone,
         ~m.pendingStart, ~m.restartTimer,
         gone = {rt[t].process} \ {None},
         \A g \in gone : ~Live(g),
         Spawn(t, m, gone),
         tasks' = tasks, exits' \subseteq exits,
         timer' = [timer EXCEPT ![t] = None]
  PROVE  Core' /\ Others(t)
<1>0. t \in Tasks /\ t \in Continuous /\ t \in tasks
  BY DEF Tasks
<1>1. PICK r \in Launches(t) :
        /\ Ledger(gone, r)
        /\ rt' = [rt EXCEPT ![t] = Spawned(m, r)]
  BY DEF Spawn
<1> DEFINE new == {r} \ {None}
<1>2. r = None \/ r \in Free(t)
  BY <1>1 DEF Launches
<1>3. /\ \A x \in new : x \in Runs /\ Task(x) = t /\ x \notin procs /\ r # timer[t]
      /\ \A x \in new, ok \in BOOLEAN : <<x, ok>> \notin exits
      /\ r \in Runs \cup {None}
  BY <1>0, <1>2, FreeFacts
<1>4. procs' = (procs \ gone) \cup new /\ open' = procs'
  BY <1>1 DEF Ledger, Core
<1>5. /\ host' \in [Runs -> HostStates]
      /\ \A x \in Runs : host'[x] = IF x = r THEN "running" ELSE host[x]
  BY <1>1 DEF Ledger, Core, HostStates
<1>6. /\ rt' \in [Tasks -> Memories]
      /\ rt'[t] = Spawned(m, r)
      /\ \A x \in Tasks \ {t} : rt'[x] = rt[x]
  <2>1. Spawned(m, r) \in Memories
    BY <1>3 DEF Spawned, Memories, States
  <2>. QED
    BY <1>0, <1>1, <2>1 DEF Core
<1>7. /\ rt'[t].process = r /\ ~rt'[t].restartTimer /\ ~rt'[t].pendingStart
      /\ rt'[t].state = IF r = None THEN "stopped" ELSE "running"
  BY <1>6 DEF Spawned, Memories
<1>8. RunsOf(t) = gone
  BY DEF Core, StateMatchesProcess
<1>9. RunsOf(t)' = new /\ Others(t)
  <2>1. RunsOf(t)' = new
    BY <1>3, <1>4, <1>8 DEF RunsOf
  <2>2. ASSUME NEW x \in Tasks \ {t} PROVE RunsOf(x)' = RunsOf(x)
    BY <1>3, <1>4, <1>8, <2>2 DEF RunsOf
  <2>. QED
    BY <1>6, <2>1, <2>2 DEF Others
<1>10. /\ timer' \in [Tasks -> Runs \cup {None}]
       /\ timer'[t] = None /\ \A x \in Tasks \ {t} : timer'[x] = timer[x]
  BY <1>0 DEF Core
<1>11. /\ procs' \subseteq Runs /\ open' \subseteq Runs
       /\ \A x \in Runs : Live(x)' => x \in procs'
       /\ \A x \in Runs, ok \in BOOLEAN : <<x, ok>> \in exits' => ~Live(x)'
  BY <1>3, <1>4, <1>5, NoneIsNothing DEF Core, Live
<1>12. OneTracked'
  <2> SUFFICES ASSUME NEW r1 \in procs', NEW r2 \in procs',
                      Task(r1) = Task(r2), Task(r1) \in Continuous
               PROVE  r1 = r2
    BY DEF OneTracked
  <2>1. CASE Task(r1) = t
    <3>1. r1 \in RunsOf(t)' /\ r2 \in RunsOf(t)'
      BY <2>1 DEF RunsOf
    <3>. QED
      BY <1>9, <3>1
  <2>2. CASE Task(r1) # t
    BY <1>3, <1>4, <2>2 DEF Core, OneTracked
  <2>. QED
    BY <2>1, <2>2
<1>13. StateMatchesProcess'
  <2> SUFFICES ASSUME NEW x \in tasks \cap Continuous
               PROVE  /\ rt'[x].state \in {"running", "stopping"} <=> rt'[x].process # None
                      /\ RunsOf(x)' = {rt'[x].process} \ {None}
    BY DEF StateMatchesProcess
  <2>1. CASE x = t
    BY <1>7, <1>9, <2>1
  <2>2. CASE x # t
    BY <1>9, <2>2 DEF Others, Core, StateMatchesProcess
  <2>. QED
    BY <2>1, <2>2
<1>14. RestartingIsArmed' /\ PendingInv'
  BY <1>0, <1>6, <1>7, <1>10 DEF Core, RestartingIsArmed, PendingInv, Tasks
<1>15. TimerOwner'
  BY <1>10 DEF Core, TimerOwner
<1>. QED
  BY <1>4, <1>5, <1>6, <1>9, <1>10, <1>11, <1>12, <1>13, <1>14, <1>15 DEF Core

\* Settling a run without starting another: the tables lose that run.
LEMMA SettleFacts ==
  ASSUME Core, NEW r \in procs, ~Live(r), Ledger({r}, None), exits' \subseteq exits
  PROVE  /\ procs' = procs \ {r} /\ open' = procs' /\ host' = host
         /\ procs' \subseteq Runs
         /\ \A x \in Runs : Live(x)' => x \in procs'
         /\ \A x \in Runs, ok \in BOOLEAN : <<x, ok>> \in exits' => ~Live(x)'
         /\ OneTracked'
         /\ \A x : RunsOf(x)' = RunsOf(x) \ {r}
         /\ \A x \in Tasks : x # Task(r) => RunsOf(x)' = RunsOf(x)
<1>1. procs' = procs \ {r} /\ open' = procs' /\ host' = host
  BY NoneIsNothing DEF Ledger, Core
<1>2. \A x : RunsOf(x)' = RunsOf(x) \ {r}
  BY <1>1 DEF RunsOf
<1>3. \A x \in Tasks : x # Task(r) => RunsOf(x)' = RunsOf(x)
  BY <1>2 DEF RunsOf
<1>. QED
  BY <1>1, <1>2, <1>3 DEF Core, OneTracked, Live

\* The branches of ContinuousExited that start nothing.
LEMMA StopKeepsCore ==
  ASSUME Core, NEW r \in procs, ~Live(r), Task(r) \in tasks \cap Continuous,
         tasks \subseteq Tasks, rt[Task(r)].process = r,
         Ledger({r}, None), exits' \subseteq exits, tasks' = tasks,
         NEW n \in Memories, rt' = [rt EXCEPT ![Task(r)] = n],
         n.process = None, ~n.pendingStart,
         \/ /\ n.state = "stopped" /\ ~n.restartTimer /\ timer' = timer
         \/ /\ n.state = "restarting" /\ n.restartTimer /\ n.desired
            /\ timer' = [timer EXCEPT ![Task(r)] = r]
  PROVE  Core' /\ Others(Task(r))
<1> DEFINE t == Task(r)
<1>0. t \in Tasks /\ t \in Continuous /\ t \in tasks /\ r \in Runs /\ r # None
  BY NoneIsNothing DEF Core
<1>1. /\ rt' \in [Tasks -> Memories] /\ rt'[t] = n
      /\ \A x \in Tasks \ {t} : rt'[x] = rt[x]
  BY <1>0 DEF Core
<1>2. timer[t] = None
  BY <1>0 DEF Core, RestartingIsArmed, StateMatchesProcess
<1>3. timer' \in [Tasks -> Runs \cup {None}] /\ TimerOwner'
  BY <1>0 DEF Core, TimerOwner
<1>4. Others(t)
  BY <1>1, SettleFacts DEF Others
<1>5. StateMatchesProcess'
  <2> SUFFICES ASSUME NEW x \in tasks \cap Continuous
               PROVE  /\ rt'[x].state \in {"running", "stopping"} <=> rt'[x].process # None
                      /\ RunsOf(x)' = {rt'[x].process} \ {None}
    BY DEF StateMatchesProcess
  <2>1. CASE x = t
    <3>1. RunsOf(t)' = RunsOf(t) \ {r} /\ RunsOf(t) = {r} \ {None}
      BY <1>0, SettleFacts DEF Core, StateMatchesProcess
    <3>. QED
      BY <1>1, <2>1, <3>1
  <2>2. CASE x # t
    BY <1>4, <2>2 DEF Others, Core, StateMatchesProcess
  <2>. QED
    BY <2>1, <2>2
<1>6. RestartingIsArmed' /\ PendingInv'
  <2> SUFFICES ASSUME NEW x \in Continuous
               PROVE  /\ rt'[x].state = "restarting" <=> timer'[x] # None
                      /\ rt'[x].restartTimer <=> timer'[x] # None
                      /\ timer'[x] # None => rt'[x].desired /\ x \in tasks
                      /\ rt'[x].pendingStart => rt'[x].state = "stopping"
    BY DEF RestartingIsArmed, PendingInv
  <2>1. CASE x = t
    BY <1>0, <1>1, <1>2, <2>1 DEF Core
  <2>2. CASE x # t
    <3>1. x \in Tasks /\ rt'[x] = rt[x] /\ timer'[x] = timer[x]
      BY <1>0, <1>1, <2>2 DEF Tasks, Core
    <3>. QED
      BY <3>1 DEF Core, RestartingIsArmed, PendingInv
  <2>. QED
    BY <2>1, <2>2
<1>. QED
  BY <1>1, <1>3, <1>4, <1>5, <1>6, SettleFacts DEF Core

LEMMA ExitedKeepsCore ==
  ASSUME Core, Up, tasks \subseteq Tasks, NEW r \in Runs, NEW ok \in BOOLEAN,
         ~Live(r), Exited(r, ok), tasks' = tasks, exits' \subseteq exits
  PROVE  /\ Core' /\ Others(Task(r))
         /\ r \notin procs => UNCHANGED <<rt, procs>>
<1> DEFINE t == Task(r)
<1>0. t \in Tasks
  BY RunTask
<1>1. CASE r \notin procs
  <2>1. UNCHANGED <<rt, procs, open, host, timer>>
    BY <1>1 DEF Exited
  <2>2. Others(t)
    BY <2>1 DEF Others, RunsOf
  <2>. QED
    BY <2>1, <2>2 DEF Core, Live, OneTracked, StateMatchesProcess, RunsOf,
                      RestartingIsArmed, PendingInv, TimerOwner
<1>2. CASE /\ r \in procs
           /\ t \notin tasks \/ (t \in Continuous /\ rt[t].process # r)
           /\ Ledger({r}, None) /\ UNCHANGED <<rt, timer>>
  <2>1. t \notin tasks \/ t \notin Continuous
    BY <1>0, <1>2 DEF Core, StateMatchesProcess, RunsOf
  <2>2. Others(t)
    BY <1>2, SettleFacts DEF Others
  <2>3. StateMatchesProcess'
    BY <1>2, <2>1, <2>2 DEF Core, StateMatchesProcess, Others
  <2>4. RestartingIsArmed' /\ PendingInv'
    BY <1>2 DEF Core, RestartingIsArmed, PendingInv
  <2>5. TimerOwner'
    BY <1>2 DEF Core, TimerOwner
  <2>. QED
    BY <1>2, <2>2, <2>3, <2>4, <2>5, SettleFacts DEF Core
<1>3. CASE r \in procs /\ t \in tasks \cap Scheduled /\ ScheduledExited(r)
  <2>0. t \notin Continuous
    BY <1>3, ConstantsAssumption
  <2>1. /\ Ledger({r}, None) /\ timer' = timer
        /\ rt' \in [Tasks -> Memories]
        /\ \A x \in Tasks \ {t} : rt'[x] = rt[x]
    <3> DEFINE a == rt[t]
               left == IF a.active > 0 THEN a.active - 1 ELSE 0
               n == [a EXCEPT !.active = left,
                              !.process = IF left = 0 THEN None ELSE @]
    <3>1. a \in Memories
      BY <1>0 DEF Core
    <3>. HIDE DEF a
    <3>2. left \in Nat
      BY <3>1 DEF Memories
    <3>. HIDE DEF left
    <3>3. n \in Memories
      BY <3>1, <3>2 DEF Memories
    <3>. HIDE DEF n
    <3>4. rt' = [rt EXCEPT ![t] = n]
      BY <1>3 DEF ScheduledExited, Left, n, a, left
    <3>. QED
      BY <1>0, <1>3, <3>3, <3>4 DEF Core, ScheduledExited
  <2>2. Others(t)
    BY <1>3, <2>1, SettleFacts DEF Others
  <2>3. StateMatchesProcess'
    BY <2>0, <2>2, <1>3 DEF Core, StateMatchesProcess, Others
  <2>4. RestartingIsArmed' /\ PendingInv'
    BY <2>0, <2>1 DEF Core, RestartingIsArmed, PendingInv, Tasks
  <2>5. TimerOwner'
    BY <2>1 DEF Core, TimerOwner
  <2>. QED
    BY <1>3, <2>1, <2>2, <2>3, <2>4, <2>5, SettleFacts DEF Core
<1>4. CASE /\ r \in procs /\ t \in tasks \cap Continuous /\ rt[t].process = r
           /\ ContinuousExited(r, ok)
  <2> DEFINE m == [rt[t] EXCEPT !.process = None, !.state = "stopped"]
             c == [m EXCEPT !.restartCount = Counted(@)]
  <2>0. /\ rt[t] \in Memories /\ timer[t] = None /\ ~rt[t].restartTimer
        /\ r # None
    BY <1>0, <1>4, NoneIsNothing DEF Core, RestartingIsArmed, StateMatchesProcess
  <2>1. /\ m \in Memories /\ m.state = "stopped" /\ m.process = None
        /\ ~m.restartTimer /\ m.pendingStart = rt[t].pendingStart
        /\ m.desired = rt[t].desired
    BY <2>0 DEF Memories, States
  <2>2. /\ c \in Memories /\ c.state = "stopped" /\ c.process = None
        /\ ~c.restartTimer /\ c.pendingStart = rt[t].pendingStart
        /\ c.desired = rt[t].desired
    <3>. HIDE DEF m
    <3>1. Counted(m.restartCount) \in 0 .. CountCap
      BY <2>1, ConstantsAssumption DEF Memories, Counted
    <3>. QED
      BY <2>1, <3>1 DEF Memories
  <2>3. CASE /\ m.pendingStart
             /\ Spawn(t, [m EXCEPT !.pendingStart = FALSE, !.restartCount = 0,
                                   !.desired = TRUE], {r})
             /\ UNCHANGED timer
    <3> DEFINE n == [m EXCEPT !.pendingStart = FALSE, !.restartCount = 0,
                              !.desired = TRUE]
    <3>1. n \in Memories /\ ~n.pendingStart /\ ~n.restartTimer
      <4>. HIDE DEF m
      <4>. QED
        BY <2>1, ZeroCount DEF Memories
    <3>2. timer' = [timer EXCEPT ![t] = None]
      BY <1>0, <2>0, <2>3 DEF Core
    <3>3. {r} = {rt[t].process} \ {None}
      BY <1>4, <2>0
    <3>. HIDE DEF n
    <3>4. Spawn(t, n, {r})
      BY <2>3 DEF n
    <3>. QED
      BY <1>4, <3>1, <3>2, <3>3, <3>4, SpawnKeepsCore
  <2>4. CASE /\ ~m.pendingStart
             /\ Ledger({r}, None) /\ rt' = [rt EXCEPT ![t] = m]
             /\ UNCHANGED timer
    BY <1>4, <2>1, <2>4, StopKeepsCore
  <2>5. CASE /\ ~m.pendingStart
             /\ Ledger({r}, None)
             /\ rt' = [rt EXCEPT ![t] = [m EXCEPT !.desired = FALSE]]
             /\ UNCHANGED timer
    <3> DEFINE n == [m EXCEPT !.desired = FALSE]
    <3>1. /\ n \in Memories /\ n.process = None /\ ~n.pendingStart
          /\ n.state = "stopped" /\ ~n.restartTimer
      BY <2>1, <2>5 DEF Memories
    <3>. QED
      BY <1>4, <2>5, <3>1, StopKeepsCore
  <2>6. CASE /\ ~m.pendingStart /\ WantsRestart(t, ok)
             /\ Ledger({r}, None)
             /\ rt' = [rt EXCEPT ![t] = [c EXCEPT !.restartTimer = TRUE,
                                                  !.state = "restarting"]]
             /\ timer' = [timer EXCEPT ![t] = r]
    <3> DEFINE n == [c EXCEPT !.restartTimer = TRUE, !.state = "restarting"]
    <3>1. /\ n \in Memories /\ n.process = None /\ ~n.pendingStart
          /\ n.state = "restarting" /\ n.restartTimer /\ n.desired
      BY <2>1, <2>2, <2>6 DEF Memories, States, WantsRestart
    <3>. QED
      BY <1>4, <2>6, <3>1, StopKeepsCore
  <2>7. CASE /\ ~m.pendingStart
             /\ Ledger({r}, None)
             /\ rt' = [rt EXCEPT ![t] = [c EXCEPT !.desired = FALSE]]
             /\ UNCHANGED timer
    <3> DEFINE n == [c EXCEPT !.desired = FALSE]
    <3>1. /\ n \in Memories /\ n.process = None /\ ~n.pendingStart
          /\ n.state = "stopped" /\ ~n.restartTimer
      BY <2>1, <2>2, <2>7 DEF Memories
    <3>. QED
      BY <1>4, <2>7, <3>1, StopKeepsCore
  <2>. QED
    BY <1>4, <2>3, <2>4, <2>5, <2>6, <2>7 DEF ContinuousExited
<1>. QED
  BY <1>1, <1>2, <1>3, <1>4 DEF Exited

-----------------------------------------------------------------------------
(* The steps of the next-state relation. *)

\* The part of the type invariant that Core does not have.
TypeRest ==
  /\ tasks \subseteq issued /\ issued \subseteq Tasks
  /\ def \in [Tasks -> ContinuousDefs \cup ScheduledDefs]
  /\ \A t \in Tasks : def[t] \in Defs(t)
  /\ call \in Calls
  /\ exits \subseteq Runs \X BOOLEAN
  /\ fires \subseteq Runs \X Ticks
  /\ schedule \subseteq Scheduled /\ due \subseteq Scheduled \X Ticks
  /\ asked \in [Tasks -> {"nothing", "start", "stop"}]

LEMMA ToCore ==
  ASSUME IInv, Up PROVE Core /\ TypeRest /\ tasks \subseteq Tasks
  BY DEF IInv, TypeOK, LedgerInv, Core, TypeRest

LEMMA FromCore ==
  ASSUME Core', TypeRest', UntouchedInv', CallInv', FiresInv', call'.phase # "down"
  PROVE  IInv'
  BY DEF IInv, TypeOK, LedgerInv, Core, TypeRest

\* Nothing Core speaks of changed, except that callbacks may have gone.
LEMMA SameCore ==
  ASSUME Core, UNCHANGED <<tasks, rt, procs, open, host, timer>>, exits' \subseteq exits
  PROVE  Core' /\ \A t : RunsOf(t)' = RunsOf(t)
  BY DEF Core, Live, OneTracked, StateMatchesProcess, RunsOf,
         RestartingIsArmed, PendingInv, TimerOwner

\* Outside init no handler cares for tasks it has not met.
LEMMA SameUntouched ==
  ASSUME UntouchedInv, UNCHANGED <<issued, tasks>>,
         call'.phase \notin {"restore", "down"},
         \A t \in Tasks \ issued : rt'[t] = rt[t] /\ RunsOf(t)' = RunsOf(t)
  PROVE  UntouchedInv'
  BY DEF UntouchedInv, Untouched

LEMMA PhaseFacts ==
  /\ \A p \in Phases, todo \in SUBSET (Runs \cup Tasks) :
       /\ Phase(p, todo) \in Calls
       /\ Phase(p, todo).phase = p /\ Phase(p, todo).todo = todo
       /\ Phase(p, todo).op = "none"
  /\ Idle \in Calls /\ Idle.phase = "idle"
  BY DEF Phase, Idle, Calls, Phases, Ops, States

LEMMA InitInv == Init => IInv
<1> SUFFICES ASSUME Init PROVE IInv
  OBVIOUS
<1>1. call \in Calls /\ call.phase = "down" /\ call.todo = {}
  BY PhaseFacts DEF Init, Phases
<1>2. Fresh \in Memories
  BY ZeroCount DEF Fresh, Memories, States
<1>3. \A t \in Tasks : NoDef(t) \in Defs(t) /\ Defs(t) \subseteq ContinuousDefs \cup ScheduledDefs
  BY ConstantsAssumption DEF NoDef, Defs
<1>4. TypeOK
  BY <1>1, <1>2, <1>3 DEF Init, TypeOK, HostStates
<1>5. LedgerInv /\ OneTracked /\ UntouchedInv /\ CallInv /\ FiresInv
  BY <1>1 DEF Init, LedgerInv, OneTracked, UntouchedInv, Untouched, CallInv,
              RunsOf, Up, Live, FiresInv
<1>6. StateMatchesProcess /\ RestartingIsArmed /\ PendingInv /\ TimerOwner
  BY DEF Init, StateMatchesProcess, RestartingIsArmed, PendingInv, TimerOwner,
         RunsOf, Fresh, Tasks
<1>. QED
  BY <1>4, <1>5, <1>6 DEF IInv

\* Down, there is nothing in the plugin's memory nor in the host's tables.
LEMMA BootInv ==
  ASSUME IInv, Boot \/ LoadFails PROVE IInv'
<1>1. /\ procs = {} /\ open' = {} /\ \A r \in Runs : ~Live(r)
      /\ UNCHANGED <<tasks, issued, def, rt, procs, host, exits, timer, fires,
                     schedule, due, asked>>
      /\ \A t \in Tasks : Untouched(t)
  BY DEF Boot, LoadFails, IInv, LedgerInv, UntouchedInv, storage
<1>2. /\ call'.phase \in {"restore", "readonly"} /\ call' \in Calls
      /\ call'.phase = "restore" => call'.todo = tasks
  <2>1. tasks \in SUBSET (Runs \cup Tasks) /\ {} \in SUBSET (Runs \cup Tasks)
    BY DEF IInv, TypeOK
  <2>2. "restore" \in Phases /\ "readonly" \in Phases
    BY DEF Phases
  <2>. QED
    BY <2>1, <2>2, PhaseFacts DEF Boot, LoadFails
<1>3. TypeOK' /\ LedgerInv'
  <2>1. TypeOK'
    BY <1>1, <1>2 DEF IInv, TypeOK
  <2>2. LedgerInv'
    BY <1>1, <1>2 DEF LedgerInv, Up, Live
  <2>. QED
    BY <2>1, <2>2
<1>4. UntouchedInv' /\ CallInv'
  <2>1. \A t \in Tasks : Untouched(t)'
    BY <1>1 DEF Untouched, RunsOf
  <2>2. tasks \subseteq Tasks
    BY DEF IInv, TypeOK
  <2>. QED
    BY <1>1, <1>2, <2>1, <2>2 DEF UntouchedInv, CallInv
<1>5. /\ OneTracked' /\ StateMatchesProcess' /\ RestartingIsArmed' /\ PendingInv'
      /\ TimerOwner' /\ FiresInv'
  BY <1>1 DEF IInv, OneTracked, StateMatchesProcess, RestartingIsArmed,
              PendingInv, TimerOwner, FiresInv, RunsOf
<1>. QED
  BY <1>3, <1>4, <1>5 DEF IInv

LEMMA GoneInv ==
  ASSUME IInv, Gone PROVE IInv'
<1>1. call' \in Calls /\ call'.phase = "down"
  BY PhaseFacts DEF Gone, Phases
<1>2. Fresh \in Memories
  BY ZeroCount DEF Fresh, Memories, States
<1>3. TypeOK'
  BY <1>1, <1>2 DEF Gone, IInv, TypeOK, HostStates, storage
<1>4. LedgerInv' /\ OneTracked' /\ UntouchedInv' /\ CallInv' /\ FiresInv'
  BY <1>1 DEF Gone, LedgerInv, OneTracked, UntouchedInv, Untouched, CallInv,
              RunsOf, Up, Live, FiresInv
<1>5. StateMatchesProcess' /\ RestartingIsArmed' /\ PendingInv' /\ TimerOwner'
  BY DEF Gone, StateMatchesProcess, RestartingIsArmed, PendingInv, TimerOwner,
         RunsOf, Fresh, Tasks
<1>. QED
  BY <1>3, <1>4, <1>5 DEF IInv

LEMMA RestoreInv ==
  ASSUME IInv, NEW t \in Tasks, Restore(t) PROVE IInv'
<1>1. /\ call.phase = "restore" /\ t \in call.todo
      /\ call' = [call EXCEPT !.todo = @ \ {t}]
      /\ UNCHANGED <<tasks, issued, def, exits, fires, due, timer>>
  BY DEF Restore, storage, queue
<1>2. Core /\ TypeRest /\ tasks \subseteq Tasks /\ Up /\ t \in tasks /\ Untouched(t)
  BY <1>1, ToCore DEF Up, IInv, UntouchedInv
<1>3. call' \in Calls /\ call'.phase = "restore" /\ call'.todo = call.todo \ {t}
  BY <1>1, <1>2 DEF TypeRest, Calls
<1>4. /\ Core' /\ Others(t)
      /\ schedule' \subseteq Scheduled /\ asked' \in [Tasks -> {"nothing", "start", "stop"}]
  <2>1. CASE UNCHANGED <<rt, procs, open, host, asked>> /\ schedule' \subseteq Scheduled
    BY <1>1, <1>2, <2>1, SameCore DEF Others, TypeRest
  <2>2. CASE /\ t \in Continuous /\ Spawn(t, [rt[t] EXCEPT !.desired = TRUE], {})
             /\ asked' = [asked EXCEPT ![t] = "start"] /\ UNCHANGED schedule
    <3> DEFINE m == [rt[t] EXCEPT !.desired = TRUE]
    <3>1. rt[t] = Fresh
      BY <1>2 DEF Untouched
    <3>2. m \in Memories /\ ~m.pendingStart /\ ~m.restartTimer
      <4> DEFINE a == rt[t]
      <4>1. a \in Memories /\ ~a.pendingStart /\ ~a.restartTimer
        <5>1. a \in Memories
          BY <1>2 DEF Core
        <5>2. ~Fresh.pendingStart /\ ~Fresh.restartTimer
          BY DEF Fresh
        <5>. QED
          BY <3>1, <5>1, <5>2
      <4>. HIDE DEF a
      <4>2. LET b == [a EXCEPT !.desired = TRUE]
            IN b \in Memories /\ ~b.pendingStart /\ ~b.restartTimer
        BY <4>1 DEF Memories
      <4>. QED
        BY <4>2 DEF a
    <3>3. {} = {rt[t].process} \ {None}
      BY <3>1 DEF Fresh
    <3>4. timer' = [timer EXCEPT ![t] = None]
      <4>1. timer[t] = None
        BY <2>2, <3>1 DEF IInv, RestartingIsArmed, Fresh
      <4>. QED
        BY <1>1, <1>2, <4>1 DEF Core
    <3>. HIDE DEF m
    <3>5. Spawn(t, m, {})
      BY <2>2 DEF m
    <3>6. Core' /\ Others(t)
      BY <1>1, <1>2, <2>2, <3>2, <3>3, <3>4, <3>5, SpawnKeepsCore
    <3>. QED
      BY <1>2, <2>2, <3>6 DEF TypeRest
  <2>. QED
    BY <1>2, <2>1, <2>2 DEF Restore, RestoreScheduled, RestoreContinuous, TypeRest
<1>5. TypeRest' /\ FiresInv' /\ CallInv'
  BY <1>1, <1>2, <1>3, <1>4 DEF TypeRest, IInv, FiresInv, CallInv
<1>6. UntouchedInv'
  <2>1. \A x \in Tasks \ {t} : Untouched(x) => Untouched(x)'
    BY <1>4 DEF Others, Untouched
  <2>. QED
    BY <1>1, <1>2, <1>3, <2>1 DEF IInv, UntouchedInv, TypeRest
<1>. QED
  BY <1>3, <1>4, <1>5, <1>6, FromCore

\* A step that moves the handler on, or does nothing but take a callback.
LEMMA QuietInv ==
  ASSUME IInv, Up, UNCHANGED <<storage, rt, procs, open, host, timer, asked>>,
         exits' \subseteq exits, fires' \subseteq fires, due' \subseteq due,
         schedule' \subseteq Scheduled,
         call' \in Calls, call'.phase \notin {"down", "restore"}, CallInv'
  PROVE  IInv'
<1>1. Core /\ TypeRest
  BY ToCore
<1>2. Core' /\ \A t : RunsOf(t)' = RunsOf(t)
  BY <1>1, SameCore DEF storage
<1>3. TypeRest' /\ FiresInv'
  BY <1>1 DEF TypeRest, storage, IInv, FiresInv
<1>4. UntouchedInv'
  BY <1>2, SameUntouched DEF IInv, storage
<1>. QED
  BY <1>2, <1>3, <1>4, FromCore

\* Only the callback queue grows.
LEMMA TickInv ==
  ASSUME IInv, NEW t \in Tasks, RestartTick(t) \/ ScheduleTick(t) PROVE IInv'
<1>1. /\ UNCHANGED <<tasks, issued, def, rt, procs, call, open, host, exits,
                     timer, schedule, asked>>
  BY DEF RestartTick, ScheduleTick, storage, memory
<1>2. fires' \subseteq Runs \X Ticks /\ due' \subseteq Scheduled \X Ticks /\ FiresInv'
  <2>1. CASE RestartTick(t)
    <3>1. timer[t] \in Runs /\ Task(timer[t]) \in Continuous /\ t \in Continuous
      BY <2>1 DEF RestartTick, IInv, TypeOK, TimerOwner
    <3>2. PICK n \in Ticks : fires' = fires \cup {<<timer[t], n>>}
      BY <2>1 DEF RestartTick
    <3>. QED
      BY <2>1, <3>1, <3>2 DEF RestartTick, IInv, TypeOK, FiresInv
  <2>2. CASE ScheduleTick(t)
    <3>1. t \in Scheduled
      BY <2>2 DEF ScheduleTick, IInv, TypeOK
    <3>. QED
      BY <2>2, <3>1 DEF ScheduleTick, IInv, TypeOK, FiresInv
  <2>. QED
    BY <2>1, <2>2
<1>3. TypeOK' /\ LedgerInv'
  BY <1>1, <1>2 DEF IInv, TypeOK, LedgerInv, Up, Live
<1>4. UntouchedInv' /\ CallInv'
  BY <1>1 DEF IInv, UntouchedInv, Untouched, CallInv, RunsOf
<1>5. /\ OneTracked' /\ StateMatchesProcess' /\ RestartingIsArmed' /\ PendingInv'
      /\ TimerOwner'
  BY <1>1 DEF IInv, OneTracked, StateMatchesProcess, RestartingIsArmed,
              PendingInv, TimerOwner, RunsOf
<1>. QED
  BY <1>2, <1>3, <1>4, <1>5 DEF IInv

\* While it shuts down the plugin signals and closes, and forgets at the end.
LEMMA ShutdownInv ==
  ASSUME IInv, Shutdown \/ \E r \in Runs : ShutdownStep(r) PROVE IInv'
<1>1. /\ UNCHANGED <<tasks, issued, def, rt, procs, exits, fires, due, timer,
                     schedule, asked>>
      /\ call' \in Calls /\ call'.phase = "shutdown"
      /\ open' \subseteq open
  <2>1. CASE Shutdown
    <3>1. procs \in SUBSET (Runs \cup Tasks) /\ "shutdown" \in Phases
      BY DEF IInv, TypeOK, Phases
    <3>. QED
      BY <2>1, <3>1, PhaseFacts DEF Shutdown, storage, queue
  <2>2. ASSUME NEW r \in Runs, ShutdownStep(r)
        PROVE  /\ UNCHANGED <<tasks, issued, def, rt, procs, exits, fires, due,
                              timer, schedule, asked>>
               /\ call' \in Calls /\ call'.phase = "shutdown"
               /\ open' \subseteq open
    BY <2>2 DEF ShutdownStep, storage, queue, IInv, TypeOK, Calls
  <2>. QED
    BY <2>1, <2>2
<1>2. host' \in [Runs -> HostStates] /\ \A r \in Runs : Live(r)' => Live(r)
  BY DEF Shutdown, ShutdownStep, IInv, TypeOK, HostStates, Live
<1>3. TypeOK'
  BY <1>1, <1>2 DEF IInv, TypeOK
<1>4. LedgerInv'
  BY <1>1, <1>2 DEF IInv, LedgerInv, Up
<1>5. UntouchedInv' /\ CallInv'
  BY <1>1 DEF IInv, UntouchedInv, Untouched, CallInv, RunsOf
<1>6. /\ OneTracked' /\ StateMatchesProcess' /\ RestartingIsArmed' /\ PendingInv'
      /\ TimerOwner' /\ FiresInv'
  BY <1>1 DEF IInv, OneTracked, StateMatchesProcess, RestartingIsArmed,
              PendingInv, TimerOwner, FiresInv, RunsOf
<1>. QED
  BY <1>3, <1>4, <1>5, <1>6 DEF IInv

\* An exit reaches the plugin outside init: what the handler knows afterwards
\* is left to the caller.
LEMMA ExitedInv ==
  ASSUME IInv, Up, NEW r \in Runs, NEW ok \in BOOLEAN, ~Live(r), Exited(r, ok),
         UNCHANGED <<storage, fires, due, schedule, asked>>, exits' \subseteq exits,
         call' \in Calls, call'.phase \notin {"down", "restore"}, CallInv'
  PROVE  IInv'
<1>1. Core /\ TypeRest /\ tasks \subseteq Tasks
  BY ToCore
<1>2. /\ Core' /\ Others(Task(r))
      /\ r \notin procs => UNCHANGED <<rt, procs>>
  BY <1>1, ExitedKeepsCore DEF storage
<1>3. TypeRest' /\ FiresInv'
  BY <1>1 DEF TypeRest, storage, IInv, FiresInv
<1>4. \A t \in Tasks \ issued : rt'[t] = rt[t] /\ RunsOf(t)' = RunsOf(t)
  <2>1. CASE r \notin procs
    BY <1>2, <2>1 DEF RunsOf
  <2>2. CASE r \in procs
    BY <1>2, <2>2 DEF IInv, UntouchedInv, Untouched, RunsOf, Others
  <2>. QED
    BY <2>1, <2>2
<1>5. UntouchedInv'
  BY <1>4, SameUntouched DEF IInv, storage
<1>. QED
  BY <1>2, <1>3, <1>5, FromCore

LEMMA DeliverExitInv ==
  ASSUME IInv, NEW r \in Runs, DeliverExit(r) PROVE IInv'
<1>1. PICK ok \in BOOLEAN : <<r, ok>> \in exits /\ Exited(r, ok) /\ exits' \subseteq exits
  BY DEF DeliverExit
<1>2. ~Live(r)
  BY <1>1 DEF IInv, LedgerInv
<1>3. /\ UNCHANGED <<storage, call, fires, due, schedule, asked>>
      /\ call.phase = "idle" /\ Up
  BY DEF DeliverExit, Up
<1>4. call' \in Calls /\ CallInv'
  BY <1>3 DEF IInv, TypeOK, CallInv
<1>. QED
  BY <1>1, <1>2, <1>3, <1>4, ExitedInv

\* A start of continuous task t by a handler that ends, or a callback.
LEMMA SpawnInv ==
  ASSUME IInv, Up, NEW t \in tasks \cap Continuous, rt[t].process = None,
         NEW m \in Memories, ~m.pendingStart, ~m.restartTimer, Spawn(t, m, {}),
         timer' = [timer EXCEPT ![t] = None],
         UNCHANGED <<storage, exits, due, schedule>>, fires' \subseteq fires,
         asked' \in [Tasks -> {"nothing", "start", "stop"}],
         call' \in Calls, call'.phase = "idle"
  PROVE  IInv'
<1>1. Core /\ TypeRest /\ tasks \subseteq Tasks /\ t \in issued
  BY ToCore DEF TypeRest
<1>2. Core' /\ Others(t)
  <2>1. {} = {rt[t].process} \ {None} /\ tasks' = tasks /\ exits' \subseteq exits
    BY DEF storage
  <2>. QED
    BY <1>1, <2>1, SpawnKeepsCore
<1>3. TypeRest' /\ FiresInv' /\ CallInv'
  BY <1>1 DEF TypeRest, storage, IInv, FiresInv, CallInv
<1>4. UntouchedInv'
  BY <1>1, <1>2, SameUntouched DEF IInv, storage, Others
<1>. QED
  BY <1>2, <1>3, <1>4, FromCore

LEMMA RestartFiredInv ==
  ASSUME IInv, NEW r \in Runs, RestartFired(r) PROVE IInv'
<1> DEFINE t == Task(r)
           m == [rt[t] EXCEPT !.restartTimer = FALSE]
<1>1. /\ call.phase = "idle" /\ Up /\ call' = call
      /\ UNCHANGED <<storage, exits, due, schedule, asked>> /\ fires' \subseteq fires
      /\ timer' = [timer EXCEPT ![t] = None]
  BY DEF RestartFired, Up
<1>2. Core /\ TypeRest /\ tasks \subseteq Tasks /\ t \in Tasks
  BY <1>1, ToCore, RunTask
<1>3. t \in Continuous
  BY DEF RestartFired, IInv, FiresInv
<1>4. /\ rt[t] \in Memories /\ m \in Memories /\ ~m.restartTimer
      /\ m.state = rt[t].state /\ m.desired = rt[t].desired
      /\ m.pendingStart = rt[t].pendingStart /\ m.process = rt[t].process
  <2> DEFINE a == rt[t]
  <2>1. a \in Memories
    BY <1>2 DEF Core
  <2>. HIDE DEF a
  <2>2. LET b == [a EXCEPT !.restartTimer = FALSE]
        IN /\ b \in Memories /\ ~b.restartTimer
           /\ b.state = a.state /\ b.desired = a.desired
           /\ b.pendingStart = a.pendingStart /\ b.process = a.process
    BY <2>1 DEF Memories
  <2>. QED
    BY <2>1, <2>2 DEF a
<1>5. CASE timer[t] = None /\ ~rt[t].restartTimer /\ UNCHANGED <<procs, open, host>>
           /\ (rt' = rt \/ rt' = [rt EXCEPT ![t] = m])
  <2>1. m = rt[t]
    <3> DEFINE a == rt[t]
    <3>1. a \in Memories /\ a.restartTimer = FALSE
      BY <1>4, <1>5 DEF Memories
    <3>. HIDE DEF a
    <3>2. [a EXCEPT !.restartTimer = FALSE] = a
      BY <3>1 DEF Memories
    <3>. QED
      BY <3>2 DEF a
  <2>2. rt' = rt /\ timer' = timer
    BY <1>1, <1>2, <1>5, <2>1 DEF Core
  <2>3. call' \in Calls /\ CallInv'
    BY <1>1, <1>2 DEF TypeRest, CallInv
  <2>. QED
    BY <1>1, <1>2, <1>5, <2>2, <2>3, QuietInv DEF TypeRest
<1>6. CASE t \in tasks /\ m.state = "restarting" /\ m.desired /\ Spawn(t, m, {})
  <2>1. rt[t].process = None /\ ~m.pendingStart
    BY <1>2, <1>3, <1>4, <1>6 DEF IInv, StateMatchesProcess, PendingInv
  <2>2. call' \in Calls /\ call'.phase = "idle"
    BY <1>1, <1>2 DEF TypeRest
  <2>. HIDE DEF m
  <2>. QED
    BY <1>1, <1>2, <1>3, <1>4, <1>6, <2>1, <2>2, SpawnInv DEF TypeRest
<1>. QED
  <2>1. CASE t \notin tasks /\ UNCHANGED <<rt, procs, open, host>>
    BY <1>3, <1>5, <2>1 DEF IInv, RestartingIsArmed
  <2>2. CASE /\ t \in tasks /\ ~(m.state = "restarting" /\ m.desired)
             /\ rt' = [rt EXCEPT ![t] = m] /\ UNCHANGED <<procs, open, host>>
    BY <1>3, <1>4, <1>5, <2>2 DEF IInv, RestartingIsArmed
  <2>. QED
    BY <1>6, <2>1, <2>2 DEF RestartFired, Wanted

\* A launch of a scheduled task.
LEMMA RunNowInv ==
  ASSUME IInv, Up, NEW t \in tasks \cap Scheduled, RunNow(t),
         UNCHANGED <<storage, exits, fires, timer, schedule, asked>>,
         due' \subseteq due, call' \in Calls, call'.phase = "idle"
  PROVE  IInv'
<1>0. t \in Tasks /\ t \notin Continuous
  BY ConstantsAssumption DEF Tasks
<1>1. Core /\ TypeRest /\ tasks \subseteq Tasks /\ t \in issued
  BY ToCore DEF TypeRest
<1>2. CASE UNCHANGED <<rt, procs, open, host>>
  BY <1>1, <1>2, QuietInv DEF TypeRest, CallInv
<1>3. ASSUME NEW r \in Launches(t), Ledger({}, r),
             rt' = IF r = None THEN rt
                   ELSE [rt EXCEPT ![t].active = @ + 1, ![t].process = r,
                                   ![t].state = "running"]
      PROVE  IInv'
  <2>1. CASE r = None
    <3>1. procs' = procs /\ open' = open /\ host' = host /\ rt' = rt
      BY <1>1, <1>3, <2>1, NoneIsNothing DEF Ledger, Core
    <3>. QED
      BY <3>1, <1>2
  <2>2. CASE r # None
    <3>1. r \in Free(t)
      BY <1>3, <2>2 DEF Launches
    <3>2. /\ r \in Runs /\ Task(r) = t /\ r \notin procs
          /\ \A ok \in BOOLEAN : <<r, ok>> \notin exits
      BY <1>0, <3>1, FreeFacts
    <3>3. /\ procs' = procs \cup {r} /\ open' = procs'
          /\ host' \in [Runs -> HostStates]
          /\ \A x \in Runs : host'[x] = IF x = r THEN "running" ELSE host[x]
      BY <1>1, <1>3, <2>2 DEF Ledger, Core, HostStates
    <3>4. rt' \in [Tasks -> Memories] /\ \A x \in Tasks \ {t} : rt'[x] = rt[x]
      <4> DEFINE a == rt[t]
                 k == a.active + 1
                 n == [a EXCEPT !.active = k, !.process = r, !.state = "running"]
      <4>1. a \in Memories /\ k \in Nat
        BY <1>0, <1>1 DEF Core, Memories
      <4>. HIDE DEF a, k
      <4>2. n \in Memories
        BY <3>2, <4>1 DEF Memories, States
      <4>. HIDE DEF n
      <4>3. rt' = [rt EXCEPT ![t] = n]
        BY <1>3, <2>2 DEF n, a, k
      <4>. QED
        BY <1>0, <1>1, <4>2, <4>3 DEF Core
    <3>5. /\ \A x \in Tasks \ {t} : RunsOf(x)' = RunsOf(x)
          /\ Others(t)
      BY <3>2, <3>3, <3>4 DEF RunsOf, Others
    <3>6. OneTracked' /\ StateMatchesProcess' /\ RestartingIsArmed' /\ PendingInv'
      <4>1. OneTracked'
        BY <1>0, <1>1, <3>2, <3>3 DEF Core, OneTracked
      <4>2. StateMatchesProcess'
        BY <1>0, <1>1, <3>5 DEF Core, StateMatchesProcess, Others, storage
      <4>3. RestartingIsArmed' /\ PendingInv'
        BY <1>0, <1>1, <3>4 DEF Core, RestartingIsArmed, PendingInv, Tasks, storage
      <4>. QED
        BY <4>1, <4>2, <4>3
    <3>7. Core'
      BY <1>1, <3>2, <3>3, <3>4, <3>6 DEF Core, Live, TimerOwner
    <3>8. TypeRest' /\ FiresInv' /\ CallInv'
      BY <1>1 DEF TypeRest, storage, IInv, FiresInv, CallInv
    <3>9. UntouchedInv'
      BY <1>1, <3>5, SameUntouched DEF IInv, storage, Others
    <3>. QED
      BY <3>7, <3>8, <3>9, FromCore
  <2>. QED
    BY <2>1, <2>2
<1>. QED
  BY <1>2, <1>3 DEF RunNow

LEMMA TaskFiredInv ==
  ASSUME IInv, NEW t \in Tasks, TaskFired(t) PROVE IInv'
<1>1. /\ call.phase = "idle" /\ call' = call /\ Up /\ due' \subseteq due
      /\ UNCHANGED <<storage, exits, fires, timer, asked>>
  BY DEF TaskFired, Up
<1>2. call' \in Calls /\ CallInv' /\ schedule \subseteq Scheduled /\ t \in Scheduled
  BY <1>1 DEF IInv, TypeOK, CallInv, TaskFired
<1>3. CASE schedule' = schedule \ {t} /\ UNCHANGED <<rt, procs, open, host>>
  BY <1>1, <1>2, <1>3, QuietInv
<1>4. CASE t \in tasks /\ RunNow(t) /\ UNCHANGED schedule
  BY <1>1, <1>2, <1>4, RunNowInv
<1>. QED
  BY <1>3, <1>4 DEF TaskFired

LEMMA RestoredInv ==
  ASSUME IInv, Restored PROVE IInv'
<1>1. Up /\ call' \in Calls /\ call'.phase = "idle" /\ CallInv'
  BY PhaseFacts DEF Restored, Up, CallInv
<1>. QED
  BY <1>1, QuietInv DEF Restored, queue, IInv, TypeOK

LEMMA ReconcileInv ==
  ASSUME IInv, NEW op \in Ops, NEW t \in Tasks \cup {None}, Reconcile(op, t),
         op = "check" \/ (op # "none" /\ t \in tasks)
  PROVE  IInv'
<1>1. /\ Up /\ call' \in Calls /\ call'.phase = "reconcile"
      /\ call'.op = op /\ call'.task = t
  <2>1. procs \in SUBSET (Runs \cup Tasks) /\ "reconcile" \in Phases
    BY DEF IInv, TypeOK, Phases
  <2> DEFINE c == Phase("reconcile", procs)
  <2>2. c \in Calls /\ c.phase = "reconcile"
    BY <2>1, PhaseFacts
  <2>3. call' = [c EXCEPT !.op = op, !.task = t] /\ Up
    BY DEF Reconcile, Up
  <2>. HIDE DEF c
  <2>. QED
    BY <2>2, <2>3 DEF Calls
<1>2. CallInv'
  BY <1>1 DEF CallInv, Reconcile, storage
<1>. QED
  BY <1>1, <1>2, QuietInv DEF Reconcile, queue, IInv, TypeOK

LEMMA ReconcileStepInv ==
  ASSUME IInv, NEW r \in Runs, ReconcileStep(r) PROVE IInv'
<1>1. /\ Up /\ call' \in Calls /\ call'.phase = "reconcile"
      /\ call'.op = call.op /\ call'.task = call.task
  BY DEF ReconcileStep, Up, IInv, TypeOK, Calls
<1>2. CallInv'
  BY <1>1 DEF CallInv, ReconcileStep, IInv, storage
<1>3. CASE UNCHANGED <<rt, procs, open, host, timer>>
  BY <1>1, <1>2, <1>3, QuietInv DEF ReconcileStep, queue, IInv, TypeOK
<1>4. CASE ~Live(r) /\ Exited(r, host[r] = "succeeded")
  BY <1>1, <1>2, <1>4, ExitedInv DEF ReconcileStep, queue
<1>. QED
  BY <1>3, <1>4 DEF ReconcileStep

LEMMA ReturnInv ==
  ASSUME IInv, Return PROVE IInv'
<1>1. Up /\ call' \in Calls /\ call'.phase = "idle" /\ CallInv'
  BY PhaseFacts DEF Return, MayStart, Up, CallInv
<1>. QED
  BY <1>1, QuietInv DEF Return, MayStart, queue, IInv, TypeOK

LEMMA ReconciledFacts ==
  ASSUME IInv, NEW op \in Ops \ {"none", "check"}, Reconciled(op)
  PROVE  Up /\ call.task \in tasks /\ call.task \in Tasks
  BY DEF Reconciled, Up, IInv, CallInv, TypeOK

LEMMA StartTaskInv ==
  ASSUME IInv, Up, NEW t \in tasks \cap Continuous, StartTask(t) PROVE IInv'
<1> DEFINE m == [rt[t] EXCEPT !.desired = TRUE, !.restartTimer = FALSE,
                              !.restartCount = 0, !.pendingStart = FALSE]
<1>1. Core /\ TypeRest /\ t \in Tasks
  BY ToCore
<1>2. rt[t].process = None
  BY DEF StartTask, MayStart, IInv, StateMatchesProcess
<1>3. m \in Memories /\ ~m.pendingStart /\ ~m.restartTimer
  <2> DEFINE a == rt[t]
  <2>1. a \in Memories
    BY <1>1 DEF Core
  <2>. HIDE DEF a
  <2>2. LET b == [a EXCEPT !.desired = TRUE, !.restartTimer = FALSE,
                           !.restartCount = 0, !.pendingStart = FALSE]
        IN b \in Memories /\ ~b.pendingStart /\ ~b.restartTimer
    BY <2>1, ZeroCount DEF Memories
  <2>. QED
    BY <2>2 DEF a
<1>4. timer' = [timer EXCEPT ![t] = None]
  <2>1. rt[t].restartTimer <=> timer[t] # None
    BY <1>1 DEF IInv, RestartingIsArmed
  <2>. QED
    BY <1>1, <2>1 DEF StartTask, CancelTimer, Core
<1>5. /\ asked' \in [Tasks -> {"nothing", "start", "stop"}]
      /\ call' \in Calls /\ call'.phase = "idle"
      /\ UNCHANGED <<storage, exits, fires, due, schedule>>
      /\ Spawn(t, m, {})
  BY <1>1, PhaseFacts DEF StartTask, TypeRest, queue
<1>. HIDE DEF m
<1>. QED
  BY <1>2, <1>3, <1>4, <1>5, SpawnInv

\* Stop, delete and restart up to their first terminate.  Delete takes the
\* task out of `tasks` in the same step.
LEMMA StopTaskInv ==
  ASSUME IInv, Up, NEW t \in tasks, NEW pending \in BOOLEAN, StopTask(t, pending),
         pending => t \in Continuous /\ rt[t].process # None /\ call.op = "restart",
         call.task = t, call.op \in {"stop", "restart", "delete"},
         tasks' = IF call.op = "delete" THEN tasks \ {t} ELSE tasks,
         def' \in [Tasks -> ContinuousDefs \cup ScheduledDefs],
         \A x \in Tasks : def'[x] \in Defs(x),
         asked' \in [Tasks -> {"nothing", "start", "stop"}]
  PROVE  IInv'
<1>1. Core /\ TypeRest /\ t \in Tasks /\ t \in issued
  BY ToCore DEF TypeRest
<1> DEFINE m == [rt[t] EXCEPT !.desired = FALSE, !.restartTimer = FALSE,
                              !.pendingStart = pending]
           left == IF t \in Scheduled THEN RunsOf(t) ELSE {rt[t].process} \ {None}
           n == IF t \in Scheduled THEN m
                ELSE [m EXCEPT !.state = IF left = {} THEN "stopped" ELSE "stopping"]
<1>2. t \in Scheduled \/ t \in Continuous
  BY <1>1 DEF Tasks
<1>3. t \in Continuous => t \notin Scheduled
  BY ConstantsAssumption
<1>4. left \subseteq Runs /\ \A r \in left : Task(r) = t
  BY <1>1, <1>2 DEF Core, RunsOf, StateMatchesProcess, Memories
<1>5. /\ n \in Memories /\ n.process = rt[t].process /\ ~n.restartTimer
      /\ n.pendingStart = pending
      /\ t \in Continuous => n.state = IF rt[t].process = None
                                       THEN "stopped" ELSE "stopping"
  <2> DEFINE a == rt[t]
             s == IF t \in Scheduled THEN a.state
                  ELSE IF left = {} THEN "stopped" ELSE "stopping"
             b == [a EXCEPT !.desired = FALSE, !.restartTimer = FALSE,
                            !.pendingStart = pending, !.state = s]
  <2>1. a \in Memories /\ s \in States
    BY <1>1 DEF Core, Memories, States
  <2>2. t \in Continuous => s = IF rt[t].process = None THEN "stopped" ELSE "stopping"
    BY <1>3
  <2>3. n = b
    <3>. HIDE DEF left
    <3>1. CASE t \in Scheduled
      <4>1. m \in Memories /\ m.state = a.state
        <5>. HIDE DEF a
        <5>1. LET c == [a EXCEPT !.desired = FALSE, !.restartTimer = FALSE,
                                 !.pendingStart = pending]
              IN c \in Memories /\ c.state = a.state
          BY <2>1 DEF Memories
        <5>. QED
          BY <5>1 DEF a
      <4>2. n = m /\ b = [m EXCEPT !.state = a.state]
        BY <3>1
      <4>. QED
        BY <4>1, <4>2 DEF Memories
    <3>2. CASE t \notin Scheduled
      BY <3>2
    <3>. QED
      BY <3>1, <3>2
  <2>. HIDE DEF a, s, n
  <2>4. b \in Memories /\ b.process = a.process /\ ~b.restartTimer
        /\ b.pendingStart = pending /\ b.state = s
    BY <2>1 DEF Memories
  <2>. QED
    BY <2>2, <2>3, <2>4 DEF a
<1>6. /\ rt' \in [Tasks -> Memories] /\ rt'[t] = n
      /\ \A x \in Tasks \ {t} : rt'[x] = rt[x]
  <2>1. rt' = [rt EXCEPT ![t] = n]
    BY DEF StopTask
  <2>. HIDE DEF n
  <2>. QED
    BY <1>1, <1>5, <2>1 DEF Core
<1>7. /\ call' = [call EXCEPT !.phase = "halt", !.todo = left, !.prev = rt[t].state]
      /\ UNCHANGED <<issued, procs, open, host, exits, fires, due, schedule>>
  BY DEF StopTask, queue
<1>8. /\ call' \in Calls /\ call'.phase = "halt" /\ call'.todo = left
      /\ call'.prev = rt[t].state /\ call'.op = call.op /\ call'.task = t
  <2>1. rt[t].state \in States /\ left \in SUBSET (Runs \cup Tasks)
    BY <1>1, <1>4 DEF Core, Memories
  <2>. HIDE DEF left
  <2>. QED
    BY <1>1, <1>7, <2>1 DEF TypeRest, Calls, Phases
<1>9. timer' = [timer EXCEPT ![t] = None]
  <2>1. t \in Continuous => (rt[t].restartTimer <=> timer[t] # None)
    BY <1>1 DEF IInv, RestartingIsArmed
  <2>2. t \notin Continuous => timer[t] = None
    BY <1>1 DEF IInv, TimerOwner
  <2>. QED
    BY <1>1, <2>1, <2>2 DEF StopTask, CancelTimer, Core
<1>. HIDE DEF n, m
<1>10. StateMatchesProcess' /\ RestartingIsArmed' /\ PendingInv'
  <2>1. tasks' \subseteq tasks
    OBVIOUS
  <2>2. StateMatchesProcess'
    <3> SUFFICES ASSUME NEW x \in tasks' \cap Continuous
                 PROVE  /\ rt'[x].state \in {"running", "stopping"} <=> rt'[x].process # None
                        /\ RunsOf(x)' = {rt'[x].process} \ {None}
      BY DEF StateMatchesProcess
    <3>1. RunsOf(x)' = RunsOf(x) /\ x \in Tasks /\ x \in tasks
      BY <1>7, <2>1 DEF RunsOf, Tasks
    <3>. QED
      BY <1>1, <1>5, <1>6, <3>1 DEF Core, StateMatchesProcess
  <2>3. \A x \in Continuous : x # t => rt'[x] = rt[x] /\ timer'[x] = timer[x]
    BY <1>1, <1>6, <1>9 DEF Tasks, Core
  <2>4. timer'[t] = None
    BY <1>1, <1>9 DEF Core
  <2>5. \A x \in Continuous : timer[x] # None /\ x # t => x \in tasks'
    BY <1>1 DEF Core, RestartingIsArmed
  <2>6. RestartingIsArmed'
    <3> SUFFICES ASSUME NEW x \in Continuous
                 PROVE  /\ rt'[x].state = "restarting" <=> timer'[x] # None
                        /\ rt'[x].restartTimer <=> timer'[x] # None
                        /\ timer'[x] # None => rt'[x].desired /\ x \in tasks'
      BY DEF RestartingIsArmed
    <3>1. CASE x = t
      BY <1>5, <1>6, <2>4, <3>1
    <3>2. CASE x # t
      BY <1>1, <2>3, <2>5, <3>2 DEF Core, RestartingIsArmed
    <3>. QED
      BY <3>1, <3>2
  <2>7. PendingInv'
    BY <1>1, <1>5, <1>6, <2>3 DEF Core, PendingInv
  <2>. QED
    BY <2>2, <2>6, <2>7
<1>11. Core'
  <2>1. timer' \in [Tasks -> Runs \cup {None}] /\ TimerOwner'
    BY <1>1, <1>9 DEF Core, TimerOwner
  <2>2. OneTracked'
    BY <1>1, <1>7 DEF Core, OneTracked
  <2>. QED
    BY <1>1, <1>6, <1>7, <1>10, <2>1, <2>2 DEF Core, Live
<1>12. TypeRest' /\ FiresInv'
  BY <1>1, <1>7, <1>8 DEF TypeRest, IInv, FiresInv
<1>13. UntouchedInv'
  <2>1. \A x \in Tasks \ issued : rt'[x] = rt[x] /\ RunsOf(x)' = RunsOf(x)
    BY <1>1, <1>6, <1>7 DEF RunsOf
  <2>. QED
    BY <1>7, <1>8, <2>1 DEF IInv, UntouchedInv, Untouched
<1>14. CallInv'
  <2>1. t \in tasks' <=> call.op # "delete"
    OBVIOUS
  <2>2. /\ t \in Continuous /\ left # {} =>
             /\ rt'[t].process # None /\ left = {rt'[t].process}
             /\ rt'[t].state = "stopping"
             /\ rt[t].state \in {"running", "stopping"}
             /\ call.op # "restart" => ~rt'[t].pendingStart
    BY <1>1, <1>3, <1>5, <1>6 DEF Core, StateMatchesProcess
  <2>. QED
    BY <1>1, <1>4, <1>7, <1>8, <2>1, <2>2 DEF CallInv
<1>. QED
  BY <1>8, <1>11, <1>12, <1>13, <1>14, FromCore

LEMMA OperationInv ==
  ASSUME IInv, Start \/ Run \/ Stop \/ Restart \/ Delete PROVE IInv'
<1> DEFINE t == call.task
<1>1. CASE Start
  <2>1. Up /\ t \in tasks \cap Continuous
    BY <1>1, ReconciledFacts DEF Start, Ops
  <2>. QED
    BY <1>1, <2>1, StartTaskInv DEF Start
<1>2. CASE Run
  <2>1. Up /\ t \in tasks \cap Scheduled
    BY <1>2, ReconciledFacts DEF Run, Ops
  <2>2. call' \in Calls /\ call'.phase = "idle"
    BY <1>2, PhaseFacts DEF Run
  <2>. QED
    BY <1>2, <2>1, <2>2, RunNowInv DEF Run, queue
<1>3. CASE Stop
  <2>1. Up /\ t \in tasks /\ t \in Tasks /\ call.op = "stop"
    BY <1>3, ReconciledFacts DEF Stop, Reconciled, Ops
  <2>2. asked' \in [Tasks -> {"nothing", "start", "stop"}]
    BY <1>3, <2>1 DEF Stop, IInv, TypeOK
  <2>. QED
    BY <1>3, <2>1, <2>2, StopTaskInv DEF Stop, IInv, TypeOK
<1>4. CASE Restart
  <2>1. Up /\ t \in tasks \cap Continuous /\ t \in Tasks /\ call.op = "restart"
    BY <1>4, ReconciledFacts DEF Restart, Reconciled, Ops
  <2>2. CASE StartTask(t)
    BY <2>1, <2>2, StartTaskInv
  <2>3. CASE /\ rt[t].process # None /\ StopTask(t, TRUE)
             /\ asked' = [asked EXCEPT ![t] = "start"] /\ UNCHANGED <<tasks, def>>
    <3>1. asked' \in [Tasks -> {"nothing", "start", "stop"}]
      BY <2>1, <2>3 DEF IInv, TypeOK
    <3>. QED
      BY <2>1, <2>3, <3>1, StopTaskInv DEF IInv, TypeOK
  <2>. QED
    BY <1>4, <2>2, <2>3 DEF Restart
<1>5. CASE Delete
  <2>1. Up /\ t \in tasks /\ t \in Tasks /\ call.op = "delete"
    BY <1>5, ReconciledFacts DEF Delete, Reconciled, Ops
  <2>2. asked' \in [Tasks -> {"nothing", "start", "stop"}]
    BY <1>5, <2>1 DEF Delete, IInv, TypeOK
  <2>3. /\ def' \in [Tasks -> ContinuousDefs \cup ScheduledDefs]
        /\ \A x \in Tasks : def'[x] \in Defs(x)
    <3>1. NoDef(t) \in Defs(t) /\ Defs(t) \subseteq ContinuousDefs \cup ScheduledDefs
      BY ConstantsAssumption DEF NoDef, Defs
    <3>2. def' = [def EXCEPT ![t] = NoDef(t)]
      BY <1>5 DEF Delete
    <3>. QED
      BY <2>1, <3>1, <3>2 DEF IInv, TypeOK
  <2>. QED
    BY <1>5, <2>1, <2>2, <2>3, StopTaskInv DEF Delete
<1>. QED
  BY <1>1, <1>2, <1>3, <1>4, <1>5

\* What is left to do in a terminate loop once run r was dealt with.
LEMMA HaltLoop ==
  ASSUME IInv, NEW r \in call.todo, call.phase \in {"halt", "status"},
         call' \in Calls, call'.phase = "halt", call'.op = call.op,
         call'.task = call.task, call'.todo = call.todo \ {r},
         UNCHANGED <<tasks, issued>>
  PROVE  CallInv'
  BY DEF IInv, CallInv

LEMMA TerminateInv ==
  ASSUME IInv, NEW r \in Runs, Terminate(r) PROVE IInv'
<1>1. /\ Up /\ call.phase = "halt" /\ r \in call.todo /\ call \in Calls
      /\ UNCHANGED <<storage, exits, fires, due, schedule, asked>>
  BY DEF Terminate, Up, queue, IInv, TypeOK
<1>2. CASE /\ ~Live(r) /\ Exited(r, host[r] = "succeeded")
           /\ call' = [call EXCEPT !.todo = @ \ {r}]
  <2>1. /\ call' \in Calls /\ call'.phase = "halt" /\ call'.op = call.op
        /\ call'.task = call.task /\ call'.todo = call.todo \ {r}
    BY <1>1, <1>2 DEF Calls
  <2>2. CallInv'
    BY <1>1, <2>1, HaltLoop DEF storage
  <2>. QED
    BY <1>1, <1>2, <2>1, <2>2, ExitedInv
<1>3. CASE /\ Live(r) /\ host' = [host EXCEPT ![r] = "killed"]
           /\ call' = [call EXCEPT !.phase = "status", !.run = r]
           /\ UNCHANGED <<rt, procs, open, timer>>
  <2>1. /\ call' \in Calls /\ call'.phase = "status" /\ call'.op = call.op
        /\ call'.task = call.task /\ call'.todo = call.todo /\ call'.run = r
        /\ call'.prev = call.prev
    BY <1>1, <1>3 DEF Calls, Phases
  <2>2. CallInv'
    BY <1>1, <1>3, <2>1 DEF IInv, CallInv, storage
  <2>3. Core /\ TypeRest
    BY <1>1, ToCore
  <2>4. host' \in [Runs -> HostStates] /\ \A x \in Runs : Live(x)' <=> Live(x)
    BY <1>3, <2>3 DEF Core, HostStates, Live
  <2>5. Core' /\ \A x : RunsOf(x)' = RunsOf(x)
    BY <1>1, <1>3, <2>3, <2>4 DEF Core, OneTracked, StateMatchesProcess, RunsOf,
                RestartingIsArmed, PendingInv, TimerOwner, storage
  <2>6. TypeRest' /\ FiresInv'
    BY <1>1, <2>1, <2>3 DEF TypeRest, storage, IInv, FiresInv
  <2>7. UntouchedInv'
    BY <1>1, <1>3, <2>1, <2>5, SameUntouched DEF IInv, storage
  <2>. QED
    BY <2>1, <2>2, <2>5, <2>6, <2>7, FromCore
<1>. QED
  BY <1>2, <1>3 DEF Terminate

LEMMA TerminateStatusInv ==
  ASSUME IInv, TerminateStatus PROVE IInv'
<1> DEFINE r == call.run
<1>1. /\ Up /\ call.phase = "status" /\ r \in call.todo /\ call \in Calls
      /\ r \in Runs
      /\ UNCHANGED <<storage, exits, fires, due, schedule, asked>>
      /\ call' = [call EXCEPT !.phase = "halt", !.todo = @ \ {r}, !.run = None]
  BY DEF TerminateStatus, Up, queue, IInv, TypeOK, CallInv
<1>2. /\ call' \in Calls /\ call'.phase = "halt" /\ call'.op = call.op
      /\ call'.task = call.task /\ call'.todo = call.todo \ {r}
  BY <1>1 DEF Calls, Phases
<1>3. CallInv'
  BY <1>1, <1>2, HaltLoop DEF storage
<1>4. CASE UNCHANGED <<rt, procs, open, host, timer>>
  BY <1>1, <1>2, <1>3, <1>4, QuietInv DEF IInv, TypeOK
<1>5. CASE ~Live(r) /\ Exited(r, host[r] = "succeeded")
  BY <1>1, <1>2, <1>3, <1>5, ExitedInv
<1>. QED
  BY <1>4, <1>5 DEF TerminateStatus

LEMMA TerminateFailsInv ==
  ASSUME IInv, NEW r \in Runs, TerminateFails(r) PROVE IInv'
<1> DEFINE t == Task(r)
           n == [rt[t] EXCEPT !.state = call.prev,
                              !.pendingStart = @ /\ call.op # "restart"]
<1>1. /\ Up /\ call.phase = "halt" /\ r \in call.todo /\ t = call.task /\ t \in Tasks
      /\ t \in issued /\ (call.task \in tasks <=> call.op # "delete")
      /\ UNCHANGED <<storage, procs, open, host, exits, fires, due, timer, schedule, asked>>
  BY DEF TerminateFails, Up, queue, IInv, CallInv
<1>2. Core /\ TypeRest
  BY <1>1, ToCore
<1>3. /\ call' \in Calls /\ call'.phase \in {"idle", "halt"}
      /\ call'.phase = "halt" =>
           call'.todo = {} /\ call'.op = "delete" /\ call.op = "delete" /\ call'.task = t
  <2>1. CASE call.op = "delete"
    <3>1. call' = [call EXCEPT !.todo = {}]
      BY <2>1 DEF TerminateFails, Undone
    <3>. QED
      BY <1>1, <1>2, <2>1, <3>1 DEF TypeRest, Calls
  <2>2. CASE call.op # "delete"
    <3>1. call' = Idle
      BY <2>2 DEF TerminateFails, Undone
    <3>. QED
      BY <3>1, PhaseFacts
  <2>. QED
    BY <2>1, <2>2
<1>4. CallInv'
  BY <1>1, <1>3 DEF CallInv, storage
<1>5. CASE t \in Scheduled
  <2>1. rt' = rt
    BY <1>5 DEF TerminateFails, Undone
  <2>. QED
    BY <1>1, <1>2, <1>3, <1>4, <2>1, QuietInv DEF TypeRest
<1>6. CASE t \notin Scheduled
  <2>1. /\ t \in Continuous /\ rt[t].process # None /\ rt[t].state = "stopping"
        /\ call.prev \in {"running", "stopping"}
        /\ call.op # "restart" => ~rt[t].pendingStart
    BY <1>1, <1>6 DEF IInv, CallInv, Tasks
  <2>2. /\ n \in Memories /\ n.state = call.prev /\ n.process = rt[t].process
        /\ ~n.pendingStart /\ n.restartTimer = rt[t].restartTimer
        /\ n.desired = rt[t].desired
    <3> DEFINE a == rt[t]
               p == a.pendingStart /\ call.op # "restart"
               b == [a EXCEPT !.state = call.prev, !.pendingStart = p]
    <3>1. a \in Memories /\ p = FALSE /\ n = b
      BY <1>1, <1>2, <2>1 DEF Core
    <3>2. call.prev \in States
      BY <2>1 DEF States
    <3>. HIDE DEF a, p, n
    <3>3. /\ b \in Memories /\ b.state = call.prev /\ b.process = a.process
          /\ ~b.pendingStart /\ b.restartTimer = a.restartTimer
          /\ b.desired = a.desired
      BY <3>1, <3>2 DEF Memories
    <3>. QED
      BY <3>1, <3>3 DEF a
  <2>3. rt' = [rt EXCEPT ![t] = n]
    BY <1>6 DEF TerminateFails, Undone
  <2>. HIDE DEF n
  <2>4. /\ rt' \in [Tasks -> Memories] /\ rt'[t] = n
        /\ \A x \in Tasks \ {t} : rt'[x] = rt[x]
    BY <1>1, <1>2, <2>2, <2>3 DEF Core
  <2>5. \A x : RunsOf(x)' = RunsOf(x)
    BY <1>1 DEF RunsOf
  <2>6. StateMatchesProcess'
    BY <1>1, <1>2, <2>1, <2>2, <2>4, <2>5 DEF Core, StateMatchesProcess, storage, Tasks
  <2>7. RestartingIsArmed'
    BY <1>1, <1>2, <2>1, <2>2, <2>4 DEF Core, RestartingIsArmed, storage, Tasks
  <2>8. PendingInv'
    BY <1>2, <2>1, <2>2, <2>4 DEF Core, PendingInv, Tasks
  <2>9. Core'
    BY <1>1, <1>2, <2>4, <2>6, <2>7, <2>8 DEF Core, Live, OneTracked, TimerOwner
  <2>10. TypeRest' /\ FiresInv'
    BY <1>1, <1>2, <1>3 DEF TypeRest, storage, IInv, FiresInv
  <2>11. UntouchedInv'
    BY <1>1, <1>3, <2>4, <2>5, SameUntouched DEF IInv, storage
  <2>. QED
    BY <1>3, <1>4, <2>9, <2>10, <2>11, FromCore
<1>. QED
  BY <1>5, <1>6

LEMMA HaltedInv ==
  ASSUME IInv, Halted PROVE IInv'
<1> DEFINE t == call.task
<1>1. /\ Up /\ call' \in Calls /\ call'.phase = "idle" /\ CallInv'
      /\ UNCHANGED <<storage, procs, open, host, exits, fires, due, timer, asked>>
      /\ t \in Tasks /\ t \in issued /\ (call.op = "delete" => t \notin tasks)
      /\ schedule' \subseteq Scheduled
  BY PhaseFacts DEF Halted, Up, queue, IInv, TypeOK, CallInv
<1>2. CASE UNCHANGED <<rt, schedule>>
  BY <1>1, <1>2, QuietInv
<1>3. CASE call.op = "delete" /\ rt' = [rt EXCEPT ![t] = Fresh]
  <2>1. Core /\ TypeRest
    BY <1>1, ToCore
  <2>2. /\ Fresh \in Memories /\ Fresh.state = "stopped" /\ ~Fresh.restartTimer
        /\ ~Fresh.pendingStart
    BY ZeroCount DEF Fresh, Memories, States
  <2>3. /\ rt' \in [Tasks -> Memories] /\ rt'[t] = Fresh
        /\ \A x \in Tasks \ {t} : rt'[x] = rt[x]
    BY <1>1, <1>3, <2>1, <2>2 DEF Core
  <2>4. \A x : RunsOf(x)' = RunsOf(x)
    BY <1>1 DEF RunsOf
  <2>5. StateMatchesProcess'
    BY <1>1, <1>3, <2>1, <2>3, <2>4 DEF Core, StateMatchesProcess, storage, Tasks
  <2>6. RestartingIsArmed' /\ PendingInv'
    BY <1>1, <1>3, <2>1, <2>2, <2>3 DEF Core, RestartingIsArmed, PendingInv, storage, Tasks
  <2>7. Core'
    BY <1>1, <2>1, <2>3, <2>5, <2>6 DEF Core, Live, OneTracked, TimerOwner
  <2>8. TypeRest' /\ FiresInv'
    BY <1>1, <2>1 DEF TypeRest, storage, IInv, FiresInv
  <2>9. UntouchedInv'
    BY <1>1, <2>3, <2>4, SameUntouched DEF IInv, storage
  <2>. QED
    BY <1>1, <2>7, <2>8, <2>9, FromCore
<1>. QED
  BY <1>2, <1>3 DEF Halted

LEMMA CreateInv ==
  ASSUME IInv, NEW t \in Tasks, NEW d \in Defs(t), Create(t, d) PROVE IInv'
<1>1. /\ Up /\ call' = call /\ call.phase = "idle" /\ t \notin issued
      /\ tasks' = tasks \cup {t} /\ issued' = issued \cup {t}
      /\ UNCHANGED <<rt, procs, open, host, exits, fires, due, timer, asked>>
      /\ def' = [def EXCEPT ![t] = d] /\ schedule' = schedule \cup Registered(t, d)
  BY DEF Create, Up, memory, queue
<1>2. Core /\ TypeRest /\ Untouched(t)
  BY <1>1, ToCore DEF IInv, UntouchedInv
<1>3. RunsOf(t) = {} /\ rt[t] = Fresh /\ \A x : RunsOf(x)' = RunsOf(x)
  BY <1>1, <1>2 DEF Untouched, RunsOf
<1>4. StateMatchesProcess' /\ RestartingIsArmed'
  <2>1. Fresh.state = "stopped" /\ Fresh.process = None
    BY DEF Fresh
  <2>. QED
    BY <1>1, <1>2, <1>3, <2>1 DEF Core, StateMatchesProcess, RestartingIsArmed
<1>5. Core'
  BY <1>1, <1>2, <1>4 DEF Core, Live, OneTracked, TimerOwner, PendingInv
<1>6. TypeRest'
  <2>1. Registered(t, d) \subseteq Scheduled
    BY DEF Registered
  <2>2. d \in ContinuousDefs \cup ScheduledDefs
    BY DEF Defs
  <2>. QED
    BY <1>1, <1>2, <2>1, <2>2 DEF TypeRest
<1>7. CallInv' /\ UntouchedInv' /\ FiresInv'
  BY <1>1, <1>3 DEF IInv, CallInv, UntouchedInv, Untouched, FiresInv
<1>. QED
  BY <1>1, <1>5, <1>6, <1>7, FromCore

LEMMA UpdateInv ==
  ASSUME IInv, NEW t \in Tasks, UpdateFails(t) \/ \E d \in Defs(t) : Update(t, d)
  PROVE  IInv'
<1>1. /\ Up /\ call' = call /\ call.phase = "idle"
      /\ UNCHANGED <<tasks, issued, rt, procs, open, host, exits, fires, due, timer, asked>>
  BY DEF Update, UpdateFails, Up, memory, queue, storage
<1>2. Core /\ TypeRest
  BY <1>1, ToCore
<1>3. /\ schedule' \subseteq Scheduled
      /\ def' \in [Tasks -> ContinuousDefs \cup ScheduledDefs]
      /\ \A x \in Tasks : def'[x] \in Defs(x)
  <2>1. CASE UpdateFails(t)
    BY <1>2, <2>1 DEF UpdateFails, Registered, TypeRest, storage
  <2>2. ASSUME NEW d \in Defs(t), Update(t, d)
        PROVE  /\ schedule' \subseteq Scheduled
               /\ def' \in [Tasks -> ContinuousDefs \cup ScheduledDefs]
               /\ \A x \in Tasks : def'[x] \in Defs(x)
    <3>1. d \in ContinuousDefs \cup ScheduledDefs
      BY DEF Defs
    <3>. QED
      BY <1>2, <2>2, <3>1 DEF Update, Registered, TypeRest
  <2>. QED
    BY <2>1, <2>2
<1>4. Core' /\ \A x : RunsOf(x)' = RunsOf(x)
  BY <1>1, <1>2, SameCore
<1>5. TypeRest' /\ FiresInv' /\ CallInv'
  BY <1>1, <1>2, <1>3 DEF TypeRest, IInv, FiresInv, CallInv
<1>6. UntouchedInv'
  BY <1>1, <1>4, SameUntouched DEF IInv
<1>. QED
  BY <1>1, <1>4, <1>5, <1>6, FromCore

\* A process may end or be signalled in any phase.
LEMMA HostInv ==
  ASSUME IInv, NEW r \in Runs,
         Timeout(r) \/ Forget(r) \/ \E ok \in BOOLEAN : ProcessExits(r, ok)
  PROVE  IInv'
<1>1. /\ UNCHANGED <<tasks, issued, def, rt, procs, call, open, fires, due, timer,
                     schedule, asked>>
  BY DEF Timeout, Forget, ProcessExits, storage, memory, queue
<1>2. /\ host' \in [Runs -> HostStates]
      /\ \A x \in Runs : Live(x)' => Live(x)
      /\ exits' \subseteq Runs \X BOOLEAN
      /\ \A x \in Runs, ok \in BOOLEAN : <<x, ok>> \in exits' => ~Live(x)'
  <2>1. CASE Timeout(r) \/ Forget(r)
    BY <2>1 DEF Timeout, Forget, queue, IInv, TypeOK, LedgerInv, HostStates, Live
  <2>2. ASSUME NEW ok \in BOOLEAN, ProcessExits(r, ok)
        PROVE  /\ host' \in [Runs -> HostStates]
               /\ \A x \in Runs : Live(x)' => Live(x)
               /\ exits' \subseteq exits \cup {<<r, ok>>}
               /\ host'[r] \in {"succeeded", "failed"}
               /\ \A x \in Runs : x # r => host'[x] = host[x]
    BY <2>2 DEF ProcessExits, IInv, TypeOK, HostStates, Live
  <2>3. CASE \E ok \in BOOLEAN : ProcessExits(r, ok)
    BY <2>2, <2>3 DEF IInv, TypeOK, LedgerInv, Live
  <2>. QED
    BY <2>1, <2>3
<1>3. TypeOK' /\ LedgerInv'
  BY <1>1, <1>2 DEF IInv, TypeOK, LedgerInv, Up
<1>4. UntouchedInv' /\ CallInv'
  BY <1>1 DEF IInv, UntouchedInv, Untouched, CallInv, RunsOf
<1>5. /\ OneTracked' /\ StateMatchesProcess' /\ RestartingIsArmed' /\ PendingInv'
      /\ TimerOwner' /\ FiresInv'
  BY <1>1 DEF IInv, OneTracked, StateMatchesProcess, RestartingIsArmed,
              PendingInv, TimerOwner, FiresInv, RunsOf
<1>. QED
  BY <1>3, <1>4, <1>5 DEF IInv

-----------------------------------------------------------------------------
LEMMA NextInv ==
  ASSUME IInv, [Next]_vars PROVE IInv'
<1>1. CASE UNCHANGED vars
  BY <1>1 DEF vars, IInv, TypeOK, LedgerInv, OneTracked, UntouchedInv, Untouched,
              CallInv, StateMatchesProcess, RestartingIsArmed, PendingInv,
              TimerOwner, FiresInv, RunsOf, Up, Live
<1>2. CASE Boot \/ LoadFails
  BY <1>2, BootInv
<1>3. CASE Shutdown \/ \E r \in Runs : ShutdownStep(r)
  BY <1>3, ShutdownInv
<1>4. CASE Crash \/ ShutdownDone
  BY <1>4, GoneInv DEF Crash, ShutdownDone
<1>5. CASE Check
  BY <1>5, ReconcileInv DEF Check, Ops
<1>6. CASE Restored \/ Return \/ TerminateStatus \/ Halted
  BY <1>6, RestoredInv, ReturnInv, TerminateStatusInv, HaltedInv
<1>7. CASE Start \/ Run \/ Stop \/ Restart \/ Delete
  BY <1>7, OperationInv
<1>8. CASE \E t \in Tasks : Restore(t)
  BY <1>8, RestoreInv
<1>9. CASE \E r \in Runs : ReconcileStep(r) \/ Terminate(r)
  BY <1>9, ReconcileStepInv, TerminateInv
<1>10. CASE HandlerStep
  BY <1>3, <1>4, <1>6, <1>7, <1>8, <1>9, <1>10 DEF HandlerStep
<1>11. CASE Callback
  BY <1>11, DeliverExitInv, RestartFiredInv DEF Callback
<1>12. CASE HostStep
  BY <1>12, HostInv, TickInv DEF HostStep
<1>13. CASE Request
  <2>1. ASSUME NEW t \in Tasks, NEW op \in Ops, Control(op, t) PROVE IInv'
    BY <2>1, ReconcileInv DEF Control
  <2>2. ASSUME NEW t \in Tasks, UpdateFails(t) PROVE IInv'
    BY <2>2, UpdateInv
  <2>3. ASSUME NEW t \in Tasks, NEW d \in Defs(t), Create(t, d) \/ Update(t, d)
        PROVE  IInv'
    BY <2>3, CreateInv, UpdateInv
  <2>. QED
    BY <1>13, <2>1, <2>2, <2>3 DEF Request
<1>14. CASE \E r \in Runs : TerminateFails(r)
  BY <1>14, TerminateFailsInv
<1>15. CASE \E t \in Tasks : TaskFired(t)
  BY <1>15, TaskFiredInv
<1>. QED
  BY <1>1, <1>2, <1>3, <1>4, <1>5, <1>10, <1>11, <1>12, <1>13, <1>14, <1>15 DEF Next

\* The inductive invariant holds in every state the plugin and its host reach.
THEOREM Invariance == Spec => []IInv
  BY InitInv, NextInv, PTL DEF Spec

\* Every step of the plugin and of its host keeps the types of all state,
\* among them that a definition fits its kind of task.
THEOREM TypeCorrect == Spec => []TypeOK
<1>1. IInv => TypeOK
  BY DEF IInv
<1>. QED
  BY <1>1, Invariance, PTL

\* No path through an exit, a stop, a delete, a failed start or a failed
\* terminate loses a run: open executions, tracked runs and live processes
\* agree, for any number of tasks and runs.
THEOREM LedgerStaysConsistent == Spec => []LedgerConsistent
<1>1. IInv => LedgerConsistent
  BY DEF IInv, LedgerInv, LedgerConsistent
<1>. QED
  BY <1>1, Invariance, PTL

\* No sequence of requests, timers and exits gives a continuous task two live
\* processes: live processes are tracked, and one is tracked per task.
THEOREM NeverTwoProcesses == Spec => []OneProcess
<1>1. IInv => OneProcess
  BY DEF IInv, LedgerInv, OneTracked, OneProcess
<1>. QED
  BY <1>1, Invariance, PTL

\* The state that tasks.list reports agrees with the process of the task.
THEOREM ReportedStateIsTrue == Spec => []StateMatchesProcess
<1>1. IInv => StateMatchesProcess
  BY DEF IInv
<1>. QED
  BY <1>1, Invariance, PTL

\* A task in state restarting has the registration that ends its wait, however
\* stale fires, cancellations and refused registrations interleave.
THEOREM WaitingTasksAreArmed == Spec => []RestartingIsArmed
<1>1. IInv => RestartingIsArmed
  BY DEF IInv
<1>. QED
  BY <1>1, Invariance, PTL

-----------------------------------------------------------------------------
(* Who may start: the invariant grows by what a stop leaves behind. *)

\* The process of a stopping task was signalled, unless the handler that is
\* stopping it has not reached the terminate call; that handler puts back
\* "running" if the call fails, and any other state was signalled before.
SignalledInv ==
  \A t \in Continuous : rt[t].state = "stopping" =>
    /\ rt[t].process \in Runs /\ Task(rt[t].process) = t
    /\ \/ host[rt[t].process] # "running"
       \/ /\ call.phase = "halt" /\ call.task = t /\ call.todo # {}
          /\ call.prev = "running"

\* A task is wanted, or owed a restart, only after an administrator said so.
WantedInv ==
  \A t \in Continuous : rt[t].desired \/ rt[t].pendingStart => asked[t] = "start"

StartInv == SignalledInv /\ WantedInv /\ ActiveIsTracked

\* What the two action properties say of one step.
StartsAreWanted ==
  \A r \in Runs : Task(r) \in Continuous /\ Begins(r)
    => asked'[Task(r)] = "start" /\ Task(r) \in tasks
SkipsAreApart ==
  \A r \in Runs : Task(r) \in Scheduled /\ Begins(r)
    => \/ def[Task(r)].overlap = "allow"
       \/ \A o \in Runs : Task(o) = Task(r) => ~Live(o)
StartsOK == StartsAreWanted /\ SkipsAreApart

\* A step in which the host starts nothing.
Calm ==
  \A r \in Runs : /\ Live(r)' => Live(r)
                  /\ host'[r] = "running" => host[r] = "running"

\* The tracked runs of a task are as finite as its slots.
LEMMA RunsOfFinite ==
  ASSUME procs \subseteq Runs, NEW t \in Tasks PROVE IsFiniteSet(RunsOf(t))
<1>1. IsFiniteSet({t} \X Slots)
  BY ConstantsAssumption, FS_Singleton, FS_Product
<1>2. RunsOf(t) \in SUBSET ({t} \X Slots)
  BY DEF RunsOf, Runs, Task
<1>. QED
  BY <1>1, <1>2, FS_Subset

\* The records that starts are made from.
LEMMA StartMemories ==
  ASSUME NEW a \in Memories
  PROVE  /\ [a EXCEPT !.desired = TRUE] \in Memories
         /\ [a EXCEPT !.restartTimer = FALSE] \in Memories
         /\ [a EXCEPT !.desired = TRUE, !.restartTimer = FALSE,
                      !.restartCount = 0, !.pendingStart = FALSE] \in Memories
         /\ [[a EXCEPT !.process = None, !.state = "stopped"]
               EXCEPT !.pendingStart = FALSE, !.restartCount = 0,
                      !.desired = TRUE] \in Memories
  BY ZeroCount DEF Memories, States

\* Plugin memory is untouched and nothing starts.
LEMMA QuietStarts ==
  ASSUME IInv, StartInv, UNCHANGED <<rt, procs, asked, tasks>>, Calm,
         call.phase = "halt" => call' = call \/ call.todo = {}
  PROVE  StartInv' /\ StartsOK
<1>1. SignalledInv'
  BY DEF StartInv, SignalledInv, Calm
<1>2. WantedInv' /\ ActiveIsTracked'
  BY DEF StartInv, WantedInv, ActiveIsTracked, RunsOf
<1>3. StartsOK
  BY DEF StartsOK, StartsAreWanted, SkipsAreApart, Begins, Calm
<1>. QED
  BY <1>1, <1>2, <1>3 DEF StartInv

\* A continuous task is launched because somebody asked for it.
LEMMA SpawnStarts ==
  ASSUME IInv, StartInv, NEW t \in tasks \cap Continuous, NEW m \in Memories,
         NEW gone, \A g \in gone : Task(g) = t, Spawn(t, m, gone), tasks' = tasks,
         asked'[t] = "start", \A x \in Tasks \ {t} : asked'[x] = asked[x],
         call.phase = "halt" => call' = call \/ call.todo = {} \/ call.task = t
  PROVE  StartInv' /\ StartsOK
<1>0. t \in Tasks /\ t \notin Scheduled
  BY ConstantsAssumption DEF Tasks
<1>1. PICK r \in Launches(t) :
        Ledger(gone, r) /\ rt' = [rt EXCEPT ![t] = Spawned(m, r)]
  BY DEF Spawn
<1>2. r = None \/ (r \in Runs /\ Task(r) = t)
  BY <1>0, <1>1, FreeFacts DEF Launches
<1>3. /\ \A x \in Runs : host'[x] = IF x = r THEN "running" ELSE host[x]
      /\ procs' = (procs \ gone) \cup ({r} \ {None})
  BY <1>1 DEF Ledger
<1>4. rt'[t] = Spawned(m, r) /\ \A x \in Tasks \ {t} : rt'[x] = rt[x]
  BY <1>0, <1>1 DEF IInv, TypeOK
<1>5. rt'[t].state # "stopping"
  BY <1>4 DEF Spawned, Memories
<1>6. SignalledInv'
  <2> SUFFICES ASSUME NEW x \in Continuous, rt'[x].state = "stopping"
               PROVE  /\ rt'[x].process \in Runs /\ Task(rt'[x].process) = x
                      /\ \/ host'[rt'[x].process] # "running"
                         \/ /\ call'.phase = "halt" /\ call'.task = x
                            /\ call'.todo # {} /\ call'.prev = "running"
    BY DEF SignalledInv
  <2>1. x \in Tasks \ {t} /\ rt'[x] = rt[x]
    BY <1>4, <1>5 DEF Tasks
  <2>. QED
    BY <1>2, <1>3, <2>1, NoneIsNothing DEF StartInv, SignalledInv
<1>7. WantedInv'
  BY <1>4 DEF StartInv, WantedInv, Tasks
<1>8. ActiveIsTracked'
  <2> SUFFICES ASSUME NEW x \in tasks \cap Scheduled
               PROVE  rt'[x].active = Cardinality(RunsOf(x)')
    BY DEF ActiveIsTracked
  <2>1. x \in Tasks \ {t} /\ rt'[x] = rt[x]
    BY <1>0, <1>4 DEF Tasks
  <2>2. RunsOf(x)' = RunsOf(x)
    BY <1>2, <1>3, <2>1 DEF RunsOf
  <2>. QED
    BY <2>1, <2>2 DEF StartInv, ActiveIsTracked
<1>9. StartsOK
  <2>1. ASSUME NEW x \in Runs, Begins(x) PROVE Task(x) = t
    <3>1. x = r
      BY <1>3, <2>1 DEF Begins, Live
    <3>. QED
      BY <1>2, <3>1, NoneIsNothing
  <2>. QED
    BY <1>0, <2>1 DEF StartsOK, StartsAreWanted, SkipsAreApart
<1>. QED
  BY <1>6, <1>7, <1>8, <1>9 DEF StartInv

\* A run of continuous task t, or an untracked task, is settled and its memory
\* becomes n, which asks for nothing more.
LEMMA SettleStarts ==
  ASSUME IInv, StartInv, NEW r \in procs, Task(r) \notin tasks \cap Scheduled,
         ~Live(r), Ledger({r}, None), UNCHANGED <<tasks, asked>>,
         \A x \in Tasks : rt'[x] = rt[x] \/ x = Task(r),
         Task(r) \in Continuous /\ rt'[Task(r)] # rt[Task(r)] =>
           /\ rt'[Task(r)].state # "stopping" /\ ~rt'[Task(r)].pendingStart
           /\ rt'[Task(r)].desired => rt[Task(r)].desired,
         Task(r) \notin Continuous => rt' = rt,
         call.phase = "halt" => call' = call \/ call.todo = {} \/ r \in call.todo
  PROVE  StartInv' /\ StartsOK
<1>1. procs' = procs \ {r} /\ \A x \in Runs : host'[x] = host[x]
  BY NoneIsNothing DEF Ledger
<1>2. Calm /\ StartsOK
  BY <1>1 DEF Calm, Live, StartsOK, StartsAreWanted, SkipsAreApart, Begins
<1>3. SignalledInv'
  <2> SUFFICES ASSUME NEW x \in Continuous, rt'[x].state = "stopping"
               PROVE  /\ rt'[x].process \in Runs /\ Task(rt'[x].process) = x
                      /\ \/ host'[rt'[x].process] # "running"
                         \/ /\ call'.phase = "halt" /\ call'.task = x
                            /\ call'.todo # {} /\ call'.prev = "running"
    BY DEF SignalledInv
  <2>1. rt'[x] = rt[x]
    BY DEF Tasks
  <2>2. CASE call.phase = "halt" /\ r \in call.todo /\ call.task = x
    <3>1. rt[x].process = r
      BY <2>2 DEF IInv, CallInv
    <3>. QED
      BY <1>1, <2>1, <3>1 DEF StartInv, SignalledInv, Live
  <2>3. CASE ~(call.phase = "halt" /\ r \in call.todo /\ call.task = x)
    BY <1>1, <2>1, <2>3 DEF StartInv, SignalledInv, IInv, CallInv
  <2>. QED
    BY <2>2, <2>3
<1>4. WantedInv'
  BY DEF StartInv, WantedInv, Tasks
<1>5. ActiveIsTracked'
  <2> SUFFICES ASSUME NEW x \in tasks \cap Scheduled
               PROVE  rt'[x].active = Cardinality(RunsOf(x)')
    BY DEF ActiveIsTracked
  <2>1. x # Task(r) /\ rt'[x] = rt[x] /\ RunsOf(x)' = RunsOf(x)
    BY <1>1 DEF RunsOf, Tasks
  <2>. QED
    BY <2>1 DEF StartInv, ActiveIsTracked
<1>. QED
  BY <1>2, <1>3, <1>4, <1>5 DEF StartInv

\* A run of a scheduled task is settled: its active count goes down with the
\* tracked runs.
LEMMA ScheduledExitStarts ==
  ASSUME IInv, StartInv, NEW r \in procs, Task(r) \in tasks \cap Scheduled,
         ScheduledExited(r), UNCHANGED <<tasks, asked>>,
         call.phase = "halt" => call' = call \/ call.todo = {} \/ r \in call.todo
  PROVE  StartInv' /\ StartsOK
<1> DEFINE t == Task(r)
<1>0. t \in Tasks /\ t \notin Continuous /\ r \in Runs
  BY ConstantsAssumption DEF IInv, TypeOK, Tasks
<1>1. procs' = procs \ {r} /\ \A x \in Runs : host'[x] = host[x]
  BY NoneIsNothing DEF ScheduledExited, Ledger
<1>2. /\ rt'[t].active = Left(rt[t].active)
      /\ \A x \in Tasks \ {t} : rt'[x] = rt[x]
  <2> DEFINE left == Left(rt[t].active)
             n == [rt[t] EXCEPT !.active = left,
                                !.process = IF left = 0 THEN None ELSE @]
  <2>1. rt' = [rt EXCEPT ![t] = n]
    BY DEF ScheduledExited
  <2>2. n.active = left
    BY <1>0 DEF IInv, TypeOK, Memories
  <2>. HIDE DEF n
  <2>. QED
    BY <1>0, <2>1, <2>2 DEF IInv, TypeOK
<1>3. Calm /\ StartsOK
  BY <1>1 DEF Calm, Live, StartsOK, StartsAreWanted, SkipsAreApart, Begins
<1>4. SignalledInv'
  <2> SUFFICES ASSUME NEW x \in Continuous, rt[x].state = "stopping"
               PROVE  /\ rt[x].process \in Runs /\ Task(rt[x].process) = x
                      /\ \/ host'[rt[x].process] # "running"
                         \/ /\ call'.phase = "halt" /\ call'.task = x
                            /\ call'.todo # {} /\ call'.prev = "running"
    BY <1>0, <1>2 DEF SignalledInv, Tasks
  <2>1. call.phase = "halt" /\ r \in call.todo => call.task = t
    BY DEF IInv, CallInv
  <2>. QED
    BY <1>0, <1>1, <2>1 DEF StartInv, SignalledInv
<1>5. WantedInv'
  BY <1>0, <1>2 DEF StartInv, WantedInv, Tasks
<1>6. ActiveIsTracked'
  <2> SUFFICES ASSUME NEW x \in tasks \cap Scheduled
               PROVE  rt'[x].active = Cardinality(RunsOf(x)')
    BY DEF ActiveIsTracked
  <2>1. CASE x = t
    <3>1. RunsOf(t)' = RunsOf(t) \ {r} /\ r \in RunsOf(t)
      BY <1>1 DEF RunsOf
    <3>2. IsFiniteSet(RunsOf(t)) /\ Cardinality(RunsOf(t)) \in Nat
      BY <1>0, RunsOfFinite, FS_CardinalityType DEF IInv, TypeOK
    <3>3. Cardinality(RunsOf(t)') = Cardinality(RunsOf(t)) - 1
      BY <3>1, <3>2, FS_RemoveElement
    <3>4. Cardinality(RunsOf(t)) # 0
      BY <3>1, <3>2, FS_EmptySet
    <3>5. rt[t].active = Cardinality(RunsOf(t))
      BY DEF StartInv, ActiveIsTracked
    <3>. QED
      BY <1>2, <2>1, <3>2, <3>3, <3>4, <3>5 DEF Left
  <2>2. CASE x # t
    <3>1. RunsOf(x)' = RunsOf(x) /\ rt'[x] = rt[x]
      BY <1>1, <1>2, <2>2 DEF RunsOf, Tasks
    <3>. QED
      BY <3>1 DEF StartInv, ActiveIsTracked
  <2>. QED
    BY <2>1, <2>2
<1>. QED
  BY <1>3, <1>4, <1>5, <1>6 DEF StartInv

\* The exit of a continuous task's process.
LEMMA ContinuousExitStarts ==
  ASSUME IInv, StartInv, NEW r \in procs, Task(r) \in tasks \cap Continuous,
         ~Live(r), NEW ok, ContinuousExited(r, ok), UNCHANGED <<tasks, asked>>,
         call.phase = "halt" => call' = call \/ call.todo = {} \/ r \in call.todo
  PROVE  StartInv' /\ StartsOK
<1> DEFINE t == Task(r)
           m == [rt[t] EXCEPT !.process = None, !.state = "stopped"]
           c == [m EXCEPT !.restartCount = Counted(@)]
<1>0. t \in Tasks /\ t \notin Scheduled /\ rt[t] \in Memories
  BY ConstantsAssumption DEF IInv, TypeOK, Tasks
<1>1. /\ m.pendingStart = rt[t].pendingStart /\ m.desired = rt[t].desired
      /\ m.state = "stopped"
      /\ c.pendingStart = rt[t].pendingStart /\ c.desired = rt[t].desired
      /\ c.state = "stopped"
  BY <1>0 DEF Memories
<1>2. CASE /\ m.pendingStart
           /\ Spawn(t, [m EXCEPT !.pendingStart = FALSE, !.restartCount = 0,
                                 !.desired = TRUE], {r})
  <2> DEFINE n == [m EXCEPT !.pendingStart = FALSE, !.restartCount = 0,
                            !.desired = TRUE]
  <2>1. n \in Memories
    BY <1>0, StartMemories
  <2>2. asked'[t] = "start"
    BY <1>1, <1>2 DEF StartInv, WantedInv
  <2>3. call.phase = "halt" => call' = call \/ call.todo = {} \/ call.task = t
    BY DEF IInv, CallInv
  <2>4. Spawn(t, n, {r}) /\ \A g \in {r} : Task(g) = t
    BY <1>2
  <2>. HIDE DEF n, m
  <2>. QED
    BY <2>1, <2>2, <2>3, <2>4, SpawnStarts
<1>3. ASSUME NEW n, ~m.pendingStart, Ledger({r}, None), rt' = [rt EXCEPT ![t] = n],
             n.state # "stopping", ~n.pendingStart, n.desired => rt[t].desired
      PROVE  StartInv' /\ StartsOK
  <2>1. rt'[t] = n /\ \A x \in Tasks : rt'[x] = rt[x] \/ x = t
    BY <1>0, <1>3 DEF IInv, TypeOK
  <2>. QED
    BY <1>0, <1>3, <2>1, SettleStarts
<1>4. CASE ~m.pendingStart /\ Ledger({r}, None) /\ rt' = [rt EXCEPT ![t] = m]
  BY <1>1, <1>3, <1>4
<1>5. CASE /\ ~m.pendingStart /\ Ledger({r}, None)
           /\ rt' = [rt EXCEPT ![t] = [m EXCEPT !.desired = FALSE]]
  <2> DEFINE n == [m EXCEPT !.desired = FALSE]
  <2>1. n.state = "stopped" /\ ~n.pendingStart /\ ~n.desired
    BY <1>0, <1>5 DEF Memories
  <2>. HIDE DEF m
  <2>. QED
    BY <1>3, <1>5, <2>1
<1>6. CASE /\ ~m.pendingStart /\ Ledger({r}, None)
           /\ rt' = [rt EXCEPT ![t] = [c EXCEPT !.restartTimer = TRUE,
                                                !.state = "restarting"]]
  <2> DEFINE n == [c EXCEPT !.restartTimer = TRUE, !.state = "restarting"]
  <2>1. n.state = "restarting" /\ ~n.pendingStart /\ n.desired = rt[t].desired
    BY <1>0, <1>1, <1>6 DEF Memories
  <2>. HIDE DEF c, m
  <2>. QED
    BY <1>3, <1>6, <2>1
<1>7. CASE /\ ~m.pendingStart /\ Ledger({r}, None)
           /\ rt' = [rt EXCEPT ![t] = [c EXCEPT !.desired = FALSE]]
  <2> DEFINE n == [c EXCEPT !.desired = FALSE]
  <2>1. n.state = "stopped" /\ ~n.pendingStart /\ ~n.desired
    BY <1>0, <1>1, <1>7 DEF Memories
  <2>. HIDE DEF c, m
  <2>. QED
    BY <1>3, <1>7, <2>1
<1>. QED
  BY <1>2, <1>4, <1>5, <1>6, <1>7 DEF ContinuousExited

\* An exit reaches the plugin, by whatever way.
LEMMA ExitedStarts ==
  ASSUME IInv, StartInv, NEW r \in Runs, NEW ok, ~Live(r), Exited(r, ok),
         UNCHANGED <<tasks, asked>>,
         call.phase = "halt" => call' = call \/ call.todo = {} \/ r \in call.todo
  PROVE  StartInv' /\ StartsOK
<1> DEFINE t == Task(r)
<1>0. t \in Tasks
  BY RunTask
<1>1. CASE r \notin procs /\ UNCHANGED <<rt, procs, open, host, timer>>
  <2>1. StartsOK /\ WantedInv' /\ ActiveIsTracked'
    BY <1>1 DEF StartsOK, StartsAreWanted, SkipsAreApart, Begins, Live,
                StartInv, WantedInv, ActiveIsTracked, RunsOf
  <2>2. SignalledInv'
    <3> SUFFICES ASSUME NEW x \in Continuous, rt[x].state = "stopping"
                 PROVE  /\ rt[x].process \in Runs /\ Task(rt[x].process) = x
                        /\ \/ host[rt[x].process] # "running"
                           \/ /\ call'.phase = "halt" /\ call'.task = x
                              /\ call'.todo # {} /\ call'.prev = "running"
      BY <1>1 DEF SignalledInv
    <3>1. CASE call.phase = "halt" /\ r \in call.todo /\ call.task = x
      <4>1. rt[x].process = r
        BY <3>1 DEF IInv, CallInv
      <4>. QED
        BY <4>1 DEF StartInv, SignalledInv, Live
    <3>2. CASE ~(call.phase = "halt" /\ r \in call.todo /\ call.task = x)
      BY <3>2 DEF StartInv, SignalledInv, IInv, CallInv
    <3>. QED
      BY <3>1, <3>2
  <2>. QED
    BY <2>1, <2>2 DEF StartInv
<1>2. CASE /\ r \in procs
           /\ t \notin tasks \/ (t \in Continuous /\ rt[t].process # r)
           /\ Ledger({r}, None) /\ UNCHANGED <<rt, timer>>
  <2>1. t \notin tasks \cap Scheduled
    BY <1>2, ConstantsAssumption
  <2>. QED
    BY <1>2, <2>1, SettleStarts
<1>3. CASE r \in procs /\ t \in tasks \cap Scheduled /\ ScheduledExited(r)
  BY <1>3, ScheduledExitStarts
<1>4. CASE r \in procs /\ t \in tasks \cap Continuous /\ ContinuousExited(r, ok)
  BY <1>4, ContinuousExitStarts
<1>. QED
  BY <1>1, <1>2, <1>3, <1>4 DEF Exited

\* A fire or a request launches a scheduled task: a run is added to those
\* tracked, and with policy skip there was none.
LEMMA RunNowStarts ==
  ASSUME IInv, StartInv, NEW t \in tasks \cap Scheduled, RunNow(t),
         UNCHANGED <<tasks, asked>>, call.phase # "halt"
  PROVE  StartInv' /\ StartsOK
<1>0. t \in Tasks /\ t \notin Continuous /\ rt[t] \in Memories
  BY ConstantsAssumption DEF IInv, TypeOK, Tasks
<1>1. CASE UNCHANGED <<rt, procs, open, host>>
  BY <1>1, QuietStarts DEF Calm, Live
<1>2. ASSUME MayOverlap(t), NEW r \in Launches(t), Ledger({}, r),
             rt' = IF r = None THEN rt
                   ELSE [rt EXCEPT ![t].active = @ + 1, ![t].process = r,
                                   ![t].state = "running"]
      PROVE  StartInv' /\ StartsOK
  <2>1. CASE r = None
    <3>1. procs' = procs /\ rt' = rt /\ \A x \in Runs : host'[x] = host[x]
      BY <1>2, <2>1, NoneIsNothing DEF Ledger
    <3>. QED
      BY <3>1, QuietStarts DEF Calm, Live
  <2>2. CASE r # None
    <3>1. r \in Runs /\ Task(r) = t /\ r \notin procs
      BY <1>0, <1>2, <2>2, FreeFacts DEF Launches
    <3>2. /\ procs' = procs \cup {r}
          /\ \A x \in Runs : host'[x] = IF x = r THEN "running" ELSE host[x]
      BY <1>2, <2>2 DEF Ledger
    <3>3. rt'[t].active = rt[t].active + 1 /\ \A x \in Tasks \ {t} : rt'[x] = rt[x]
      <4> DEFINE n == [rt[t] EXCEPT !.active = @ + 1, !.process = r, !.state = "running"]
      <4>1. rt' = [rt EXCEPT ![t] = n] /\ n.active = rt[t].active + 1
        BY <1>0, <1>2, <2>2 DEF Memories
      <4>. HIDE DEF n
      <4>. QED
        BY <1>0, <4>1 DEF IInv, TypeOK
    <3>4. IsFiniteSet(RunsOf(t)) /\ rt[t].active = Cardinality(RunsOf(t))
      BY <1>0, RunsOfFinite DEF IInv, TypeOK, StartInv, ActiveIsTracked
    <3>5. SignalledInv' /\ WantedInv'
      <4>1. \A x \in Continuous : rt'[x] = rt[x] /\ x # t
        BY <1>0, <3>3 DEF Tasks
      <4>. QED
        BY <3>1, <3>2, <4>1 DEF StartInv, SignalledInv, WantedInv
    <3>6. ActiveIsTracked'
      <4> SUFFICES ASSUME NEW x \in tasks \cap Scheduled
                   PROVE  rt'[x].active = Cardinality(RunsOf(x)')
        BY DEF ActiveIsTracked
      <4>1. CASE x = t
        <5>1. RunsOf(t)' = RunsOf(t) \cup {r} /\ r \notin RunsOf(t)
          BY <3>1, <3>2 DEF RunsOf
        <5>2. Cardinality(RunsOf(t)') = Cardinality(RunsOf(t)) + 1
          BY <3>4, <5>1, FS_AddElement
        <5>. QED
          BY <3>3, <3>4, <4>1, <5>2
      <4>2. CASE x # t
        <5>1. RunsOf(x)' = RunsOf(x) /\ rt'[x] = rt[x]
          BY <3>1, <3>2, <3>3, <4>2 DEF RunsOf, Tasks
        <5>. QED
          BY <5>1 DEF StartInv, ActiveIsTracked
      <4>. QED
        BY <4>1, <4>2
    <3>7. StartsOK
      <4>1. \A x \in Runs : Begins(x) => x = r
        BY <3>2 DEF Begins, Live
      <4>2. def[t].overlap # "allow" => RunsOf(t) = {}
        BY <1>2, <3>4, FS_EmptySet DEF MayOverlap
      <4>3. RunsOf(t) = {} => \A o \in Runs : Task(o) = t => ~Live(o)
        BY DEF RunsOf, IInv, LedgerInv
      <4>. QED
        BY <1>0, <3>1, <4>1, <4>2, <4>3 DEF StartsOK, StartsAreWanted, SkipsAreApart
    <3>. QED
      BY <3>5, <3>6, <3>7 DEF StartInv
  <2>. QED
    BY <2>1, <2>2
<1>. QED
  BY <1>1, <1>2 DEF RunNow

-----------------------------------------------------------------------------
(* The same for each step of the next-state relation. *)

LEMMA RestoreStarts ==
  ASSUME IInv, StartInv, NEW t \in Tasks, Restore(t) PROVE StartInv' /\ StartsOK
<1>1. call.phase = "restore" /\ t \in tasks /\ tasks' = tasks /\ rt[t] \in Memories
  BY DEF Restore, storage, IInv, UntouchedInv, TypeOK
<1>2. CASE UNCHANGED <<rt, procs, open, host, asked>>
  BY <1>1, <1>2, QuietStarts DEF Calm, Live
<1>3. CASE /\ t \in Continuous /\ Spawn(t, [rt[t] EXCEPT !.desired = TRUE], {})
           /\ asked' = [asked EXCEPT ![t] = "start"]
  <2> DEFINE m == [rt[t] EXCEPT !.desired = TRUE]
  <2>1. m \in Memories
    BY <1>1, StartMemories
  <2>2. asked'[t] = "start" /\ \A x \in Tasks \ {t} : asked'[x] = asked[x]
    BY <1>3 DEF IInv, TypeOK
  <2>3. Spawn(t, m, {}) /\ \A g \in {} : Task(g) = t
    BY <1>3
  <2>. HIDE DEF m
  <2>. QED
    BY <1>1, <1>3, <2>1, <2>2, <2>3, SpawnStarts
<1>. QED
  BY <1>2, <1>3 DEF Restore, RestoreScheduled, RestoreContinuous

LEMMA StartTaskStarts ==
  ASSUME IInv, StartInv, NEW t \in tasks \cap Continuous, StartTask(t),
         call.phase # "halt"
  PROVE  StartInv' /\ StartsOK
<1> DEFINE m == [rt[t] EXCEPT !.desired = TRUE, !.restartTimer = FALSE,
                              !.restartCount = 0, !.pendingStart = FALSE]
<1>1. t \in Tasks /\ rt[t] \in Memories /\ tasks' = tasks
  BY DEF IInv, TypeOK, Tasks, StartTask, storage
<1>2. m \in Memories
  BY <1>1, StartMemories
<1>3. asked'[t] = "start" /\ \A x \in Tasks \ {t} : asked'[x] = asked[x]
  BY <1>1 DEF StartTask, IInv, TypeOK
<1>4. Spawn(t, m, {}) /\ \A g \in {} : Task(g) = t
  BY DEF StartTask
<1>. HIDE DEF m
<1>. QED
  BY <1>1, <1>2, <1>3, <1>4, SpawnStarts

\* A restart timer starts only what is still wanted.
LEMMA RestartFiredStarts ==
  ASSUME IInv, StartInv, NEW r \in Runs, RestartFired(r)
  PROVE  StartInv' /\ StartsOK
<1> DEFINE t == Task(r)
           m == [rt[t] EXCEPT !.restartTimer = FALSE]
<1>1. /\ call.phase = "idle" /\ UNCHANGED <<tasks, asked>>
      /\ t \in Tasks /\ t \in Continuous /\ rt[t] \in Memories
  BY RunTask DEF RestartFired, storage, IInv, TypeOK, FiresInv
<1>2. m.state = rt[t].state /\ m.desired = rt[t].desired
  BY <1>1 DEF Memories
<1>3. CASE /\ rt' = rt \/ (rt' = [rt EXCEPT ![t] = m] /\ ~Wanted(m) /\ t \in tasks)
           /\ UNCHANGED <<procs, open, host>>
  <2>1. rt' = rt
    <3>1. SUFFICES ASSUME rt' = [rt EXCEPT ![t] = m], ~Wanted(m) PROVE rt' = rt
      BY <1>3
    <3>2. ~rt[t].restartTimer
      BY <1>1, <1>2, <3>1 DEF Wanted, IInv, RestartingIsArmed
    <3>3. m = rt[t]
      BY <1>1, <3>2 DEF Memories
    <3>. QED
      BY <1>1, <3>1, <3>3 DEF IInv, TypeOK
  <2>. QED
    BY <1>1, <1>3, <2>1, QuietStarts DEF Calm, Live
<1>4. CASE t \in tasks /\ Wanted(m) /\ Spawn(t, m, {})
  <2>1. m \in Memories
    BY <1>1, StartMemories
  <2>2. asked'[t] = "start"
    BY <1>1, <1>2, <1>4 DEF Wanted, StartInv, WantedInv
  <2>3. Spawn(t, m, {}) /\ \A g \in {} : Task(g) = t
    BY <1>4
  <2>. HIDE DEF m
  <2>. QED
    BY <1>1, <1>4, <2>1, <2>2, <2>3, SpawnStarts
<1>. QED
  BY <1>3, <1>4 DEF RestartFired

\* What stopTask leaves of a task's memory.
LEMMA StopTaskMemory ==
  ASSUME IInv, NEW t \in Tasks, NEW pending \in BOOLEAN, StopTask(t, pending)
  PROVE  /\ \A x \in Tasks \ {t} : rt'[x] = rt[x]
         /\ rt'[t].active = rt[t].active /\ rt'[t].process = rt[t].process
         /\ rt'[t].pendingStart = pending /\ ~rt'[t].desired
         /\ t \notin Scheduled =>
              rt'[t].state = IF rt[t].process = None THEN "stopped" ELSE "stopping"
<1> DEFINE a == rt[t]
           m == [a EXCEPT !.desired = FALSE, !.restartTimer = FALSE,
                          !.pendingStart = pending]
           s == IF a.process = None THEN "stopped" ELSE "stopping"
           n == IF t \in Scheduled THEN m ELSE [m EXCEPT !.state = s]
<1>1. a \in Memories
  BY DEF IInv, TypeOK
<1>2. rt' = [rt EXCEPT ![t] = n]
  BY DEF StopTask
<1>. HIDE DEF a
<1>3. /\ n.active = a.active /\ n.process = a.process
      /\ n.pendingStart = pending /\ ~n.desired
      /\ t \notin Scheduled => n.state = s
  BY <1>1 DEF Memories
<1>. HIDE DEF n
<1>4. rt'[t] = n /\ \A x \in Tasks \ {t} : rt'[x] = rt[x]
  BY <1>2 DEF IInv, TypeOK
<1>. QED
  BY <1>3, <1>4 DEF a

LEMMA StopTaskStarts ==
  ASSUME IInv, StartInv, NEW t \in tasks, NEW pending \in BOOLEAN,
         StopTask(t, pending), call.phase = "reconcile", call.task = t,
         tasks' \subseteq tasks,
         asked' = [asked EXCEPT ![t] = IF pending THEN "start" ELSE "stop"]
  PROVE  StartInv' /\ StartsOK
<1>1. t \in Tasks
  BY DEF IInv, TypeOK
<1>2. procs' = procs /\ \A x \in Runs : host'[x] = host[x]
  BY DEF StopTask
<1>3. StartsOK
  BY <1>2 DEF StartsOK, StartsAreWanted, SkipsAreApart, Begins, Live
<1>4. SignalledInv'
  <2> SUFFICES ASSUME NEW x \in Continuous, rt'[x].state = "stopping"
               PROVE  /\ rt'[x].process \in Runs /\ Task(rt'[x].process) = x
                      /\ \/ host'[rt'[x].process] # "running"
                         \/ /\ call'.phase = "halt" /\ call'.task = x
                            /\ call'.todo # {} /\ call'.prev = "running"
    BY DEF SignalledInv
  <2>1. CASE x # t
    <3>1. rt'[x] = rt[x]
      BY <1>1, <2>1, StopTaskMemory DEF Tasks
    <3>. QED
      BY <1>2, <3>1 DEF StartInv, SignalledInv
  <2>2. CASE x = t
    <3>1. t \notin Scheduled
      BY <2>2, ConstantsAssumption
    <3>2. rt'[t].process = rt[t].process /\ rt[t].process # None
      BY <1>1, <2>2, <3>1, StopTaskMemory
    <3>3. RunsOf(t) = {rt[t].process} /\ rt[t].state \in {"running", "stopping"}
      BY <2>2, <3>2 DEF IInv, StateMatchesProcess
    <3>4. rt[t].process \in Runs /\ Task(rt[t].process) = t
      BY <3>3 DEF RunsOf, IInv, TypeOK
    <3>5. CASE rt[t].state = "stopping"
      BY <1>2, <2>2, <3>2, <3>4, <3>5 DEF StartInv, SignalledInv
    <3>6. CASE rt[t].state = "running"
      <4>1. call' = [call EXCEPT !.phase = "halt", !.todo = {rt[t].process} \ {None},
                                 !.prev = rt[t].state]
        BY <3>1 DEF StopTask
      <4>2. call'.phase = "halt" /\ call'.task = t /\ call'.todo # {}
            /\ call'.prev = "running"
        BY <3>2, <3>6, <4>1 DEF IInv, TypeOK, Calls
      <4>. QED
        BY <2>2, <3>2, <3>4, <4>2
    <3>. QED
      BY <3>3, <3>5, <3>6
  <2>. QED
    BY <2>1, <2>2
<1>5. WantedInv'
  <2>1. \A x \in Tasks \ {t} : asked'[x] = asked[x] /\ rt'[x] = rt[x]
    BY <1>1, StopTaskMemory DEF IInv, TypeOK
  <2>2. asked'[t] = IF pending THEN "start" ELSE "stop"
    BY <1>1 DEF IInv, TypeOK
  <2>. QED
    BY <1>1, <2>1, <2>2, StopTaskMemory DEF StartInv, WantedInv, Tasks
<1>6. ActiveIsTracked'
  <2>1. \A x \in Tasks : rt'[x].active = rt[x].active /\ RunsOf(x)' = RunsOf(x)
    BY <1>1, <1>2, StopTaskMemory DEF RunsOf
  <2>. QED
    BY <2>1 DEF StartInv, ActiveIsTracked, IInv, TypeOK
<1>. QED
  BY <1>3, <1>4, <1>5, <1>6 DEF StartInv

LEMMA OperationStarts ==
  ASSUME IInv, StartInv, Start \/ Run \/ Stop \/ Restart \/ Delete
  PROVE  StartInv' /\ StartsOK
<1> DEFINE t == call.task
<1>1. call.phase = "reconcile" /\ t \in tasks
  BY ReconciledFacts DEF Start, Run, Stop, Restart, Delete, Reconciled, Ops
<1>2. CASE Start
  BY <1>1, <1>2, StartTaskStarts DEF Start
<1>3. CASE Run
  BY <1>1, <1>3, RunNowStarts DEF Run, storage
<1>4. CASE Stop
  BY <1>1, <1>4, StopTaskStarts DEF Stop
<1>5. CASE Restart
  <2>1. CASE StartTask(t)
    BY <1>1, <1>5, <2>1, StartTaskStarts DEF Restart
  <2>2. CASE /\ StopTask(t, TRUE) /\ asked' = [asked EXCEPT ![t] = "start"]
             /\ UNCHANGED <<tasks, def>>
    BY <1>1, <2>2, StopTaskStarts
  <2>. QED
    BY <1>5, <2>1, <2>2 DEF Restart
<1>6. CASE Delete
  BY <1>1, <1>6, StopTaskStarts DEF Delete
<1>. QED
  BY <1>2, <1>3, <1>4, <1>5, <1>6

LEMMA TerminateStarts ==
  ASSUME IInv, StartInv, NEW r \in Runs, Terminate(r) PROVE StartInv' /\ StartsOK
<1>1. call.phase = "halt" /\ r \in call.todo /\ UNCHANGED <<tasks, asked>>
  BY DEF Terminate, storage
<1>2. CASE ~Live(r) /\ Exited(r, host[r] = "succeeded")
  BY <1>1, <1>2, ExitedStarts
<1>3. CASE /\ Live(r) /\ host' = [host EXCEPT ![r] = "killed"]
           /\ UNCHANGED <<rt, procs, open, timer>>
  <2>1. host'[r] = "killed" /\ \A x \in Runs \ {r} : host'[x] = host[x]
    BY <1>3 DEF IInv, TypeOK
  <2>2. StartsOK
    BY <1>3, <2>1 DEF StartsOK, StartsAreWanted, SkipsAreApart, Begins, Live
  <2>3. SignalledInv'
    <3> SUFFICES ASSUME NEW x \in Continuous, rt[x].state = "stopping"
                 PROVE  /\ rt[x].process \in Runs /\ Task(rt[x].process) = x
                        /\ host'[rt[x].process] # "running"
      BY <1>3 DEF SignalledInv
    <3>1. CASE call.task = x
      BY <1>1, <2>1, <3>1 DEF IInv, CallInv, StartInv, SignalledInv
    <3>2. CASE call.task # x
      BY <2>1, <3>2 DEF StartInv, SignalledInv
    <3>. QED
      BY <3>1, <3>2
  <2>4. WantedInv' /\ ActiveIsTracked'
    BY <1>1, <1>3 DEF StartInv, WantedInv, ActiveIsTracked, RunsOf
  <2>. QED
    BY <2>2, <2>3, <2>4 DEF StartInv
<1>. QED
  BY <1>2, <1>3 DEF Terminate

\* A failed terminate puts back what the task was: had an earlier handler
\* signalled the process, the task is stopping still.
LEMMA TerminateFailsStarts ==
  ASSUME IInv, StartInv, NEW r \in Runs, TerminateFails(r)
  PROVE  StartInv' /\ StartsOK
<1> DEFINE t == Task(r)
<1>1. /\ call.phase = "halt" /\ r \in call.todo /\ t \in Tasks /\ t = call.task
      /\ UNCHANGED <<tasks, procs, host, asked>>
  BY RunTask DEF TerminateFails, storage, IInv, CallInv
<1>2. StartsOK
  BY <1>1 DEF StartsOK, StartsAreWanted, SkipsAreApart, Begins, Live
<1>3. /\ \A x \in Tasks \ {t} : rt'[x] = rt[x]
      /\ rt'[t].active = rt[t].active /\ rt'[t].process = rt[t].process
      /\ rt'[t].desired = rt[t].desired
      /\ rt'[t].pendingStart => rt[t].pendingStart
      /\ t \notin Scheduled => rt'[t].state = call.prev
  <2>1. CASE t \in Scheduled
    BY <2>1 DEF TerminateFails
  <2>2. CASE t \notin Scheduled
    <3> DEFINE a == rt[t]
    <3>1. a \in Memories /\ rt' = [rt EXCEPT ![t] = Undone(a)]
      BY <1>1, <2>2 DEF TerminateFails, IInv, TypeOK
    <3>. HIDE DEF a
    <3>2. /\ Undone(a).active = a.active /\ Undone(a).process = a.process
          /\ Undone(a).desired = a.desired
          /\ Undone(a).pendingStart => a.pendingStart
          /\ Undone(a).state = call.prev
      BY <3>1 DEF Undone, Memories
    <3>3. rt'[t] = Undone(a) /\ \A x \in Tasks \ {t} : rt'[x] = rt[x]
      BY <1>1, <3>1 DEF IInv, TypeOK
    <3>. QED
      BY <3>2, <3>3 DEF a
  <2>. QED
    BY <2>1, <2>2
<1>4. SignalledInv'
  <2> SUFFICES ASSUME NEW x \in Continuous, rt'[x].state = "stopping"
               PROVE  /\ rt'[x].process \in Runs /\ Task(rt'[x].process) = x
                      /\ host[rt'[x].process] # "running"
    BY <1>1 DEF SignalledInv
  <2>1. CASE x = t
    <3>1. call.prev = "stopping" /\ rt[x].state = "stopping"
      BY <1>1, <1>3, <2>1, ConstantsAssumption DEF IInv, CallInv
    <3>. QED
      BY <1>3, <2>1, <3>1 DEF StartInv, SignalledInv
  <2>2. CASE x # t
    BY <1>1, <1>3, <2>2 DEF StartInv, SignalledInv, Tasks
  <2>. QED
    BY <2>1, <2>2
<1>5. WantedInv'
  BY <1>1, <1>3 DEF StartInv, WantedInv, Tasks
<1>6. ActiveIsTracked'
  <2>1. \A x \in Tasks : rt'[x].active = rt[x].active /\ RunsOf(x)' = RunsOf(x)
    BY <1>1, <1>3 DEF RunsOf
  <2>. QED
    BY <1>1, <2>1 DEF StartInv, ActiveIsTracked, Tasks
<1>. QED
  BY <1>2, <1>4, <1>5, <1>6 DEF StartInv

LEMMA HaltedStarts ==
  ASSUME IInv, StartInv, Halted PROVE StartInv' /\ StartsOK
<1> DEFINE t == call.task
<1>1. /\ call.phase = "halt" /\ call.todo = {} /\ t \in Tasks
      /\ UNCHANGED <<tasks, procs, host, asked>>
      /\ call.op = "delete" => t \notin tasks
  BY DEF Halted, storage, IInv, CallInv
<1>2. CASE UNCHANGED rt
  BY <1>1, <1>2, QuietStarts DEF Calm, Live
<1>3. CASE call.op = "delete" /\ rt' = [rt EXCEPT ![t] = Fresh]
  <2>1. rt'[t] = Fresh /\ \A x \in Tasks \ {t} : rt'[x] = rt[x]
    BY <1>1, <1>3 DEF IInv, TypeOK
  <2>2. Fresh.state = "stopped" /\ ~Fresh.desired /\ ~Fresh.pendingStart
    BY DEF Fresh
  <2>3. SignalledInv' /\ WantedInv'
    BY <1>1, <2>1, <2>2 DEF StartInv, SignalledInv, WantedInv, Tasks
  <2>4. ActiveIsTracked'
    <3>1. \A x \in tasks : rt'[x] = rt[x] /\ RunsOf(x)' = RunsOf(x)
      BY <1>1, <1>3, <2>1 DEF RunsOf, IInv, TypeOK
    <3>. QED
      BY <1>1, <3>1 DEF StartInv, ActiveIsTracked
  <2>5. StartsOK
    BY <1>1 DEF StartsOK, StartsAreWanted, SkipsAreApart, Begins, Live
  <2>. QED
    BY <2>3, <2>4, <2>5 DEF StartInv
<1>. QED
  BY <1>2, <1>3 DEF Halted

\* With the plugin's process everything that was wanted is forgotten.
LEMMA GoneStarts ==
  ASSUME IInv, Gone PROVE StartInv' /\ StartsOK
<1>1. /\ \A t \in Tasks : rt'[t] = Fresh
      /\ procs' = {} /\ \A r \in Runs : host'[r] = "none"
  BY DEF Gone
<1>2. /\ Fresh.state = "stopped" /\ ~Fresh.desired /\ ~Fresh.pendingStart
      /\ Fresh.active = 0
  BY DEF Fresh
<1>3. SignalledInv' /\ WantedInv'
  BY <1>1, <1>2 DEF SignalledInv, WantedInv, Tasks
<1>4. ActiveIsTracked'
  <2>1. \A t : RunsOf(t)' = {}
    BY <1>1 DEF RunsOf
  <2>. QED
    BY <1>1, <1>2, <2>1, FS_EmptySet DEF ActiveIsTracked, Tasks
<1>5. StartsOK
  BY <1>1 DEF StartsOK, StartsAreWanted, SkipsAreApart, Begins, Live
<1>. QED
  BY <1>3, <1>4, <1>5 DEF StartInv

LEMMA CreateStarts ==
  ASSUME IInv, StartInv, NEW t \in Tasks, NEW d \in Defs(t), Create(t, d)
  PROVE  StartInv' /\ StartsOK
<1>1. /\ t \notin issued /\ tasks' = tasks \cup {t} /\ call.phase = "idle"
      /\ UNCHANGED <<rt, procs, host, asked>>
  BY DEF Create, memory
<1>2. SignalledInv' /\ WantedInv'
  BY <1>1 DEF StartInv, SignalledInv, WantedInv
<1>3. ActiveIsTracked'
  <2>1. rt[t].active = 0 /\ RunsOf(t) = {}
    BY <1>1 DEF IInv, UntouchedInv, Untouched, Fresh
  <2>2. \A x : RunsOf(x)' = RunsOf(x)
    BY <1>1 DEF RunsOf
  <2>. QED
    BY <1>1, <2>1, <2>2, FS_EmptySet DEF StartInv, ActiveIsTracked
<1>4. StartsOK
  BY <1>1 DEF StartsOK, StartsAreWanted, SkipsAreApart, Begins, Live
<1>. QED
  BY <1>2, <1>3, <1>4 DEF StartInv

\* Steps of the handler, of the host or of a request that start nothing and
\* leave the plugin's memory alone.
LEMMA CalmStarts ==
  ASSUME IInv, StartInv,
         \/ Boot \/ LoadFails \/ Shutdown \/ Restored \/ Return
         \/ \E op \in Ops, t \in Tasks \cup {None} : Reconcile(op, t)
         \/ HostStep
         \/ \E r \in Runs : ShutdownStep(r)
         \/ \E t \in Tasks : UpdateFails(t) \/ \E d \in Defs(t) : Update(t, d)
  PROVE  StartInv' /\ StartsOK
<1>1. CASE Boot \/ LoadFails \/ Shutdown \/ Restored \/ Return
  BY <1>1, QuietStarts DEF Boot, LoadFails, Shutdown, Restored, Return, storage,
                           Calm, Live
<1>2. ASSUME NEW op \in Ops, NEW t \in Tasks \cup {None}, Reconcile(op, t)
      PROVE  StartInv' /\ StartsOK
  BY <1>2, QuietStarts DEF Reconcile, storage, Calm, Live
<1>3. ASSUME NEW r \in Runs, ShutdownStep(r) PROVE StartInv' /\ StartsOK
  <2>1. Calm
    BY <1>3 DEF ShutdownStep, Calm, Live, IInv, TypeOK
  <2>. QED
    BY <1>3, <2>1, QuietStarts DEF ShutdownStep, storage
<1>4. ASSUME NEW t \in Tasks, UpdateFails(t) \/ \E d \in Defs(t) : Update(t, d)
      PROVE  StartInv' /\ StartsOK
  BY <1>4, QuietStarts DEF UpdateFails, Update, storage, memory, Calm, Live
<1>5. ASSUME NEW t \in Tasks, RestartTick(t) \/ ScheduleTick(t)
      PROVE  StartInv' /\ StartsOK
  BY <1>5, QuietStarts DEF RestartTick, ScheduleTick, storage, memory, Calm, Live
<1>6. ASSUME NEW r \in Runs,
             Timeout(r) \/ Forget(r) \/ \E ok \in BOOLEAN : ProcessExits(r, ok)
      PROVE  StartInv' /\ StartsOK
  <2>1. Calm
    BY <1>6 DEF Timeout, Forget, ProcessExits, Calm, Live, IInv, TypeOK
  <2>. QED
    BY <1>6, <2>1, QuietStarts DEF Timeout, Forget, ProcessExits, storage, memory
<1>. QED
  BY <1>1, <1>2, <1>3, <1>4, <1>5, <1>6 DEF HostStep

LEMMA NextStarts ==
  ASSUME IInv, StartInv, Next PROVE StartInv' /\ StartsOK
<1>1. CASE Boot \/ LoadFails \/ Shutdown \/ Restored \/ Return \/ HostStep
  BY <1>1, CalmStarts
<1>2. CASE Crash \/ ShutdownDone
  BY <1>2, GoneStarts DEF Crash, ShutdownDone
<1>3. CASE Check
  BY <1>3, CalmStarts DEF Check, Ops
<1>4. CASE Start \/ Run \/ Stop \/ Restart \/ Delete
  BY <1>4, OperationStarts
<1>5. CASE TerminateStatus
  <2>1. call.phase = "status" /\ call.run \in Runs /\ UNCHANGED <<tasks, asked>>
    BY <1>5 DEF TerminateStatus, storage, IInv, CallInv, TypeOK
  <2>2. CASE UNCHANGED <<rt, procs, open, host, timer>>
    BY <2>1, <2>2, QuietStarts DEF Calm, Live
  <2>3. CASE ~Live(call.run) /\ Exited(call.run, host[call.run] = "succeeded")
    BY <2>1, <2>3, ExitedStarts
  <2>. QED
    BY <1>5, <2>2, <2>3 DEF TerminateStatus
<1>6. CASE Halted
  BY <1>6, HaltedStarts
<1>7. CASE \E t \in Tasks : Restore(t)
  BY <1>7, RestoreStarts
<1>8. ASSUME NEW r \in Runs, ReconcileStep(r) PROVE StartInv' /\ StartsOK
  <2>1. call.phase = "reconcile" /\ UNCHANGED <<tasks, asked>>
    BY <1>8 DEF ReconcileStep, storage
  <2>2. CASE UNCHANGED <<rt, procs, open, host, timer>>
    BY <2>1, <2>2, QuietStarts DEF Calm, Live
  <2>3. CASE ~Live(r) /\ Exited(r, host[r] = "succeeded")
    BY <2>1, <2>3, ExitedStarts
  <2>. QED
    BY <1>8, <2>2, <2>3 DEF ReconcileStep
<1>9. CASE \E r \in Runs : Terminate(r) \/ ShutdownStep(r)
  BY <1>9, TerminateStarts, CalmStarts
<1>10. CASE HandlerStep
  BY <1>1, <1>2, <1>4, <1>5, <1>6, <1>7, <1>8, <1>9, <1>10 DEF HandlerStep
<1>11. ASSUME NEW r \in Runs, DeliverExit(r) PROVE StartInv' /\ StartsOK
  <2>1. call.phase = "idle" /\ UNCHANGED <<tasks, asked>>
    BY <1>11 DEF DeliverExit, storage
  <2>2. PICK ok \in BOOLEAN : <<r, ok>> \in exits /\ Exited(r, ok)
    BY <1>11 DEF DeliverExit
  <2>3. ~Live(r)
    BY <2>2 DEF IInv, LedgerInv
  <2>. QED
    BY <2>1, <2>2, <2>3, ExitedStarts
<1>12. CASE Callback
  BY <1>11, <1>12, RestartFiredStarts DEF Callback
<1>13. CASE Request
  <2>1. ASSUME NEW t \in Tasks, NEW op \in Ops, Control(op, t)
        PROVE  StartInv' /\ StartsOK
    BY <2>1, CalmStarts DEF Control
  <2>2. ASSUME NEW t \in Tasks,
               UpdateFails(t) \/ \E d \in Defs(t) : Create(t, d) \/ Update(t, d)
        PROVE  StartInv' /\ StartsOK
    BY <2>2, CalmStarts, CreateStarts
  <2>. QED
    BY <1>13, <2>1, <2>2 DEF Request
<1>14. CASE \E r \in Runs : TerminateFails(r)
  BY <1>14, TerminateFailsStarts
<1>15. ASSUME NEW t \in Tasks, TaskFired(t) PROVE StartInv' /\ StartsOK
  <2>1. call.phase = "idle" /\ UNCHANGED <<tasks, asked>>
    BY <1>15 DEF TaskFired, storage
  <2>2. CASE UNCHANGED <<rt, procs, open, host>>
    BY <2>1, <2>2, QuietStarts DEF Calm, Live
  <2>3. CASE t \in tasks /\ RunNow(t)
    <3>1. t \in Scheduled
      BY <1>15 DEF TaskFired, IInv, TypeOK
    <3>. QED
      BY <2>1, <2>3, <3>1, RunNowStarts
  <2>. QED
    BY <1>15, <2>2, <2>3 DEF TaskFired
<1>. QED
  BY <1>1, <1>2, <1>3, <1>4, <1>10, <1>12, <1>13, <1>14, <1>15 DEF Next

\* The larger invariant, and what every step of a behaviour may start.
LEMMA StartInvariance == Spec => [](IInv /\ StartInv)
<1>1. Init => StartInv
  <2> SUFFICES ASSUME Init PROVE StartInv
    OBVIOUS
  <2>1. SignalledInv /\ WantedInv
    BY DEF Init, SignalledInv, WantedInv, Fresh, Tasks
  <2>2. ActiveIsTracked
    BY DEF Init, ActiveIsTracked
  <2>. QED
    BY <2>1, <2>2 DEF StartInv
<1>2. IInv /\ StartInv /\ [Next]_vars => StartInv'
  <2>1. ASSUME IInv, StartInv, UNCHANGED vars PROVE StartInv'
    BY <2>1 DEF vars, StartInv, SignalledInv, WantedInv, ActiveIsTracked, RunsOf
  <2>. QED
    BY <2>1, NextStarts
<1>. QED
  BY <1>1, <1>2, Invariance, PTL DEF Spec

\* A restart request is remembered only while the old process is on its way
\* out, and outside a handler a stopping task's process was signalled, failed
\* terminates and repeated stops included.
THEOREM PendingRestartsComplete == Spec => []PendingIsStopping
<1>1. IInv /\ StartInv => PendingIsStopping
  BY DEF IInv, PendingInv, StartInv, SignalledInv, PendingIsStopping
<1>. QED
  BY <1>1, StartInvariance, PTL

\* The count that decides whether the next fire of a schedule is skipped is
\* the number of runs tracked for the task, however exits are lost or found.
THEOREM ActiveCountIsRight == Spec => []ActiveIsTracked
<1>1. StartInv => ActiveIsTracked
  BY DEF StartInv
<1>. QED
  BY <1>1, StartInvariance, PTL

\* After an administrator's stop or delete nothing of the past - a remembered
\* restart, an armed timer, an exit that comes late - starts the task again.
THEOREM NothingStartsUnwanted == Spec => NoUnwantedStart
<1>1. IInv /\ StartInv /\ [Next]_vars =>
        [\A r \in Runs : Task(r) \in Continuous /\ Begins(r)
           => asked'[Task(r)] = "start" /\ Task(r) \in tasks]_vars
  BY NextStarts DEF StartsOK, StartsAreWanted
<1>. QED
  BY <1>1, StartInvariance, PTL DEF Spec, NoUnwantedStart

\* With overlap policy skip a scheduled task starts only when no process of an
\* earlier run of it is alive.
THEOREM SkippedRunsNeverOverlap == Spec => SkipNeverOverlaps
<1>1. IInv /\ StartInv /\ [Next]_vars =>
        [\A r \in Runs : Task(r) \in Scheduled /\ Begins(r)
           => \/ def[Task(r)].overlap = "allow"
              \/ \A o \in Runs : Task(o) = Task(r) => ~Live(o)]_vars
  BY NextStarts DEF StartsOK, SkipsAreApart
<1>. QED
  BY <1>1, StartInvariance, PTL DEF Spec, SkipNeverOverlaps

=============================================================================
