----------------------------- MODULE JobScheduler -----------------------------
(***************************************************************************)
(* The scheduler of backup jobs and their runner (internal/scheduler,      *)
(* internal/jobs/runner.go, and the job operations of the controller).     *)
(*                                                                         *)
(* Saving or deleting a job updates the configuration and reloads the      *)
(* scheduler: the loops of the jobs in force are cancelled and waited for, *)
(* and loops of the new set are started.  Requests run concurrently, and   *)
(* nothing is locked over the whole of a reload.                           *)
(*                                                                         *)
(* A generation is one reload's cancel channel; generations and runs are   *)
(* used again once nothing refers to them, so behaviours are unbounded.    *)
(***************************************************************************)
EXTENDS Naturals, FiniteSets

CONSTANTS
  Jobs,         \* job identifiers
  Policies,     \* overlap policies the jobs may have: "skip", "allow"
  Editors,      \* requests that save or delete jobs at the same time
  Generations,  \* cancel channels
  Runs,         \* runs in flight
  None

ConstantsAssumption ==
  /\ Policies \subseteq {"skip", "allow"}
  /\ None \notin Policies \cup Generations \cup Runs
  /\ Generations # {}

VARIABLES
  jobs,       \* the configuration: the definition of each job, or None
  editor,     \* the request of each editor
  current,    \* Scheduler.cancel
  cancelled,  \* channels that were closed
  loops,      \* the loops that run; Scheduler.wg counts them all
  active,     \* Runner.active: the run each job is said to be in
  running,    \* the runs that are executed, with their job
  allowed     \* auxiliary: jobs that were started with the policy allow

runner == <<active, running, allowed>>
vars == <<jobs, editor, current, cancelled, loops, active, running, allowed>>

Definitions == [enabled : BOOLEAN, policy : Policies]
Configs == [Jobs -> Definitions \cup {None}]
Loop(g, j, p) == [gen |-> g, job |-> j, policy |-> p]
Loops == [gen : Generations, job : Jobs, policy : Policies]
LoopsOf(g, config) ==
  {l \in Loops : l.gen = g /\ config[l.job] = [enabled |-> TRUE, policy |-> l.policy]}

\* A request: the jobs it compiled, and the channel it took to cancel.
Requests == [step : {"idle", "saved", "compiled", "waiting", "stopped"},
             jobs : Configs]
NoJobs == [j \in Jobs |-> None]
NoRequest == [step |-> "idle", jobs |-> NoJobs]

Unused == {g \in Generations : g # current /\ \A l \in loops : l.gen # g}
RunIds == {x.run : x \in running}

Init ==
  /\ jobs \in Configs
  /\ editor = [e \in Editors |-> NoRequest]
  /\ current \in Generations
  /\ cancelled = {}
  /\ loops = LoopsOf(current, jobs)
  /\ active = [j \in Jobs |-> None]
  /\ running = {} /\ allowed = {}

(* Operators that stand right before another one, with its parameters, and  *)
(* that no action uses are faulty variants of it: each run is repeated with *)
(* a variant in place of the original, and must then fail.                  *)

-----------------------------------------------------------------------------
(* UpsertJob and DeleteJob. *)

SaveAsGiven(e, j, def) ==
  /\ editor[e].step = "idle"
  /\ jobs' = [jobs EXCEPT ![j] = IF def = None THEN None ELSE [def EXCEPT !.policy = ""]]
  /\ editor' = [editor EXCEPT ![e].step = "saved"]
  /\ UNCHANGED <<current, cancelled, loops, runner>>

\* A definition is normalised, so that its policy is one of Policies; None
\* deletes the job, which is an error when there is none.
Save(e, j, def) ==
  /\ editor[e].step = "idle"
  /\ def = None => jobs[j] # None
  /\ jobs' = [jobs EXCEPT ![j] = def]
  /\ editor' = [editor EXCEPT ![e].step = "saved"]
  /\ UNCHANGED <<current, cancelled, loops, runner>>

\* The jobs are read again, and compiled, after they were saved.
Compile(e) ==
  /\ editor[e].step = "saved"
  /\ editor' = [editor EXCEPT ![e] = [step |-> "compiled", jobs |-> jobs]]
  /\ UNCHANGED <<jobs, current, cancelled, loops, runner>>

TakeUnclosed(e) ==
  /\ editor[e].step = "compiled"
  /\ current' = None
  /\ editor' = [editor EXCEPT ![e].step =
                  IF current = None THEN "stopped" ELSE "waiting"]
  /\ UNCHANGED <<jobs, cancelled, loops, runner>>

\* stopJobs: whoever takes the channel closes it and waits for the loops; a
\* reload that finds none goes on at once.
Take(e) ==
  /\ editor[e].step = "compiled"
  /\ current' = None
  /\ cancelled' = cancelled \cup ({current} \ {None})
  /\ editor' = [editor EXCEPT ![e].step =
                  IF current = None THEN "stopped" ELSE "waiting"]
  /\ UNCHANGED <<jobs, loops, runner>>

WaitedNot(e) ==
  /\ editor[e].step = "waiting"
  /\ editor' = [editor EXCEPT ![e].step = "stopped"]
  /\ UNCHANGED <<jobs, current, cancelled, loops, runner>>

\* The wait is for every loop there is, not for those of the closed channel.
Waited(e) ==
  /\ editor[e].step = "waiting" /\ loops = {}
  /\ editor' = [editor EXCEPT ![e].step = "stopped"]
  /\ UNCHANGED <<jobs, current, cancelled, loops, runner>>

Install(e) ==
  /\ editor[e].step = "stopped"
  /\ \E g \in Unused :
       /\ current' = g
       /\ cancelled' = cancelled \ {g}
       /\ loops' = loops \cup LoopsOf(g, editor[e].jobs)
  /\ editor' = [editor EXCEPT ![e] = NoRequest]
  /\ UNCHANGED <<jobs, runner>>

-----------------------------------------------------------------------------
(* Loops and runs. *)

LoopEnds(l) ==
  /\ l \in loops /\ l.gen \in cancelled
  /\ loops' = loops \ {l}
  /\ UNCHANGED <<jobs, editor, current, cancelled, runner>>

MayRunAlways(j, policy) == TRUE
MayRun(j, policy) == active[j] = None \/ policy = "allow"

\* Runner.Run
Start(j, policy) ==
  /\ MayRun(j, policy)
  /\ \E r \in Runs \ RunIds :
       /\ active' = [active EXCEPT ![j] = r]
       /\ running' = running \cup {[run |-> r, job |-> j]}
  /\ allowed' = IF policy = "allow" THEN allowed \cup {j} ELSE allowed
  /\ UNCHANGED <<jobs, editor, current, cancelled, loops>>

\* A loop whose timer fires when its channel was closed may fire once more.
Fire(l) == l \in loops /\ Start(l.job, l.policy)

\* An administrator may run a disabled job, too.
RunJob(j) == jobs[j] # None /\ Start(j, jobs[j].policy)

FinishActive(x) ==
  /\ x \in running
  /\ running' = running \ {x}
  /\ UNCHANGED <<jobs, editor, current, cancelled, loops, active, allowed>>

\* Whichever run of a job ends, the job is no longer said to be in a run.
Finish(x) ==
  /\ x \in running
  /\ running' = running \ {x}
  /\ active' = [active EXCEPT ![x.job] = None]
  /\ UNCHANGED <<jobs, editor, current, cancelled, loops, allowed>>

-----------------------------------------------------------------------------
Reload(e) == Compile(e) \/ Take(e) \/ Waited(e) \/ Install(e)

Next ==
  \/ \E e \in Editors : Reload(e) \/ \E j \in Jobs, def \in Definitions \cup {None} : Save(e, j, def)
  \/ \E l \in loops : LoopEnds(l) \/ Fire(l)
  \/ \E j \in Jobs : RunJob(j)
  \/ \E x \in running : Finish(x)

Spec == Init /\ [][Next]_vars

\* Goroutines run, and a loop whose channel is closed takes that case in the
\* end although its timer fires too.
Fairness ==
  /\ \A e \in Editors : WF_vars(Reload(e))
  /\ \A l \in Loops : WF_vars(LoopEnds(l))

FairSpec == Spec /\ Fairness

-----------------------------------------------------------------------------
(* Properties. *)

TypeOK ==
  /\ jobs \in Configs
  /\ editor \in [Editors -> Requests]
  /\ current \in Generations \cup {None}
  /\ cancelled \subseteq Generations
  /\ loops \subseteq Loops
  /\ active \in [Jobs -> Runs \cup {None}]
  /\ running \subseteq [run : Runs, job : Jobs] /\ allowed \subseteq Jobs

Reloading == \E e \in Editors : editor[e].step # "idle"

\* Between reloads the loops that run are those of the configuration, one per
\* enabled job: no job is lost and none runs on a schedule that was replaced.
LoopsMatchJobs ==
  ~Reloading => current # None /\ loops = LoopsOf(current, jobs)

\* "stopJobs stops only the legacy job loops. Reload uses it [...]"
\* (internal/scheduler/scheduler.go:182): what a reload replaces is stopped, so
\* a loop that is not of the channel in force is of one that was closed.
ReplacedLoopsStop ==
  \A l \in loops : l.gen = current \/ l.gen \in cancelled

\* A request to save or delete a job returns: the loops it waits for end.
ReloadReturns == \A e \in Editors : editor[e].step # "idle" ~> editor[e].step = "idle"

\* Two runs of a job that was only ever started with the policy skip never
\* overlap, whether a loop, a loop of an earlier definition or an administrator
\* starts them.
SkipNeverOverlaps ==
  \A x, y \in running : x.job = y.job /\ x.job \notin allowed => x = y

\* Such a job is said to be in a run exactly while it is executed, so that a run
\* that ended never blocks the next one.
ActiveIsRunning ==
  \A j \in Jobs \ allowed :
    active[j] # None <=> \E x \in running : x.job = j /\ x.run = active[j]

\* Reloads, loops, runs by hand and their ends keep the loops those of the
\* configuration and the runs of a job apart (Reload, runJob).
JobsApart == LoopsMatchJobs /\ SkipNeverOverlaps /\ ActiveIsRunning
=============================================================================
