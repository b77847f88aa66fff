---------------------------- MODULE EndingsProofs ----------------------------
(***************************************************************************)
(* Proofs about the components in which something must end: the scheduler  *)
(* of jobs and the process sessions of plugins, and, from them and from    *)
(* the theorems of PluginProcessesProofs and WebSessionsProofs, the        *)
(* invariants of MCEndings, for every number of jobs, processes, sessions  *)
(* and sockets.                                                            *)
(***************************************************************************)
EXTENDS MCEndings, FiniteSets, SequencesExt, FiniteSetTheorems, SequenceTheorems, TLAPS

-----------------------------------------------------------------------------
(***************************************************************************)
(* Proofs about the job scheduler and runner: runs of a job that skips do  *)
(* not overlap whatever requests do, and loops are those of the            *)
(* configuration while requests come one at a time.                        *)
(***************************************************************************)

\* The runs of a job that was never started with the policy allow: the one it
\* is said to be in, or none.
SchedulerRunsOf(j) == {x \in running : x.job = j}
SchedulerSaidToRun(j) == IF active[j] = None THEN {} ELSE {[run |-> active[j], job |-> j]}
SchedulerRunsAreSaid == \A j \in Jobs \ allowed : SchedulerRunsOf(j) = SchedulerSaidToRun(j)

\* Requests that come one at a time.
SchedulerOneEditor == \A e, f \in Editors : e = f

SchedulerInForce == current # None /\ current \notin cancelled

\* What a request has reached when it is alone.
SchedulerStepsKeptBy(e) ==
  /\ editor[e].step \in {"saved", "compiled"} => SchedulerInForce /\ \A l \in loops : l.gen = current
  /\ editor[e].step \in {"compiled", "waiting", "stopped"} => editor[e].jobs = jobs
  /\ editor[e].step = "stopped" => loops = {}

SchedulerAloneInv ==
  /\ ~Scheduling!Reloading => SchedulerInForce /\ loops = Scheduling!LoopsOf(current, jobs)
  /\ \A e \in Editors : SchedulerStepsKeptBy(e)

\* The runner's part of a start and of an end.
LEMMA SchedulerStartTypes ==
  ASSUME Scheduling!ConstantsAssumption, Scheduling!TypeOK, NEW j \in Jobs, NEW policy \in Policies, Scheduling!Start(j, policy)
  PROVE  Scheduling!TypeOK'
<1>. PICK r \in Runs \ Scheduling!RunIds : active' = [active EXCEPT ![j] = r] /\ running' = running \cup {[run |-> r, job |-> j]}
  BY DEF Scheduling!Start
<1>. QED
  BY DEF Scheduling!Start, Scheduling!TypeOK

LEMMA SchedulerStartSaid ==
  ASSUME Scheduling!ConstantsAssumption, Scheduling!TypeOK, SchedulerRunsAreSaid, NEW j \in Jobs, NEW policy \in Policies, Scheduling!Start(j, policy)
  PROVE  SchedulerRunsAreSaid'
<1>1. PICK r \in Runs \ Scheduling!RunIds : active' = [active EXCEPT ![j] = r] /\ running' = running \cup {[run |-> r, job |-> j]}
  BY DEF Scheduling!Start
<1>2. allowed' = (IF policy = "allow" THEN allowed \cup {j} ELSE allowed) /\ Scheduling!MayRun(j, policy)
  BY DEF Scheduling!Start
<1>3. ASSUME NEW k \in Jobs, k \notin allowed' PROVE SchedulerRunsOf(k)' = SchedulerSaidToRun(k)'
  <2>1. k \notin allowed /\ SchedulerRunsOf(k) = SchedulerSaidToRun(k)
    BY <1>2, <1>3 DEF SchedulerRunsAreSaid
  <2>2. CASE k # j
    <3>1. active'[k] = active[k]
      BY <1>1, <2>2 DEF Scheduling!TypeOK
    <3>2. SchedulerRunsOf(k)' = SchedulerRunsOf(k)
      BY <1>1, <2>2 DEF SchedulerRunsOf
    <3>. QED
      BY <2>1, <3>1, <3>2 DEF SchedulerSaidToRun
  <2>3. CASE k = j
    <3>1. policy # "allow" /\ active[k] = None
      BY <1>2, <1>3, <2>3 DEF Scheduling!MayRun
    <3>2. SchedulerRunsOf(k) = {}
      BY <2>1, <3>1 DEF SchedulerSaidToRun
    <3>3. SchedulerRunsOf(k)' = {[run |-> r, job |-> k]}
      BY <1>1, <2>3, <3>2 DEF SchedulerRunsOf
    <3>4. active'[k] = r /\ r # None
      BY <1>1, <2>3 DEF Scheduling!TypeOK, Scheduling!ConstantsAssumption
    <3>. QED
      BY <3>3, <3>4 DEF SchedulerSaidToRun
  <2>. QED
    BY <2>2, <2>3
<1>. QED
  BY <1>3 DEF SchedulerRunsAreSaid

LEMMA SchedulerFinishSaid ==
  ASSUME Scheduling!ConstantsAssumption, Scheduling!TypeOK, SchedulerRunsAreSaid, NEW x \in running, Scheduling!Finish(x)
  PROVE  SchedulerRunsAreSaid'
<1>1. running' = running \ {x} /\ active' = [active EXCEPT ![x.job] = None] /\ allowed' = allowed
  BY DEF Scheduling!Finish
<1>2. x.job \in Jobs /\ x.run \in Runs /\ x = [run |-> x.run, job |-> x.job]
  BY DEF Scheduling!TypeOK
<1>3. ASSUME NEW k \in Jobs, k \notin allowed PROVE SchedulerRunsOf(k)' = SchedulerSaidToRun(k)'
  <2>1. SchedulerRunsOf(k) = SchedulerSaidToRun(k)
    BY <1>3 DEF SchedulerRunsAreSaid
  <2>2. CASE k # x.job
    <3>1. active'[k] = active[k]
      BY <1>1, <2>2 DEF Scheduling!TypeOK
    <3>2. SchedulerRunsOf(k)' = SchedulerRunsOf(k)
      BY <1>1, <2>2 DEF SchedulerRunsOf
    <3>. QED
      BY <2>1, <3>1, <3>2 DEF SchedulerSaidToRun
  <2>3. CASE k = x.job
    <3>1. x \in SchedulerRunsOf(k)
      BY <2>3 DEF SchedulerRunsOf
    <3>2. SchedulerRunsOf(k) = {x}
      BY <2>1, <3>1 DEF SchedulerSaidToRun
    <3>3. SchedulerRunsOf(k)' = {}
      BY <1>1, <3>2 DEF SchedulerRunsOf
    <3>4. active'[k] = None
      BY <1>1, <2>3 DEF Scheduling!TypeOK
    <3>. QED
      BY <3>3, <3>4 DEF SchedulerSaidToRun
  <2>. QED
    BY <2>2, <2>3
<1>. QED
  BY <1>1, <1>3 DEF SchedulerRunsAreSaid

LEMMA SchedulerLoopsTyped == \A config : \A g \in Generations : Scheduling!LoopsOf(g, config) \subseteq Scheduling!Loops
  BY DEF Scheduling!LoopsOf

\* The types.
LEMMA SchedulerTypesStart == ASSUME Scheduling!ConstantsAssumption PROVE Scheduling!Init => Scheduling!TypeOK
<1>. SUFFICES ASSUME Scheduling!Init PROVE Scheduling!TypeOK
  OBVIOUS
<1>1. Scheduling!NoRequest \in Scheduling!Requests
  BY DEF Scheduling!NoRequest, Scheduling!Requests, Scheduling!NoJobs, Scheduling!Configs
<1>. QED
  BY <1>1, SchedulerLoopsTyped DEF Scheduling!Init, Scheduling!TypeOK

LEMMA SchedulerTypesKept == ASSUME Scheduling!ConstantsAssumption PROVE Scheduling!TypeOK /\ [Scheduling!Next]_(Scheduling!vars) => Scheduling!TypeOK'
<1>. SUFFICES ASSUME Scheduling!TypeOK, [Scheduling!Next]_(Scheduling!vars) PROVE Scheduling!TypeOK'
  OBVIOUS
<1>0. Scheduling!NoRequest \in Scheduling!Requests /\ \A e \in Editors, s \in {"idle", "saved", "compiled", "waiting", "stopped"} :
                   [editor EXCEPT ![e].step = s] \in [Editors -> Scheduling!Requests]
  BY DEF Scheduling!NoRequest, Scheduling!Requests, Scheduling!NoJobs, Scheduling!Configs,
         Scheduling!TypeOK
<1>1. ASSUME NEW e \in Editors, NEW j \in Jobs, NEW def \in Scheduling!Definitions \cup {None}, Scheduling!Save(e, j, def)
      PROVE  Scheduling!TypeOK'
  BY <1>0, <1>1 DEF Scheduling!TypeOK, Scheduling!Save, Scheduling!runner, Scheduling!Configs
<1>2. ASSUME NEW e \in Editors, Scheduling!Compile(e) PROVE Scheduling!TypeOK'
  BY <1>2 DEF Scheduling!TypeOK, Scheduling!Compile, Scheduling!runner, Scheduling!Requests
<1>3. ASSUME NEW e \in Editors, Scheduling!Take(e) PROVE Scheduling!TypeOK'
  BY <1>0, <1>3 DEF Scheduling!TypeOK, Scheduling!Take, Scheduling!runner
<1>4. ASSUME NEW e \in Editors, Scheduling!Waited(e) PROVE Scheduling!TypeOK'
  BY <1>0, <1>4 DEF Scheduling!TypeOK, Scheduling!Waited, Scheduling!runner
<1>5. ASSUME NEW e \in Editors, Scheduling!Install(e) PROVE Scheduling!TypeOK'
  <2>1. PICK g \in Scheduling!Unused : current' = g /\ cancelled' = cancelled \ {g}
                                       /\ loops' = loops \cup Scheduling!LoopsOf(g, editor[e].jobs)
    BY <1>5 DEF Scheduling!Install
  <2>2. g \in Generations
    BY DEF Scheduling!Unused
  <2>3. loops' \subseteq Scheduling!Loops
    BY <2>1, <2>2, SchedulerLoopsTyped DEF Scheduling!TypeOK
  <2>. QED
    BY <1>0, <1>5, <2>1, <2>2, <2>3 DEF Scheduling!TypeOK, Scheduling!Install, Scheduling!runner
<1>6. ASSUME NEW l \in loops, Scheduling!LoopEnds(l) PROVE Scheduling!TypeOK'
  BY <1>6 DEF Scheduling!TypeOK, Scheduling!LoopEnds, Scheduling!runner
<1>7. ASSUME NEW l \in loops, Scheduling!Fire(l) PROVE Scheduling!TypeOK'
  <2>1. l.job \in Jobs /\ l.policy \in Policies
    BY DEF Scheduling!TypeOK, Scheduling!Loops
  <2>. QED
    BY <1>7, <2>1, SchedulerStartTypes DEF Scheduling!Fire
<1>8. ASSUME NEW j \in Jobs, Scheduling!RunJob(j) PROVE Scheduling!TypeOK'
  <2>1. jobs[j].policy \in Policies
    BY <1>8 DEF Scheduling!TypeOK, Scheduling!Configs, Scheduling!Definitions, Scheduling!RunJob
  <2>. QED
    BY <1>8, <2>1, SchedulerStartTypes DEF Scheduling!RunJob
<1>9. ASSUME NEW x \in running, Scheduling!Finish(x) PROVE Scheduling!TypeOK'
  <2>1. x.job \in Jobs
    BY DEF Scheduling!TypeOK
  <2>. QED
    BY <1>9, <2>1 DEF Scheduling!TypeOK, Scheduling!Finish
<1>10. CASE UNCHANGED Scheduling!vars
  BY <1>10 DEF Scheduling!TypeOK, Scheduling!vars
<1>. QED
  BY <1>1, <1>2, <1>3, <1>4, <1>5, <1>6, <1>7, <1>8, <1>9, <1>10 DEF Scheduling!Next, Scheduling!Reload

\* The scheduler, its loops and its runs keep their types.
THEOREM SchedulerTypeCorrect == ASSUME Scheduling!ConstantsAssumption PROVE Scheduling!Spec => []Scheduling!TypeOK
  BY SchedulerTypesStart, SchedulerTypesKept, PTL DEF Scheduling!Spec

LEMMA SchedulerRunsStart == ASSUME Scheduling!ConstantsAssumption PROVE Scheduling!Init => SchedulerRunsAreSaid
  BY DEF Scheduling!Init, SchedulerRunsAreSaid, SchedulerRunsOf, SchedulerSaidToRun

LEMMA SchedulerRunsKept ==
  ASSUME Scheduling!ConstantsAssumption PROVE Scheduling!TypeOK /\ SchedulerRunsAreSaid /\ [Scheduling!Next]_(Scheduling!vars) => SchedulerRunsAreSaid'
<1>. SUFFICES ASSUME Scheduling!TypeOK, SchedulerRunsAreSaid, [Scheduling!Next]_(Scheduling!vars) PROVE SchedulerRunsAreSaid'
  OBVIOUS
<1>1. ASSUME UNCHANGED Scheduling!runner PROVE SchedulerRunsAreSaid'
  BY <1>1 DEF Scheduling!runner, SchedulerRunsAreSaid, SchedulerRunsOf, SchedulerSaidToRun
<1>2. ASSUME NEW e \in Editors, Scheduling!Reload(e) PROVE UNCHANGED Scheduling!runner
  BY <1>2
     DEF Scheduling!Reload, Scheduling!Compile, Scheduling!Take, Scheduling!Waited, Scheduling!Install
<1>3. ASSUME NEW e \in Editors, NEW j \in Jobs, NEW def \in Scheduling!Definitions \cup {None}, Scheduling!Save(e, j, def)
      PROVE  UNCHANGED Scheduling!runner
  BY <1>3 DEF Scheduling!Save
<1>4. ASSUME NEW l \in loops, Scheduling!LoopEnds(l) PROVE UNCHANGED Scheduling!runner
  BY <1>4 DEF Scheduling!LoopEnds
<1>5. ASSUME NEW l \in loops, Scheduling!Fire(l) PROVE SchedulerRunsAreSaid'
  <2>1. l.job \in Jobs /\ l.policy \in Policies
    BY DEF Scheduling!TypeOK, Scheduling!Loops
  <2>. QED
    BY <1>5, <2>1, SchedulerStartSaid DEF Scheduling!Fire
<1>6. ASSUME NEW j \in Jobs, Scheduling!RunJob(j) PROVE SchedulerRunsAreSaid'
  <2>1. jobs[j].policy \in Policies
    BY <1>6 DEF Scheduling!TypeOK, Scheduling!Configs, Scheduling!Definitions, Scheduling!RunJob
  <2>. QED
    BY <1>6, <2>1, SchedulerStartSaid DEF Scheduling!RunJob
<1>7. ASSUME NEW x \in running, Scheduling!Finish(x) PROVE SchedulerRunsAreSaid'
  BY <1>7, SchedulerFinishSaid
<1>8. CASE UNCHANGED Scheduling!vars
  BY <1>1, <1>8 DEF Scheduling!vars, Scheduling!runner
<1>. QED
  BY <1>1, <1>2, <1>3, <1>4, <1>5, <1>6, <1>7, <1>8 DEF Scheduling!Next

LEMMA SchedulerRunsSaid == ASSUME Scheduling!ConstantsAssumption PROVE Scheduling!Spec => []SchedulerRunsAreSaid
  BY SchedulerTypeCorrect, SchedulerRunsStart, SchedulerRunsKept, PTL DEF Scheduling!Spec

LEMMA SchedulerSaidApart ==
  ASSUME Scheduling!ConstantsAssumption, Scheduling!TypeOK, SchedulerRunsAreSaid PROVE Scheduling!SkipNeverOverlaps /\ Scheduling!ActiveIsRunning
<1>1. ASSUME NEW x \in running, NEW y \in running, x.job = y.job, x.job \notin allowed PROVE x = y
  <2>1. x.job \in Jobs /\ x \in SchedulerRunsOf(x.job) /\ y \in SchedulerRunsOf(x.job)
    BY <1>1 DEF Scheduling!TypeOK, SchedulerRunsOf
  <2>. QED
    BY <1>1, <2>1 DEF SchedulerRunsAreSaid, SchedulerSaidToRun
<1>2. ASSUME NEW j \in Jobs, j \notin allowed
      PROVE  active[j] # None <=> \E x \in running : x.job = j /\ x.run = active[j]
  <2>1. SchedulerRunsOf(j) = SchedulerSaidToRun(j)
    BY <1>2 DEF SchedulerRunsAreSaid
  <2>2. CASE active[j] = None
    BY <2>1, <2>2 DEF SchedulerSaidToRun, SchedulerRunsOf
  <2>3. CASE active[j] # None
    <3>1. [run |-> active[j], job |-> j] \in running
      BY <2>1, <2>3 DEF SchedulerSaidToRun, SchedulerRunsOf
    <3>. QED
      BY <2>3, <3>1
  <2>. QED
    BY <2>2, <2>3
<1>. QED
  BY <1>1, <1>2 DEF Scheduling!SkipNeverOverlaps, Scheduling!ActiveIsRunning

\* jobs/runner.go Run, finish: whatever requests, loops and runs do, two runs
\* of a job overlap only if one was started with the policy allow, and what is
\* said to be active runs.
THEOREM SchedulerRunsStayApart ==
  ASSUME Scheduling!ConstantsAssumption PROVE Scheduling!Spec => [](Scheduling!SkipNeverOverlaps /\ Scheduling!ActiveIsRunning)
<1>1. Scheduling!TypeOK /\ SchedulerRunsAreSaid => Scheduling!SkipNeverOverlaps /\ Scheduling!ActiveIsRunning
  BY SchedulerSaidApart
<1>. QED
  BY <1>1, SchedulerTypeCorrect, SchedulerRunsSaid, PTL

LEMMA SchedulerAloneStart == ASSUME Scheduling!ConstantsAssumption PROVE Scheduling!Init => SchedulerAloneInv
<1>. SUFFICES ASSUME Scheduling!Init PROVE SchedulerAloneInv
  OBVIOUS
<1>1. \A e \in Editors : editor[e].step = "idle"
  BY DEF Scheduling!Init, Scheduling!NoRequest
<1>2. SchedulerInForce /\ loops = Scheduling!LoopsOf(current, jobs)
  BY DEF Scheduling!Init, SchedulerInForce, Scheduling!ConstantsAssumption
<1>. QED
  BY <1>1, <1>2 DEF SchedulerAloneInv, SchedulerStepsKeptBy

LEMMA SchedulerAloneKept ==
  ASSUME Scheduling!ConstantsAssumption, SchedulerOneEditor PROVE Scheduling!TypeOK /\ SchedulerAloneInv /\ [Scheduling!Next]_(Scheduling!vars) => SchedulerAloneInv'
<1>. SUFFICES ASSUME Scheduling!TypeOK, SchedulerAloneInv, [Scheduling!Next]_(Scheduling!vars) PROVE SchedulerAloneInv'
  OBVIOUS
<1>1. ASSUME UNCHANGED <<jobs, editor, current, cancelled, loops>> PROVE SchedulerAloneInv'
  BY <1>1
     DEF SchedulerAloneInv, SchedulerStepsKeptBy, SchedulerInForce, Scheduling!Reloading,
         Scheduling!LoopsOf
<1>2. ASSUME NEW e \in Editors, \A f \in Editors : SchedulerStepsKeptBy(f)', Scheduling!Reloading' PROVE SchedulerAloneInv'
  BY <1>2 DEF SchedulerAloneInv
<1>3. ASSUME NEW e \in Editors, editor'[e].step # "idle", SchedulerStepsKeptBy(e)' PROVE SchedulerAloneInv'
  <2>1. Scheduling!Reloading'
    BY <1>3 DEF Scheduling!Reloading
  <2>2. \A f \in Editors : SchedulerStepsKeptBy(f)'
    BY <1>3 DEF SchedulerOneEditor
  <2>. QED
    BY <2>1, <2>2 DEF SchedulerAloneInv
<1>4. ASSUME NEW e \in Editors, NEW j \in Jobs, NEW def \in Scheduling!Definitions \cup {None}, Scheduling!Save(e, j, def)
      PROVE  SchedulerAloneInv'
  <2>1. ~Scheduling!Reloading
    BY <1>4 DEF Scheduling!Save, SchedulerOneEditor, Scheduling!Reloading
  <2>2. SchedulerInForce /\ loops = Scheduling!LoopsOf(current, jobs)
    BY <2>1 DEF SchedulerAloneInv
  <2>3. editor'[e].step = "saved"
    BY <1>4 DEF Scheduling!Save, Scheduling!TypeOK, Scheduling!Requests
  <2>4. SchedulerInForce' /\ \A l \in loops' : l.gen = current'
    BY <1>4, <2>2 DEF Scheduling!Save, SchedulerInForce, Scheduling!LoopsOf
  <2>. QED
    BY <1>3, <2>3, <2>4 DEF SchedulerStepsKeptBy
<1>5. ASSUME NEW e \in Editors, Scheduling!Compile(e) PROVE SchedulerAloneInv'
  <2>1. editor'[e].step = "compiled" /\ editor'[e].jobs = jobs'
    BY <1>5 DEF Scheduling!Compile, Scheduling!TypeOK, Scheduling!Requests
  <2>2. SchedulerInForce' /\ \A l \in loops' : l.gen = current'
    BY <1>5 DEF Scheduling!Compile, SchedulerAloneInv, SchedulerStepsKeptBy, SchedulerInForce
  <2>. QED
    BY <1>3, <2>1, <2>2 DEF SchedulerStepsKeptBy
<1>6. ASSUME NEW e \in Editors, Scheduling!Take(e) PROVE SchedulerAloneInv'
  <2>1. SchedulerInForce /\ editor[e].jobs = jobs
    BY <1>6 DEF Scheduling!Take, SchedulerAloneInv, SchedulerStepsKeptBy
  <2>2. editor'[e].step = "waiting" /\ editor'[e].jobs = editor[e].jobs
    BY <1>6, <2>1 DEF Scheduling!Take, Scheduling!TypeOK, Scheduling!Requests, SchedulerInForce
  <2>3. jobs' = jobs
    BY <1>6 DEF Scheduling!Take
  <2>. QED
    BY <1>3, <2>1, <2>2, <2>3 DEF SchedulerStepsKeptBy
<1>7. ASSUME NEW e \in Editors, Scheduling!Waited(e) PROVE SchedulerAloneInv'
  <2>1. editor[e].jobs = jobs
    BY <1>7 DEF Scheduling!Waited, SchedulerAloneInv, SchedulerStepsKeptBy
  <2>2. editor'[e].step = "stopped" /\ editor'[e].jobs = editor[e].jobs
    BY <1>7 DEF Scheduling!Waited, Scheduling!TypeOK, Scheduling!Requests
  <2>3. jobs' = jobs /\ loops' = {}
    BY <1>7 DEF Scheduling!Waited
  <2>. QED
    BY <1>3, <2>1, <2>2, <2>3 DEF SchedulerStepsKeptBy
<1>8. ASSUME NEW e \in Editors, Scheduling!Install(e) PROVE SchedulerAloneInv'
  <2>1. PICK g \in Scheduling!Unused : current' = g /\ cancelled' = cancelled \ {g}
                                       /\ loops' = loops \cup Scheduling!LoopsOf(g, editor[e].jobs)
    BY <1>8 DEF Scheduling!Install
  <2>2. g \in Generations /\ g # None
    BY DEF Scheduling!Unused, Scheduling!ConstantsAssumption
  <2>3. loops = {} /\ editor[e].jobs = jobs /\ jobs' = jobs
    BY <1>8 DEF Scheduling!Install, SchedulerAloneInv, SchedulerStepsKeptBy
  <2>4. SchedulerInForce' /\ loops' = Scheduling!LoopsOf(current', jobs')
    BY <2>1, <2>2, <2>3 DEF SchedulerInForce
  <2>5. \A f \in Editors : editor'[f].step = "idle"
    BY <1>8 DEF Scheduling!Install, SchedulerOneEditor, Scheduling!TypeOK, Scheduling!NoRequest
  <2>. QED
    BY <2>4, <2>5 DEF SchedulerAloneInv, SchedulerStepsKeptBy, Scheduling!LoopsOf
<1>9. ASSUME NEW l \in loops, Scheduling!LoopEnds(l) PROVE SchedulerAloneInv'
  <2>1. ASSUME ~Scheduling!Reloading PROVE FALSE
    <3>1. SchedulerInForce /\ l \in Scheduling!LoopsOf(current, jobs)
      BY <2>1 DEF SchedulerAloneInv
    <3>. QED
      BY <1>9, <3>1 DEF Scheduling!LoopEnds, SchedulerInForce, Scheduling!LoopsOf
  <2>2. Scheduling!Reloading'
    BY <1>9, <2>1 DEF Scheduling!LoopEnds, Scheduling!Reloading
  <2>3. ASSUME NEW f \in Editors PROVE SchedulerStepsKeptBy(f)'
    BY <1>9 DEF Scheduling!LoopEnds, SchedulerAloneInv, SchedulerStepsKeptBy, SchedulerInForce
  <2>. QED
    BY <2>2, <2>3 DEF SchedulerAloneInv
<1>10. ASSUME NEW j \in Jobs, NEW policy, Scheduling!Start(j, policy) PROVE SchedulerAloneInv'
  BY <1>1, <1>10 DEF Scheduling!Start
<1>11. ASSUME NEW l \in loops, Scheduling!Fire(l) PROVE SchedulerAloneInv'
  <2>1. l.job \in Jobs
    BY DEF Scheduling!TypeOK, Scheduling!Loops
  <2>. QED
    BY <1>10, <1>11, <2>1 DEF Scheduling!Fire
<1>12. ASSUME NEW j \in Jobs, Scheduling!RunJob(j) PROVE SchedulerAloneInv'
  BY <1>10, <1>12 DEF Scheduling!RunJob
<1>13. ASSUME NEW x \in running, Scheduling!Finish(x) PROVE SchedulerAloneInv'
  BY <1>1, <1>13 DEF Scheduling!Finish
<1>14. CASE UNCHANGED Scheduling!vars
  BY <1>1, <1>14 DEF Scheduling!vars
<1>. QED
  BY <1>4, <1>5, <1>6, <1>7, <1>8, <1>9, <1>11, <1>12, <1>13, <1>14
     DEF Scheduling!Next, Scheduling!Reload

\* scheduler/scheduler.go Reload: while requests come one at a time, the loops
\* are those of the saved configuration whenever no reload is in progress.
\* With two at a time this fails, as the run JobsConcurrent shows.
THEOREM SchedulerJobsStayApart ==
  ASSUME Scheduling!ConstantsAssumption, SchedulerOneEditor PROVE Scheduling!Spec => []Scheduling!JobsApart
<1>1. SchedulerAloneInv /\ Scheduling!SkipNeverOverlaps /\ Scheduling!ActiveIsRunning => Scheduling!JobsApart
  BY DEF SchedulerAloneInv, Scheduling!JobsApart, Scheduling!LoopsMatchJobs, SchedulerInForce
<1>2. Scheduling!Spec => []SchedulerAloneInv
  BY SchedulerTypeCorrect, SchedulerAloneStart, SchedulerAloneKept, PTL DEF Scheduling!Spec
<1>. QED
  BY <1>1, <1>2, SchedulerRunsStayApart, PTL


-----------------------------------------------------------------------------
(***************************************************************************)
(* Proofs about the process sessions of plugins: what a plugin is told of  *)
(* a session is all of its output in order and then its end.               *)
(***************************************************************************)

\* The operators of the library, as the component has them.
LEMMA ShellIsFiniteSet == \A X : Shells!IsFiniteSet(X) <=> IsFiniteSet(X)
BY DEF Shells!IsFiniteSet, IsFiniteSet
LEMMA ShellCardinality == \A X : Shells!Cardinality(X) = Cardinality(X)
BY DEF Shells!Cardinality, Shells!IsFiniteSet, Cardinality, IsFiniteSet
LEMMA ShellToSet == \A X : Shells!ToSet(X) = ToSet(X)
BY DEF Shells!ToSet, ToSet

ShellStates == {"none", "running", "exited", "forgotten"}
ShellReasons == {"", "exited", "terminated", "timed_out", "io_error"}
ShellWants == {"", "terminated", "timed_out"}
ShellRecords == [state : ShellStates, reason : ShellReasons, wanted : ShellWants]

\* A session without an I/O failure whose process could be signalled.
ShellClean(s) == session[s].reason # "io_error" /\ s \notin unkillable

\* What the plugin was told so far.
ShellOutput(n) == [i \in 1 .. n |-> i]
ShellEmitted(s) == IF reader[s] = "holding" THEN sequence[s] - 1 ELSE sequence[s]

ShellNotStarted(s) ==
  session[s].state = "none" =>
    reader[s] = "off" /\ waiter[s] = "off" /\ sequence[s] = 0 /\ feed[s] = <<>> /\ ending[s] = <<>>

ShellWorks(s) ==
  session[s].state = "running" =>
    /\ reader[s] \in {"reading", "holding", "ended", "done"}
    /\ waiter[s] \in {"waiting", "draining", "closing"}
    /\ waiter[s] # "waiting" => process[s] = "dead"
    /\ ending[s] = <<>> /\ feed[s] = ShellOutput(ShellEmitted(s))

ShellOver(s) ==
  session[s].state \in {"exited", "forgotten"} =>
    /\ reader[s] = "done" /\ waiter[s] = "done" /\ process[s] = "dead"
    /\ ending[s] \in {<<>>, <<Shells!ExitEvent>>}
    /\ feed[s] = ShellOutput(sequence[s]) \/ (ending[s] = <<>> /\ feed[s] = ShellOutput(sequence[s]) \o <<Shells!ExitEvent>>)

ShellOrderly(s) ==
  /\ session[s].state \in {"none", "running"} => session[s].reason = ""
  /\ reader[s] = "holding" => sequence[s] > 0
  /\ ShellClean(s) => ShellNotStarted(s) /\ ShellWorks(s) /\ ShellOver(s)

ShellFeedsOrderly == \A s \in Terminals : ShellOrderly(s)

\* Nothing of the session changes.
ShellStill(s) ==
  /\ session'[s] = session[s] /\ process'[s] = process[s] /\ reader'[s] = reader[s]
  /\ waiter'[s] = waiter[s] /\ sequence'[s] = sequence[s] /\ ending'[s] = ending[s]
  /\ feed'[s] = feed[s] /\ (s \in unkillable <=> s \in unkillable')

LEMMA ShellStillOrderly ==
  ASSUME NEW s \in Terminals, ShellOrderly(s), ShellStill(s) PROVE ShellOrderly(s)'
BY DEF ShellOrderly, ShellStill, ShellClean, ShellNotStarted, ShellWorks, ShellOver, ShellEmitted

\* Only the session s changes.
LEMMA ShellOneOrderly ==
  ASSUME NEW s \in Terminals, ShellFeedsOrderly, ShellOrderly(s)', \A t \in Terminals \ {s} : ShellStill(t)
  PROVE  ShellFeedsOrderly'
<1>1. ASSUME NEW t \in Terminals PROVE ShellOrderly(t)'
  <2>1. CASE t = s
    BY <2>1
  <2>2. CASE t # s
    BY <2>2, ShellStillOrderly DEF ShellFeedsOrderly
  <2>. QED
    BY <2>1, <2>2
<1>. QED
  BY <1>1 DEF ShellFeedsOrderly

\* A session that failed, or whose process could not be signalled.
LEMMA ShellUncleanOrderly ==
  ASSUME NEW s \in Terminals, ~ShellClean(s)',
         session'[s].state \in {"none", "running"} => session'[s].reason = "",
         reader'[s] = "holding" => sequence'[s] > 0
  PROVE  ShellOrderly(s)'
BY DEF ShellOrderly

LEMMA ShellOutputTyped ==
  ASSUME Shells!SessionsAssumption
  PROVE  Shells!ExitEvent \in 1 .. MaxChunks + 2 /\ Shells!ErrorEvent \in 1 .. MaxChunks + 2 /\ Shells!ExitEvent > MaxChunks
BY DEF Shells!ExitEvent, Shells!ErrorEvent, Shells!SessionsAssumption

LEMMA ShellShortSequences ==
  ASSUME NEW A, NEW a \in A, NEW b \in A PROVE <<a>> \in Seq(A) /\ <<a, b>> \in Seq(A)
OBVIOUS

-----------------------------------------------------------------------------
(* What finish, the kill of a failed session and requestStop do. *)

LEMMA ShellFinishTyped ==
  ASSUME Shells!SessionsAssumption, Shells!TypeOK, NEW s \in Terminals, NEW reason \in ShellReasons, Shells!Finish(s, reason)
  PROVE  /\ session' \in [Terminals -> ShellRecords] /\ ending' \in [Terminals -> Seq({Shells!ErrorEvent, Shells!ExitEvent})]
         /\ \A t \in Terminals \ {s} : session'[t] = session[t] /\ ending'[t] = ending[t]
         /\ Shells!Running(s) => /\ session'[s] = [session[s] EXCEPT !.state = "exited", !.reason = reason]
                                 /\ reason # "io_error" => ending'[s] = <<Shells!ExitEvent>>
         /\ ~Shells!Running(s) => session' = session /\ ending' = ending
<1>0. session \in [Terminals -> ShellRecords] /\ ending \in [Terminals -> Seq({Shells!ErrorEvent, Shells!ExitEvent})]
  BY DEF Shells!TypeOK, ShellRecords, ShellStates, ShellReasons, ShellWants
<1>1. CASE Shells!Running(s)
  <2>1. session' = [session EXCEPT ![s] = [@ EXCEPT !.state = "exited", !.reason = reason]]
    BY <1>0, <1>1 DEF Shells!Finish
  <2>2. [session[s] EXCEPT !.state = "exited", !.reason = reason] \in ShellRecords
    BY <1>0 DEF ShellRecords, ShellStates
  <2>3. PICK e \in {<<Shells!ErrorEvent, Shells!ExitEvent>>, <<Shells!ExitEvent>>} :
          ending' = [ending EXCEPT ![s] = e] /\ (reason # "io_error" => e = <<Shells!ExitEvent>>)
    BY <1>1 DEF Shells!Finish
  <2>4. e \in Seq({Shells!ErrorEvent, Shells!ExitEvent})
    BY ShellShortSequences
  <2>. QED
    BY <1>0, <1>1, <2>1, <2>2, <2>3, <2>4
<1>2. CASE ~Shells!Running(s)
  BY <1>0, <1>2 DEF Shells!Finish
<1>. QED
  BY <1>1, <1>2

LEMMA ShellFailTyped ==
  ASSUME Shells!SessionsAssumption, Shells!TypeOK, NEW s \in Terminals, Shells!Fail(s)
  PROVE  /\ session' \in [Terminals -> ShellRecords] /\ ending' \in [Terminals -> Seq({Shells!ErrorEvent, Shells!ExitEvent})]
         /\ process' \in [Terminals -> {"none", "alive", "dead"}]
         /\ ptyClosed' \subseteq Terminals /\ unkillable' \subseteq Terminals /\ unkillable \subseteq unkillable'
         /\ \A t \in Terminals \ {s} : /\ session'[t] = session[t] /\ ending'[t] = ending[t]
                                       /\ process'[t] = process[t] /\ (t \in unkillable <=> t \in unkillable')
         /\ Shells!Running(s) => session'[s].state = "exited" /\ session'[s].reason = "io_error"
         /\ ~Shells!Running(s) => /\ session' = session /\ ending' = ending /\ process' = process
                                  /\ unkillable' = unkillable
<1>1. Shells!Finish(s, "io_error")
  BY DEF Shells!Fail
<1>2. session[s] \in ShellRecords
  BY DEF Shells!TypeOK, ShellRecords, ShellStates, ShellReasons, ShellWants
<1>3. Shells!Running(s) => session'[s].state = "exited" /\ session'[s].reason = "io_error"
  BY <1>1, <1>2, ShellFinishTyped DEF ShellReasons, ShellRecords
<1>4. /\ process' \in [Terminals -> {"none", "alive", "dead"}]
      /\ ptyClosed' \subseteq Terminals /\ unkillable' \subseteq Terminals /\ unkillable \subseteq unkillable'
      /\ \A t \in Terminals \ {s} : process'[t] = process[t] /\ (t \in unkillable <=> t \in unkillable')
      /\ ~Shells!Running(s) => process' = process /\ unkillable' = unkillable
  BY DEF Shells!Fail, Shells!TypeOK
<1>. QED
  BY <1>1, <1>3, <1>4, ShellFinishTyped DEF ShellReasons

LEMMA ShellFailOrderly ==
  ASSUME Shells!SessionsAssumption, Shells!TypeOK, ShellFeedsOrderly, NEW s \in Terminals, Shells!Fail(s),
                UNCHANGED <<waiter, sequence>>,
                \A t \in Terminals \ {s} : reader'[t] = reader[t] /\ feed'[t] = feed[t],
                reader'[s] = "holding" => reader[s] = "holding",
                ~Shells!Running(s) => ShellOrderly(s)'
  PROVE  ShellFeedsOrderly'
<1>1. \A t \in Terminals \ {s} : ShellStill(t)
  BY ShellFailTyped DEF ShellStill
<1>2. ShellOrderly(s)'
  <2>1. CASE Shells!Running(s)
    <3>1. session'[s].state = "exited" /\ session'[s].reason = "io_error"
      BY <2>1, ShellFailTyped
    <3>2. reader'[s] = "holding" => sequence'[s] > 0
      BY DEF ShellFeedsOrderly, ShellOrderly
    <3>3. ~ShellClean(s)'
      BY <3>1 DEF ShellClean
    <3>. QED
      BY <3>1, <3>2, <3>3, ShellUncleanOrderly
  <2>. QED
    BY <2>1
<1>. QED
  BY <1>1, <1>2, ShellOneOrderly

\* The session as a stop leaves it.
ShellStopped(r, reason) == IF r.wanted = "" THEN reason ELSE r.wanted

LEMMA ShellStopActs ==
  ASSUME Shells!SessionsAssumption, Shells!TypeOK, NEW S \in SUBSET Terminals, NEW reason \in {"terminated", "timed_out"},
                Shells!Stop(S, reason)
  PROVE  /\ unkillable' \subseteq Terminals /\ unkillable \subseteq unkillable'
         /\ process' \in [Terminals -> {"none", "alive", "dead"}]
         /\ session' \in [Terminals -> ShellRecords]
         /\ ending' \in [Terminals -> Seq({Shells!ErrorEvent, Shells!ExitEvent})]
         /\ \A t \in Terminals :
              \/ t \in unkillable' /\ Shells!Running(t) /\ session'[t].state = "exited"
              \/ /\ Shells!Running(t) /\ process'[t] = "dead" /\ ending'[t] = ending[t]
                 /\ session'[t].state = "running" /\ session'[t].reason = session[t].reason
                 /\ (t \in unkillable <=> t \in unkillable')
              \/ /\ session'[t] = session[t] /\ process'[t] = process[t] /\ ending'[t] = ending[t]
                 /\ (t \in unkillable <=> t \in unkillable')
<1>. DEFINE R == S \cap Shells!RunningSet
<1>1. PICK U \in SUBSET {s \in R : process[s] = "alive"} :
        /\ unkillable' = unkillable \cup U
        /\ process' = [s \in Terminals |-> IF s \in R \ U THEN "dead" ELSE process[s]]
        /\ session' = [s \in Terminals |->
             IF s \in U THEN [state |-> "exited", reason |-> reason, wanted |-> ShellStopped(session[s], reason)]
             ELSE IF s \in R THEN [session[s] EXCEPT !.wanted = ShellStopped(session[s], reason)] ELSE session[s]]
        /\ ending' = [s \in Terminals |-> IF s \in U THEN <<Shells!ExitEvent>> ELSE ending[s]]
  BY DEF Shells!Stop, ShellStopped
<1>2. \A s \in R : s \in Terminals /\ Shells!Running(s)
  BY DEF Shells!RunningSet
<1>3. \A s \in Terminals : session[s] \in ShellRecords /\ ShellStopped(session[s], reason) \in ShellWants
  BY DEF Shells!TypeOK, ShellRecords, ShellStates, ShellReasons, ShellWants, ShellStopped
<1>. HIDE DEF R
<1>4. \A s \in Terminals : session'[s] \in ShellRecords
  <2>. TAKE s \in Terminals
  <2>1. [state |-> "exited", reason |-> reason, wanted |-> ShellStopped(session[s], reason)] \in ShellRecords
    BY <1>3 DEF ShellRecords, ShellStates, ShellReasons
  <2>2. [session[s] EXCEPT !.wanted = ShellStopped(session[s], reason)] \in ShellRecords
    BY <1>3 DEF ShellRecords
  <2>. QED
    BY <1>1, <1>3, <2>1, <2>2
<1>5. session' \in [Terminals -> ShellRecords]
  BY <1>1, <1>4
<1>6. ending' \in [Terminals -> Seq({Shells!ErrorEvent, Shells!ExitEvent})]
  <2>1. <<Shells!ExitEvent>> \in Seq({Shells!ErrorEvent, Shells!ExitEvent})
    BY ShellShortSequences
  <2>. QED
    BY <1>1, <2>1 DEF Shells!TypeOK
<1>7. process' \in [Terminals -> {"none", "alive", "dead"}] /\ unkillable' \subseteq Terminals
  BY <1>1, <1>2 DEF Shells!TypeOK
<1>8. ASSUME NEW t \in Terminals PROVE
              \/ t \in unkillable' /\ Shells!Running(t) /\ session'[t].state = "exited"
              \/ /\ Shells!Running(t) /\ process'[t] = "dead" /\ ending'[t] = ending[t]
                 /\ session'[t].state = "running" /\ session'[t].reason = session[t].reason
                 /\ (t \in unkillable <=> t \in unkillable')
              \/ /\ session'[t] = session[t] /\ process'[t] = process[t] /\ ending'[t] = ending[t]
                 /\ (t \in unkillable <=> t \in unkillable')
  <2>1. CASE t \in U
    BY <1>1, <1>2, <2>1
  <2>2. CASE t \in R \ U
    <3>1. session'[t] = [session[t] EXCEPT !.wanted = ShellStopped(session[t], reason)]
      BY <1>1, <2>2
    <3>2. session'[t].state = session[t].state /\ session'[t].reason = session[t].reason
      BY <1>3, <3>1 DEF ShellRecords
    <3>. QED
      BY <1>1, <1>2, <2>2, <3>2 DEF Shells!Running
  <2>3. CASE t \notin R
    BY <1>1, <2>3
  <2>. QED
    BY <2>1, <2>2, <2>3
<1>. QED
  BY <1>1, <1>5, <1>6, <1>7, <1>8

LEMMA ShellStopOrderly ==
  ASSUME Shells!SessionsAssumption, Shells!TypeOK, ShellFeedsOrderly, NEW S \in SUBSET Terminals,
                NEW reason \in {"terminated", "timed_out"}, Shells!Stop(S, reason),
                UNCHANGED <<reader, waiter, sequence, feed>>
  PROVE  ShellFeedsOrderly'
<1>1. ASSUME NEW t \in Terminals PROVE ShellOrderly(t)'
  <2>0. ShellOrderly(t)
    BY DEF ShellFeedsOrderly
  <2>1. CASE t \in unkillable' /\ Shells!Running(t) /\ session'[t].state = "exited"
    BY <2>0, <2>1, ShellUncleanOrderly DEF ShellClean, ShellOrderly
  <2>2. CASE /\ Shells!Running(t) /\ process'[t] = "dead" /\ ending'[t] = ending[t]
             /\ session'[t].state = "running" /\ session'[t].reason = session[t].reason
             /\ (t \in unkillable <=> t \in unkillable')
    BY <2>0, <2>2
       DEF ShellOrderly, ShellClean, ShellNotStarted, ShellWorks, ShellOver, ShellEmitted,
           Shells!Running
  <2>3. CASE /\ session'[t] = session[t] /\ process'[t] = process[t] /\ ending'[t] = ending[t]
             /\ (t \in unkillable <=> t \in unkillable')
    BY <2>0, <2>3, ShellStillOrderly DEF ShellStill
  <2>. QED
    BY <2>1, <2>2, <2>3, ShellStopActs
<1>. QED
  BY <1>1 DEF ShellFeedsOrderly

-----------------------------------------------------------------------------
(* The types. *)

ShellTypes ==
  /\ session \in [Terminals -> ShellRecords]
  /\ process \in [Terminals -> {"none", "alive", "dead"}]
  /\ reader \in [Terminals -> {"off", "reading", "holding", "ended", "failed", "done"}]
  /\ waiter \in [Terminals -> {"off", "waiting", "draining", "closing", "done"}]
  /\ sequence \in [Terminals -> 0 .. MaxChunks]
  /\ ending \in [Terminals -> Seq({Shells!ErrorEvent, Shells!ExitEvent})]
  /\ feed \in [Terminals -> Seq(1 .. MaxChunks + 2)]
  /\ ptyClosed \subseteq Terminals /\ grace \subseteq Terminals /\ unkillable \subseteq Terminals
  /\ closed \in BOOLEAN

LEMMA ShellTypesAre == Shells!TypeOK <=> ShellTypes
BY DEF Shells!TypeOK, ShellTypes, ShellRecords, ShellStates, ShellReasons, ShellWants

LEMMA ShellTypesThen == ShellTypes' => Shells!TypeOK'
BY DEF Shells!TypeOK, ShellTypes, ShellRecords, ShellStates, ShellReasons, ShellWants

LEMMA ShellFeedTyped ==
  ASSUME Shells!SessionsAssumption, ShellTypes, NEW s \in Terminals, NEW e \in 1 .. MaxChunks + 2,
                feed' = [feed EXCEPT ![s] = Append(@, e)]
  PROVE  feed' \in [Terminals -> Seq(1 .. MaxChunks + 2)]
<1>1. feed[s] \in Seq(1 .. MaxChunks + 2)
  BY DEF ShellTypes
<1>2. Append(feed[s], e) \in Seq(1 .. MaxChunks + 2)
  BY <1>1
<1>. QED
  BY <1>2 DEF ShellTypes

LEMMA ShellTypesStart == ASSUME Shells!SessionsAssumption PROVE Shells!Init => Shells!TypeOK
<1>1. \A A : <<>> \in Seq(A)
  OBVIOUS
<1>2. Shells!Init => ShellTypes
  <2>. SUFFICES ASSUME Shells!Init PROVE ShellTypes
    OBVIOUS
  <2>1. session \in [Terminals -> ShellRecords]
    BY DEF Shells!Init, ShellRecords, ShellStates, ShellReasons, ShellWants
  <2>2. ending \in [Terminals -> Seq({Shells!ErrorEvent, Shells!ExitEvent})] /\ feed \in [Terminals -> Seq(1 .. MaxChunks + 2)]
    BY <1>1 DEF Shells!Init
  <2>3. sequence \in [Terminals -> 0 .. MaxChunks]
    <3>1. sequence = [s \in Terminals |-> 0]
      BY DEF Shells!Init
    <3>2. 0 \in 0 .. MaxChunks
      BY DEF Shells!SessionsAssumption
    <3>. QED
      BY <3>1, <3>2
  <2>. QED
    BY <2>1, <2>2, <2>3 DEF Shells!Init, ShellTypes
<1>. QED
  BY <1>2, ShellTypesAre

\* Steps by which a session starts, stops or fails.
LEMMA ShellSessionSteps ==
  ASSUME Shells!SessionsAssumption, Shells!TypeOK, ShellFeedsOrderly, NEW s \in Terminals,
                \/ Shells!Create(s) \/ Shells!ProcessEnds(s) \/ Shells!TerminateGently(s) \/ Shells!TerminateForced(s)
                \/ Shells!GraceExpires(s) \/ Shells!LifetimeEnds(s) \/ Shells!InputFails(s) \/ Shells!DeliveryFails(s)
  PROVE  Shells!TypeOK' /\ ShellFeedsOrderly'
<1>0. ShellTypes /\ ShellOrderly(s)
  BY ShellTypesAre DEF ShellFeedsOrderly
<1>1. CASE Shells!Create(s)
  <2>1. session' = [session EXCEPT ![s] = [@ EXCEPT !.state = "running"]] /\ session[s].state = "none"
    BY <1>1, ShellCardinality DEF Shells!Create
  <2>2. session'[s] \in ShellRecords /\ session'[s].state = "running" /\ session'[s].reason = session[s].reason
    BY <1>0, <2>1 DEF ShellTypes, ShellRecords, ShellStates
  <2>3. session' \in [Terminals -> ShellRecords]
    BY <1>0, <2>1, <2>2 DEF ShellTypes
  <2>4. ShellTypes'
    BY <1>0, <1>1, <2>3, ShellCardinality DEF ShellTypes, Shells!Create
  <2>5. \A t \in Terminals \ {s} : ShellStill(t)
    BY <1>0, <1>1, <2>1, ShellCardinality DEF Shells!Create, ShellTypes, ShellStill
  <2>6. <<>> = ShellOutput(0)
    BY DEF ShellOutput
  <2>7. ShellOrderly(s)'
    BY <1>0, <1>1, <2>1, <2>2, <2>6, ShellCardinality
       DEF Shells!Create, ShellTypes, ShellOrderly, ShellClean, ShellNotStarted, ShellWorks, ShellOver,
           ShellEmitted
  <2>. QED
    BY <2>4, <2>5, <2>7, ShellTypesThen, ShellOneOrderly
<1>2. CASE Shells!ProcessEnds(s)
  <2>1. ShellTypes'
    BY <1>0, <1>2 DEF ShellTypes, Shells!ProcessEnds, Shells!goroutines
  <2>2. \A t \in Terminals \ {s} : ShellStill(t)
    BY <1>0, <1>2 DEF Shells!ProcessEnds, ShellTypes, ShellStill, Shells!goroutines
  <2>3. ShellOrderly(s)'
    BY <1>0, <1>2
       DEF Shells!ProcessEnds, Shells!goroutines, ShellTypes, ShellOrderly, ShellClean, ShellNotStarted,
           ShellWorks, ShellOver, ShellEmitted
  <2>. QED
    BY <2>1, <2>2, <2>3, ShellTypesThen, ShellOneOrderly
<1>3. CASE Shells!TerminateGently(s)
  <2>1. PICK w \in ShellWants : session' = [session EXCEPT ![s] = [@ EXCEPT !.wanted = w]]
    <3>1. session[s].wanted \in ShellWants
      BY <1>0 DEF ShellTypes, ShellRecords
    <3>. QED
      BY <1>3, <3>1 DEF Shells!TerminateGently, ShellWants
  <2>2. session'[s] \in ShellRecords /\ session'[s].state = session[s].state /\ session'[s].reason = session[s].reason
    BY <1>0, <2>1 DEF ShellTypes, ShellRecords
  <2>3. session' \in [Terminals -> ShellRecords]
    BY <1>0, <2>1, <2>2 DEF ShellTypes
  <2>4. ShellTypes'
    BY <1>0, <1>3, <2>3 DEF ShellTypes, Shells!TerminateGently, Shells!goroutines
  <2>5. \A t \in Terminals \ {s} : ShellStill(t)
    BY <1>0, <1>3, <2>1 DEF Shells!TerminateGently, ShellTypes, ShellStill, Shells!goroutines
  <2>6. ShellOrderly(s)'
    BY <1>0, <1>3, <2>2
       DEF Shells!TerminateGently, Shells!goroutines, ShellOrderly, ShellClean, ShellNotStarted,
           ShellWorks, ShellOver, ShellEmitted
  <2>. QED
    BY <2>4, <2>5, <2>6, ShellTypesThen, ShellOneOrderly
<1>4. CASE Shells!TerminateForced(s)
  <2>1. Shells!Stop({s}, "terminated") /\ UNCHANGED <<ptyClosed, Shells!goroutines, grace, closed>>
    BY <1>4 DEF Shells!TerminateForced
  <2>2. ShellFeedsOrderly'
    BY <2>1, ShellStopOrderly DEF Shells!goroutines
  <2>. QED
    BY <1>0, <2>1, <2>2, ShellStopActs, ShellTypesThen DEF ShellTypes, Shells!goroutines
<1>5. CASE Shells!GraceExpires(s)
  <2>1. Shells!Stop({s}, "terminated") /\ UNCHANGED <<ptyClosed, Shells!goroutines, closed>> /\ grace' = grace \ {s}
    BY <1>5 DEF Shells!GraceExpires
  <2>2. ShellFeedsOrderly'
    BY <2>1, ShellStopOrderly DEF Shells!goroutines
  <2>. QED
    BY <1>0, <2>1, <2>2, ShellStopActs, ShellTypesThen DEF ShellTypes, Shells!goroutines
<1>6. CASE Shells!LifetimeEnds(s)
  <2>1. Shells!Stop({s}, "timed_out") /\ UNCHANGED <<ptyClosed, Shells!goroutines, grace, closed>>
    BY <1>6 DEF Shells!LifetimeEnds
  <2>2. ShellFeedsOrderly'
    BY <2>1, ShellStopOrderly DEF Shells!goroutines
  <2>. QED
    BY <1>0, <2>1, <2>2, ShellStopActs, ShellTypesThen DEF ShellTypes, Shells!goroutines
<1>7. ASSUME Shells!Fail(s), UNCHANGED <<Shells!goroutines, grace, closed>> PROVE Shells!TypeOK' /\ ShellFeedsOrderly'
  <2>1. ShellTypes'
    BY <1>0, <1>7, ShellFailTyped DEF ShellTypes, Shells!goroutines
  <2>2. ASSUME ~Shells!Running(s) PROVE ShellOrderly(s)'
    BY <1>0, <1>7, <2>2, ShellFailTyped, ShellStillOrderly DEF ShellStill, Shells!goroutines
  <2>3. ShellFeedsOrderly'
    BY <1>7, <2>2, ShellFailOrderly DEF Shells!goroutines
  <2>. QED
    BY <2>1, <2>3, ShellTypesThen
<1>8. CASE Shells!InputFails(s)
  BY <1>7, <1>8 DEF Shells!InputFails
<1>9. CASE Shells!DeliveryFails(s)
  BY <1>7, <1>9 DEF Shells!DeliveryFails
<1>. QED
  BY <1>1, <1>2, <1>3, <1>4, <1>5, <1>6, <1>8, <1>9

\* Steps of the reader and of what is told to the plugin.
LEMMA ShellReaderSteps ==
  ASSUME Shells!SessionsAssumption, Shells!TypeOK, ShellFeedsOrderly, NEW s \in Terminals,
                \/ Shells!EmitEnd(s) \/ Shells!Expire(s) \/ Shells!Read(s) \/ Shells!EmitOutput(s) \/ Shells!ReadEnds(s)
                \/ Shells!ReaderDone(s) \/ Shells!ReaderGivesUp(s)
  PROVE  Shells!TypeOK' /\ ShellFeedsOrderly'
<1>0. ShellTypes /\ ShellOrderly(s)
  BY ShellTypesAre DEF ShellFeedsOrderly
<1>1. CASE Shells!EmitEnd(s)
  <2>1. ending[s] \in Seq({Shells!ErrorEvent, Shells!ExitEvent}) /\ ending[s] # <<>>
    BY <1>0, <1>1 DEF ShellTypes, Shells!EmitEnd
  <2>2. Head(ending[s]) \in {Shells!ErrorEvent, Shells!ExitEvent} /\ Tail(ending[s]) \in Seq({Shells!ErrorEvent, Shells!ExitEvent})
    BY <2>1
  <2>3. ending' = [ending EXCEPT ![s] = Tail(ending[s])]
    BY <1>1 DEF Shells!EmitEnd
  <2>4. feed' \in [Terminals -> Seq(1 .. MaxChunks + 2)]
    <3>1. Head(ending[s]) \in 1 .. MaxChunks + 2
      BY <2>2, ShellOutputTyped
    <3>. QED
      BY <1>0, <1>1, <3>1, ShellFeedTyped DEF Shells!EmitEnd, ShellTypes
  <2>5. ShellTypes'
    BY <1>0, <1>1, <2>2, <2>3, <2>4 DEF ShellTypes, Shells!EmitEnd
  <2>6. \A t \in Terminals \ {s} : ShellStill(t)
    BY <1>0, <1>1, <2>3 DEF Shells!EmitEnd, ShellTypes, ShellStill
  <2>7. ShellOrderly(s)'
    <3>1. CASE ShellClean(s)
      <4>1. session[s].state \in {"exited", "forgotten"}
        BY <1>0, <2>1, <3>1
           DEF ShellOrderly, ShellNotStarted, ShellWorks, ShellTypes, ShellRecords, ShellStates
      <4>2. ending[s] = <<Shells!ExitEvent>> /\ feed[s] = ShellOutput(sequence[s])
        BY <1>0, <2>1, <3>1, <4>1 DEF ShellOrderly, ShellOver
      <4>3. Head(ending[s]) = Shells!ExitEvent /\ Tail(ending[s]) = <<>>
        BY <4>2
      <4>4. Append(feed[s], Shells!ExitEvent) = feed[s] \o <<Shells!ExitEvent>>
        <5>1. feed[s] \in Seq(1 .. MaxChunks + 2) /\ Shells!ExitEvent \in 1 .. MaxChunks + 2
          BY <1>0, ShellOutputTyped DEF ShellTypes
        <5>. QED
          BY <5>1, AppendProperties, ConcatProperties
      <4>5. feed'[s] \in {feed[s], feed[s] \o <<Shells!ExitEvent>>} /\ ending'[s] = <<>>
        BY <1>0, <1>1, <2>3, <4>3, <4>4 DEF Shells!EmitEnd, ShellTypes
      <4>. QED
        BY <1>0, <1>1, <3>1, <4>1, <4>2, <4>5
           DEF Shells!EmitEnd, ShellOrderly, ShellClean, ShellNotStarted, ShellWorks, ShellOver
    <3>2. CASE ~ShellClean(s)
      <4>1. ~ShellClean(s)'
        BY <1>1, <3>2 DEF ShellClean, Shells!EmitEnd
      <4>. QED
        BY <1>0, <1>1, <4>1 DEF Shells!EmitEnd, ShellOrderly
    <3>. QED
      BY <3>1, <3>2
  <2>. QED
    BY <2>5, <2>6, <2>7, ShellTypesThen, ShellOneOrderly
<1>2. CASE Shells!Expire(s)
  <2>1. session' = [session EXCEPT ![s] = [@ EXCEPT !.state = "forgotten"]] /\ session[s].state = "exited"
    BY <1>2 DEF Shells!Expire
  <2>2. session'[s] \in ShellRecords /\ session'[s].state = "forgotten" /\ session'[s].reason = session[s].reason
    BY <1>0, <2>1 DEF ShellTypes, ShellRecords, ShellStates
  <2>3. session' \in [Terminals -> ShellRecords]
    BY <1>0, <2>1, <2>2 DEF ShellTypes
  <2>4. ShellTypes'
    BY <1>0, <1>2, <2>3 DEF ShellTypes, Shells!Expire, Shells!goroutines
  <2>5. \A t \in Terminals \ {s} : ShellStill(t)
    BY <1>0, <1>2, <2>1 DEF Shells!Expire, ShellTypes, ShellStill, Shells!goroutines
  <2>6. ShellOrderly(s)'
    BY <1>0, <1>2, <2>1, <2>2
       DEF Shells!Expire, Shells!goroutines, ShellOrderly, ShellClean, ShellNotStarted, ShellWorks,
           ShellOver
  <2>. QED
    BY <2>4, <2>5, <2>6, ShellTypesThen, ShellOneOrderly
<1>3. CASE Shells!Read(s)
  <2>1. sequence'[s] = sequence[s] + 1 /\ sequence' \in [Terminals -> 0 .. MaxChunks]
    BY <1>0, <1>3 DEF ShellTypes, Shells!Read, Shells!SessionsAssumption
  <2>2. ShellTypes'
    BY <1>0, <1>3, <2>1 DEF ShellTypes, Shells!Read
  <2>3. \A t \in Terminals \ {s} : ShellStill(t)
    BY <1>0, <1>3 DEF Shells!Read, ShellTypes, ShellStill
  <2>4. reader[s] = "reading" /\ reader'[s] = "holding" /\ sequence[s] \in Nat
    BY <1>0, <1>3 DEF Shells!Read, ShellTypes, Shells!SessionsAssumption
  <2>5. ShellEmitted(s)' = ShellEmitted(s) /\ sequence'[s] > 0
    BY <2>1, <2>4 DEF ShellEmitted
  <2>6. ShellOrderly(s)'
    <3>. HIDE DEF ShellEmitted
    <3>. QED
      BY <1>0, <1>3, <2>4, <2>5
         DEF Shells!Read, ShellOrderly, ShellClean, ShellNotStarted, ShellWorks, ShellOver
  <2>. QED
    BY <2>2, <2>3, <2>6, ShellTypesThen, ShellOneOrderly
<1>4. CASE Shells!EmitOutput(s)
  <2>0. sequence[s] \in 0 .. MaxChunks /\ reader[s] = "holding" /\ waiter' = waiter /\ sequence' = sequence
    BY <1>0, <1>4 DEF Shells!EmitOutput, ShellTypes
  <2>1. sequence[s] \in 1 .. MaxChunks /\ reader[s] = "holding" /\ waiter' = waiter /\ sequence' = sequence
    <3>1. sequence[s] > 0
      BY <1>0, <2>0 DEF ShellOrderly
    <3>2. sequence[s] \in 1 .. MaxChunks
      BY <2>0, <3>1 DEF Shells!SessionsAssumption
    <3>. QED
      BY <2>0, <3>2
  <2>2. CASE /\ feed' = [feed EXCEPT ![s] = Append(@, sequence[s])]
             /\ reader' = [reader EXCEPT ![s] = "reading"]
             /\ UNCHANGED <<session, process, ptyClosed, ending, unkillable>>
    <3>1. sequence[s] \in 1 .. MaxChunks + 2
      BY <2>1 DEF Shells!SessionsAssumption
    <3>2. feed' \in [Terminals -> Seq(1 .. MaxChunks + 2)]
      BY <1>0, <2>2, <3>1, ShellFeedTyped
    <3>3. ShellTypes'
      BY <1>0, <1>4, <2>2, <3>2 DEF ShellTypes, Shells!EmitOutput
    <3>4. \A t \in Terminals \ {s} : ShellStill(t)
      BY <1>0, <1>4, <2>2 DEF Shells!EmitOutput, ShellTypes, ShellStill
    <3>5. Append(ShellOutput(sequence[s] - 1), sequence[s]) = ShellOutput(sequence[s])
      BY <2>1 DEF ShellOutput, Shells!SessionsAssumption
    <3>6. feed'[s] = Append(feed[s], sequence[s]) /\ reader'[s] = "reading"
      BY <1>0, <2>2 DEF ShellTypes
    <3>7. ShellOrderly(s)'
      BY <1>0, <2>1, <2>2, <3>5, <3>6
         DEF ShellOrderly, ShellClean, ShellNotStarted, ShellWorks, ShellOver, ShellEmitted
    <3>. QED
      BY <3>3, <3>4, <3>7, ShellTypesThen, ShellOneOrderly
  <2>3. CASE Shells!Fail(s) /\ reader' = [reader EXCEPT ![s] = "failed"] /\ UNCHANGED feed
    <3>1. ShellTypes'
      BY <1>0, <1>4, <2>3, ShellFailTyped DEF ShellTypes, Shells!EmitOutput
    <3>2. ASSUME ~Shells!Running(s) PROVE ShellOrderly(s)'
      <4>1. ~ShellClean(s)
        BY <1>0, <2>1, <3>2
           DEF ShellOrderly, ShellNotStarted, ShellOver, Shells!Running, ShellTypes, ShellRecords,
               ShellStates
      <4>2. session' = session /\ unkillable' = unkillable /\ reader'[s] = "failed"
        BY <1>0, <2>3, <3>2, ShellFailTyped DEF ShellTypes
      <4>. QED
        BY <1>0, <4>1, <4>2 DEF ShellOrderly, ShellClean
    <3>3. ShellFeedsOrderly'
      BY <1>0, <2>1, <2>3, <3>2, ShellFailOrderly DEF ShellTypes
    <3>. QED
      BY <3>1, <3>3, ShellTypesThen
  <2>. QED
    BY <1>4, <2>2, <2>3 DEF Shells!EmitOutput
<1>5. CASE Shells!ReadEnds(s)
  <2>1. ShellTypes'
    BY <1>0, <1>5 DEF ShellTypes, Shells!ReadEnds
  <2>2. \A t \in Terminals \ {s} : ShellStill(t)
    BY <1>0, <1>5 DEF Shells!ReadEnds, ShellTypes, ShellStill
  <2>3. ShellOrderly(s)'
    BY <1>0, <1>5
       DEF Shells!ReadEnds, ShellTypes, ShellOrderly, ShellClean, ShellNotStarted, ShellWorks,
           ShellOver, ShellEmitted
  <2>. QED
    BY <2>1, <2>2, <2>3, ShellTypesThen, ShellOneOrderly
<1>6. CASE Shells!ReaderDone(s)
  <2>1. ShellTypes'
    BY <1>0, <1>6 DEF ShellTypes, Shells!ReaderDone
  <2>2. \A t \in Terminals \ {s} : ShellStill(t)
    BY <1>0, <1>6 DEF Shells!ReaderDone, ShellTypes, ShellStill
  <2>3. ShellOrderly(s)'
    BY <1>0, <1>6
       DEF Shells!ReaderDone, ShellTypes, ShellOrderly, ShellClean, ShellNotStarted, ShellWorks,
           ShellOver, ShellEmitted
  <2>. QED
    BY <2>1, <2>2, <2>3, ShellTypesThen, ShellOneOrderly
<1>7. CASE Shells!ReaderGivesUp(s)
  <2>0. Shells!Fail(s) /\ reader[s] = "ended" /\ reader' = [reader EXCEPT ![s] = "failed"]
               /\ UNCHANGED <<waiter, sequence, feed, grace, closed>>
    BY <1>7 DEF Shells!ReaderGivesUp
  <2>1. ShellTypes'
    BY <1>0, <2>0, ShellFailTyped DEF ShellTypes
  <2>2. ASSUME ~Shells!Running(s) PROVE ShellOrderly(s)'
    <3>1. ~ShellClean(s)
      BY <1>0, <2>0, <2>2
         DEF ShellOrderly, ShellNotStarted, ShellOver, Shells!Running, ShellTypes, ShellRecords,
             ShellStates
    <3>2. session' = session /\ unkillable' = unkillable /\ reader'[s] = "failed"
      BY <1>0, <2>0, <2>2, ShellFailTyped DEF ShellTypes
    <3>. QED
      BY <1>0, <3>1, <3>2 DEF ShellOrderly, ShellClean
  <2>3. ShellFeedsOrderly'
    BY <1>0, <2>0, <2>2, ShellFailOrderly DEF ShellTypes
  <2>. QED
    BY <2>1, <2>3, ShellTypesThen
<1>. QED
  BY <1>1, <1>2, <1>3, <1>4, <1>5, <1>6, <1>7

\* Steps of the goroutine that waits for the process.
LEMMA ShellWaiterSteps ==
  ASSUME Shells!SessionsAssumption, Shells!TypeOK, ShellFeedsOrderly, NEW s \in Terminals,
                Shells!Reap(s) \/ Shells!CloseTerminal(s) \/ Shells!ReportEnd(s)
  PROVE  Shells!TypeOK' /\ ShellFeedsOrderly'
<1>0. ShellTypes /\ ShellOrderly(s)
  BY ShellTypesAre DEF ShellFeedsOrderly
<1>1. CASE Shells!Reap(s)
  <2>1. ShellTypes'
    BY <1>0, <1>1 DEF ShellTypes, Shells!Reap
  <2>2. \A t \in Terminals \ {s} : ShellStill(t)
    BY <1>0, <1>1 DEF Shells!Reap, ShellTypes, ShellStill
  <2>3. ShellOrderly(s)'
    BY <1>0, <1>1
       DEF Shells!Reap, ShellTypes, ShellOrderly, ShellClean, ShellNotStarted, ShellWorks, ShellOver,
           ShellEmitted
  <2>. QED
    BY <2>1, <2>2, <2>3, ShellTypesThen, ShellOneOrderly
<1>2. CASE Shells!CloseTerminal(s)
  <2>1. ShellTypes'
    BY <1>0, <1>2 DEF ShellTypes, Shells!CloseTerminal
  <2>2. \A t \in Terminals \ {s} : ShellStill(t)
    BY <1>0, <1>2 DEF Shells!CloseTerminal, ShellTypes, ShellStill
  <2>3. ShellOrderly(s)'
    BY <1>0, <1>2
       DEF Shells!CloseTerminal, ShellTypes, ShellOrderly, ShellClean, ShellNotStarted, ShellWorks,
           ShellOver, ShellEmitted
  <2>. QED
    BY <2>1, <2>2, <2>3, ShellTypesThen, ShellOneOrderly
<1>3. CASE Shells!ReportEnd(s)
  <2>1. PICK reason \in {"exited", "terminated", "timed_out"} : Shells!Finish(s, reason)
    <3>1. session[s].wanted \in ShellWants
      BY <1>0 DEF ShellTypes, ShellRecords
    <3>. QED
      BY <1>3, <3>1 DEF Shells!ReportEnd, ShellWants
  <2>2. reason \in ShellReasons /\ reason # "io_error"
    BY DEF ShellReasons
  <2>3. ShellTypes'
    BY <1>0, <1>3, <2>1, <2>2, ShellFinishTyped DEF ShellTypes, Shells!ReportEnd
  <2>4. \A t \in Terminals \ {s} : ShellStill(t)
    BY <1>0, <1>3, <2>1, <2>2, ShellFinishTyped DEF Shells!ReportEnd, ShellTypes, ShellStill
  <2>5. waiter[s] = "closing" /\ reader[s] = "done" /\ waiter'[s] = "done" /\ reader'[s] = "done"
        /\ UNCHANGED <<process, sequence, feed, unkillable>>
    BY <1>0, <1>3 DEF Shells!ReportEnd, ShellTypes
  <2>6. ShellOrderly(s)'
    <3>1. CASE Shells!Running(s)
      <4>1. session'[s] = [session[s] EXCEPT !.state = "exited", !.reason = reason] /\ ending'[s] = <<Shells!ExitEvent>>
        BY <2>1, <2>2, <3>1, ShellFinishTyped
      <4>2. session'[s].state = "exited" /\ session'[s].reason = reason
        BY <1>0, <4>1 DEF ShellTypes, ShellRecords
      <4>3. session[s].reason = ""
        BY <1>0, <3>1 DEF ShellOrderly, Shells!Running
      <4>. QED
        BY <1>0, <2>2, <2>5, <3>1, <4>1, <4>2, <4>3
           DEF ShellOrderly, ShellClean, ShellNotStarted, ShellWorks, ShellOver, ShellEmitted,
               Shells!Running
    <3>2. CASE ~Shells!Running(s)
      <4>1. session' = session /\ ending' = ending
        BY <2>1, <2>2, <3>2, ShellFinishTyped
      <4>2. ~ShellClean(s)
        BY <1>0, <2>5, <3>2
           DEF ShellOrderly, ShellNotStarted, ShellOver, Shells!Running, ShellTypes, ShellRecords,
               ShellStates
      <4>. QED
        BY <1>0, <2>5, <4>1, <4>2 DEF ShellOrderly, ShellClean
    <3>. QED
      BY <3>1, <3>2
  <2>. QED
    BY <2>3, <2>4, <2>6, ShellTypesThen, ShellOneOrderly
<1>. QED
  BY <1>1, <1>2, <1>3

LEMMA ShellSessionsStart == ASSUME Shells!SessionsAssumption PROVE Shells!Init => Shells!TypeOK /\ ShellFeedsOrderly
<1>1. Shells!Init => ShellFeedsOrderly
  <2>. SUFFICES ASSUME Shells!Init, NEW s \in Terminals PROVE ShellOrderly(s)
    BY DEF ShellFeedsOrderly
  <2>1. session[s].state = "none" /\ session[s].reason = "" /\ reader[s] = "off" /\ waiter[s] = "off"
        /\ sequence[s] = 0 /\ feed[s] = <<>> /\ ending[s] = <<>>
    BY DEF Shells!Init
  <2>. QED
    BY <2>1 DEF ShellOrderly, ShellNotStarted, ShellWorks, ShellOver
<1>. QED
  BY <1>1, ShellTypesStart

LEMMA ShellSessionsKept ==
  ASSUME Shells!SessionsAssumption
  PROVE  Shells!TypeOK /\ ShellFeedsOrderly /\ [Shells!Next]_(Shells!sessionVars) => Shells!TypeOK' /\ ShellFeedsOrderly'
<1>. SUFFICES ASSUME Shells!TypeOK, ShellFeedsOrderly, [Shells!Next]_(Shells!sessionVars) PROVE Shells!TypeOK' /\ ShellFeedsOrderly'
  OBVIOUS
<1>0. ShellTypes
  BY ShellTypesAre
<1>1. CASE Shells!StopOwner
  <2>1. Shells!Stop(Shells!RunningSet, "terminated") /\ UNCHANGED <<ptyClosed, Shells!goroutines, grace, closed>>
    BY <1>1 DEF Shells!StopOwner
  <2>2. Shells!RunningSet \in SUBSET Terminals
    BY DEF Shells!RunningSet
  <2>3. ShellFeedsOrderly'
    BY <2>1, <2>2, ShellStopOrderly DEF Shells!goroutines
  <2>. QED
    BY <1>0, <2>1, <2>2, <2>3, ShellStopActs, ShellTypesThen DEF ShellTypes, Shells!goroutines
<1>2. CASE Shells!CloseManager
  <2>1. Shells!Stop(Shells!RunningSet, "terminated") /\ UNCHANGED <<ptyClosed, Shells!goroutines, grace>> /\ closed' = TRUE
    BY <1>2 DEF Shells!CloseManager
  <2>2. Shells!RunningSet \in SUBSET Terminals
    BY DEF Shells!RunningSet
  <2>3. ShellFeedsOrderly'
    BY <2>1, <2>2, ShellStopOrderly DEF Shells!goroutines
  <2>. QED
    BY <1>0, <2>1, <2>2, <2>3, ShellStopActs, ShellTypesThen DEF ShellTypes, Shells!goroutines
<1>3. CASE UNCHANGED Shells!sessionVars
  <2>1. ShellTypes'
    BY <1>0, <1>3 DEF ShellTypes, Shells!sessionVars
  <2>2. \A t \in Terminals : ShellOrderly(t)'
    BY <1>3, ShellStillOrderly DEF ShellStill, Shells!sessionVars, ShellFeedsOrderly
  <2>. QED
    BY <2>1, <2>2, ShellTypesThen DEF ShellFeedsOrderly
<1>. QED
  BY <1>1, <1>2, <1>3, ShellSessionSteps, ShellReaderSteps, ShellWaiterSteps DEF Shells!Next

LEMMA ShellSessionsInvariant == ASSUME Shells!SessionsAssumption PROVE Shells!Spec => [](Shells!TypeOK /\ ShellFeedsOrderly)
  BY ShellSessionsStart, ShellSessionsKept, PTL DEF Shells!Spec

LEMMA ShellOrderlyComplete ==
  ASSUME Shells!SessionsAssumption, Shells!TypeOK, ShellFeedsOrderly PROVE Shells!FeedIsComplete
<1>. SUFFICES ASSUME NEW s \in Terminals, Shells!ExitEvent \in ToSet(feed[s]),
                     session[s].reason # "io_error", s \notin unkillable
              PROVE  feed[s] = ShellOutput(sequence[s]) \o <<Shells!ExitEvent>> /\ process[s] = "dead"
  BY ShellToSet DEF Shells!FeedIsComplete, ShellOutput
<1>1. ShellNotStarted(s) /\ ShellWorks(s) /\ ShellOver(s) /\ ShellTypes /\ ShellOrderly(s)
  BY ShellTypesAre DEF ShellFeedsOrderly, ShellOrderly, ShellClean
<1>2. ASSUME NEW n \in 0 .. MaxChunks PROVE feed[s] # ShellOutput(n)
  <2>1. Shells!ExitEvent \notin ToSet(ShellOutput(n))
    BY ShellOutputTyped DEF ToSet, ShellOutput, Shells!SessionsAssumption
  <2>. QED
    BY <2>1
<1>3. sequence[s] \in 0 .. MaxChunks /\ ShellEmitted(s) \in 0 .. MaxChunks
  <2>1. sequence[s] \in 0 .. MaxChunks
    BY <1>1 DEF ShellTypes
  <2>2. reader[s] = "holding" => sequence[s] - 1 \in 0 .. MaxChunks
    <3>1. reader[s] = "holding" => sequence[s] > 0
      BY <1>1 DEF ShellOrderly
    <3>. QED
      BY <2>1, <3>1 DEF Shells!SessionsAssumption
  <2>. QED
    BY <2>1, <2>2 DEF ShellEmitted
<1>4. 0 \in 0 .. MaxChunks /\ ShellOutput(0) = <<>>
  BY DEF Shells!SessionsAssumption, ShellOutput
<1>5. session[s].state \in {"exited", "forgotten"}
  BY <1>1, <1>2, <1>3, <1>4 DEF ShellNotStarted, ShellWorks, ShellTypes, ShellRecords, ShellStates
<1>. QED
  BY <1>1, <1>2, <1>3, <1>5 DEF ShellOver

\* The sessions, their processes and the goroutines of both keep their types.
THEOREM ShellTypeCorrect == ASSUME Shells!SessionsAssumption PROVE Shells!Spec => []Shells!TypeOK
  BY ShellSessionsInvariant, PTL

\* plugin_process_sessions.go readOutput, wait, finish, emit: however the
\* goroutines interleave, a plugin is told of all the output in its order and
\* then, once, of the end, unless the I/O failed or the process could not be
\* signalled.
THEOREM ShellFeedsComplete == ASSUME Shells!SessionsAssumption PROVE Shells!Spec => []Shells!FeedIsComplete
<1>1. Shells!TypeOK /\ ShellFeedsOrderly => Shells!FeedIsComplete
  BY ShellOrderlyComplete
<1>. QED
  BY <1>1, ShellSessionsInvariant, PTL

-----------------------------------------------------------------------------
(* The components together. *)

\* A behaviour of the whole is one of each of its components.
LEMMA SchedulingRuns ==
  FairSpec => Scheduling!Spec
<1>1. Init => Scheduling!Init
  BY DEF Init
<1>2. [Next]_vars => [Scheduling!Next]_(Scheduling!vars)
  BY DEF Next, vars, jobVars, Scheduling!vars
<1>. QED
  BY <1>1, <1>2, PTL DEF FairSpec, Scheduling!Spec

LEMMA ProcessingRuns ==
  FairSpec => Processing!Spec
<1>1. Init => Processing!Init
  BY DEF Init
<1>2. [Next]_vars => [Processing!Next]_(Processing!vars)
  BY DEF Next, vars, processVars, Processing!vars
<1>. QED
  BY <1>1, <1>2, PTL DEF FairSpec, Processing!Spec

LEMMA ShellsRun ==
  FairSpec => Shells!Spec
<1>1. Init => Shells!Init
  BY DEF Init
<1>2. [Next]_vars => [Shells!Next]_(Shells!sessionVars)
  BY DEF Next, vars, shellVars, Shells!sessionVars
<1>. QED
  BY <1>1, <1>2, PTL DEF FairSpec, Shells!Spec

LEMMA WebRuns ==
  FairSpec => Web!Spec
<1>1. Init => Web!Init
  BY DEF Init
<1>2. [Next]_vars => [Web!Next]_(Web!webVars)
  BY DEF Next, vars, webVars, Web!webVars, Web!store, Web!pluginTickets
<1>. QED
  BY <1>1, <1>2, PTL DEF FairSpec, Web!Spec

\* Every variable of every component holds values of its type, also those of
\* the components that do not run (scheduler.go, plugin_processes.go,
\* plugin_process_sessions.go, auth_sessions.go).
THEOREM EndingsTypesCorrect == FairSpec => []TypeOK
<1>1. Init => part \in Parts
  BY DEF Init
<1>2. part \in Parts /\ [Next]_vars => (part \in Parts)'
  BY DEF Next, vars
<1>3. FairSpec => [](part \in Parts)
  BY <1>1, <1>2, PTL DEF FairSpec
<1>4. Scheduling!Spec => []Scheduling!TypeOK
  BY SchedulerTypeCorrect, EndingsAssumption
<1>5. Processing!Spec => []Processing!TypeOK
  BY Processing!TypeCorrect, EndingsAssumption
<1>6. Shells!Spec => []Shells!TypeOK
  BY ShellTypeCorrect, EndingsAssumption
<1>7. Web!Spec => []Web!TypeOK
  BY Web!TypeCorrect, EndingsAssumption
<1>8. /\ part \in Parts /\ Scheduling!TypeOK /\ Processing!TypeOK
      /\ Shells!TypeOK /\ Web!TypeOK
      => TypeOK
  BY DEF TypeOK
<1>. QED
  BY <1>3, <1>4, <1>5, <1>6, <1>7, <1>8, SchedulingRuns, ProcessingRuns, ShellsRun, WebRuns, PTL

\* scheduler/scheduler.go Reload, jobs/runner.go start: loops are those of the
\* configuration and runs of a job stay apart, when requests that save or
\* delete a job come one at a time.  With two at once they do not: the run
\* JobsConcurrent shows it.
THEOREM JobsStayApart ==
  ASSUME SchedulerOneEditor
  PROVE  FairSpec => []JobsApart
<1>1. Scheduling!Spec => []Scheduling!JobsApart
  BY SchedulerJobsStayApart, EndingsAssumption
<1>. QED
  BY <1>1, SchedulingRuns, PTL DEF JobsApart

\* plugin_process_sessions.go finish, emit, readOutput: a plugin is told of all
\* the output of a session and then of its end.
THEOREM FeedsAreComplete == FairSpec => []FeedIsComplete
<1>1. Shells!Spec => []Shells!FeedIsComplete
  BY ShellFeedsComplete, EndingsAssumption
<1>. QED
  BY <1>1, ShellsRun, PTL DEF FeedIsComplete

\* auth_sessions.go, auth.go: a revoked session stays revoked and a ticket
\* opens only the socket of the session it was given to.
THEOREM SessionsStayKept == FairSpec => []Web!WebSessionsKept
<1>1. Web!Spec => []Web!WebSessionsKept
  BY Web!WebSessionsStayKept, EndingsAssumption
<1>. QED
  BY <1>1, WebRuns, PTL
=============================================================================
