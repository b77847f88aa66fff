------------------------------ MODULE MCEndings ------------------------------
(***************************************************************************)
(* Small instances, for TLC, of the components in which something must end *)
(* in the end: reloads of the scheduler, processes and their logs, process *)
(* sessions, and sockets of browser sessions.  They share no state, so     *)
(* that a behaviour is one of the component `part`, and the others stay in *)
(* an initial state, where none of the actions that are fair is enabled.   *)
(***************************************************************************)
EXTENDS Naturals, Sequences

CONSTANTS
  Parts,                                                \* the components that run
  None, Jobs, Policies, Editors, Generations, Runs,     \* JobScheduler
  Processes, Executions, MaxSize, Buffer,               \* PluginProcesses
  Terminals, MaxTerminals, MaxChunks,                   \* ProcessSessions
  Nobody, Sessions, Tickets, PluginTickets, Sockets, Asks, MaxSessions      \* WebSessions

VARIABLES
  part,
  jobs, editor, current, cancelled, loops, active, running, allowed,
  step, execution, captured, open, alive, held, killed, flags, killing, buffered,
  notice, exit, phase, todo,
  session, process, ptyClosed, reader, waiter, sequence, ending, feed, grace,
  unkillable, closed,
  live, stored, expired, issued, told, revoking, tickets, request, socket, granted,
  owned, remembered

\* PluginProcesses and WebSessions have their theorems, for EndingsProofs.
Scheduling == INSTANCE JobScheduler
Processing == INSTANCE PluginProcessesProofs
Shells == INSTANCE ProcessSessions WITH Sessions <- Terminals, MaxSessions <- MaxTerminals
Web == INSTANCE WebSessionsProofs WITH
  Requests <- Asks, Kinds <- <<"application", "download">>, LockedKinds <- {"application"}

ASSUME EndingsAssumption ==
  /\ Scheduling!ConstantsAssumption /\ Processing!ConstantsAssumption
  /\ Shells!SessionsAssumption /\ Web!SessionsAssumption

jobVars == <<jobs, editor, current, cancelled, loops, active, running, allowed>>
processVars == <<step, execution, captured, open, alive, held, killed, flags, killing,
                 buffered, notice, exit, phase, todo>>
shellVars == <<session, process, ptyClosed, reader, waiter, sequence, ending, feed, grace,
               unkillable, closed>>
webVars == <<live, stored, expired, issued, told, revoking, tickets, request, socket,
             granted, owned, remembered>>
vars == <<part, jobVars, processVars, shellVars, webVars>>

\* Only the component that runs starts anywhere it may.
Init ==
  /\ part \in Parts
  /\ part # "jobs" =>
       jobs = [j \in Jobs |-> None] /\ current = CHOOSE g \in Generations : TRUE
  /\ Scheduling!Init /\ Processing!Init /\ Shells!Init /\ Web!Init

Next ==
  \/ UNCHANGED <<part, processVars, shellVars, webVars>> /\ part = "jobs" /\ Scheduling!Next
  \/ UNCHANGED <<part, jobVars, shellVars, webVars>> /\ part = "processes" /\ Processing!Next
  \/ UNCHANGED <<part, jobVars, processVars, webVars>> /\ part = "shells" /\ Shells!Next
  \/ UNCHANGED <<part, jobVars, processVars, shellVars>> /\ part = "web" /\ Web!Next

\* What each component promises when its goroutines run.
Fairness ==
  Scheduling!Fairness /\ Processing!Fairness /\ Shells!Fairness /\ Web!ServerRuns

FairSpec == Init /\ [][Next]_vars /\ Fairness

-----------------------------------------------------------------------------
(* The properties of the components, which their modules explain.          *)

\* Every variable of the component that runs holds values of its type.
TypeOK ==
  /\ part \in Parts
  /\ part = "jobs" => Scheduling!TypeOK
  /\ part = "processes" => Processing!TypeOK
  /\ part = "shells" => Shells!TypeOK
  /\ part = "web" => Web!TypeOK

\* Loops are those of the configuration and runs of a job stay apart
\* (JobScheduler; scheduler/scheduler.go, jobs/runner.go).
JobsApart == part = "jobs" => Scheduling!JobsApart

\* A request that saves or deletes a job returns (JobScheduler; Reload).
ReloadReturns == Scheduling!ReloadReturns

\* Every end of a process is reported, and browsers are told of all of a log
\* (PluginProcesses; plugin_processes.go wait, outputNotifier).
ProcessesSettle == Processing!EndReported /\ Processing!SizesAnnounced

\* A plugin is told of all the output of a session and then of its end
\* (ProcessSessions; plugin_process_sessions.go finish, emit).
FeedIsComplete == part = "shells" => Shells!FeedIsComplete

\* A session whose process ended ends (ProcessSessions; readOutput, wait).
DeadSessionEnds == Shells!DeadSessionEnds

\* A socket whose session ended ends (WebSessions; auth.go, auth_sessions.go).
SocketsEnd == Web!SocketsEnd
=============================================================================
