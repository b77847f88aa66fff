------------------------------- MODULE MCHost -------------------------------
(***************************************************************************)
(* Small instances, for TLC, of the components of the host that keep       *)
(* processes, connections, files and configuration.  They share no state,  *)
(* so that nothing is learnt from interleaving them: a behaviour is one of *)
(* the component `part`, and the others stay in an initial state.          *)
(***************************************************************************)
EXTENDS Naturals, Sequences

CONSTANTS
  Parts,                                            \* the components that run
  None, Processes, Logged, MaxSize, Buffer,         \* PluginProcesses
  Executions, Subjects, SubjectOf, Retention, LogCap, MaxMarkers,   \* ExecutionHistory
  Streams, MaxOpen, MaxRecords, MaxBytes,           \* NetworkStreams
  Roots, First, MaxEdits,                           \* DataRoot
  Ids, WithBackend, Fixture, Versions, Incompatible, MaxRetired     \* PluginPackages

VARIABLES
  part,
  step, execution, captured, open, alive, held, killed, flags, killing, buffered,
  notice, exit, phase, todo,
  row, begun, logs, length, capture, hcall,
  streamState, records, retired, connected, attached, waiting, ended, deadline,
  netCall, streamsClosed,
  rootPhase, active, content, locator, pending, status, memory, previous, acked,
  setup, rootStep, created, chosen,
  state, going, releases, removed, enabled, plugins, live, runtimes, restart, torn

\* PluginProcesses has its theorems, for HostProofs.
Processing == INSTANCE PluginProcessesProofs WITH Executions <- Logged
History == INSTANCE ExecutionHistory
Network == INSTANCE NetworkStreams
Root == INSTANCE DataRoot WITH phase <- rootPhase, step <- rootStep
Packages == INSTANCE PluginPackages WITH retired <- removed

ASSUME HostAssumption ==
  /\ Processing!ConstantsAssumption /\ History!HistoryAssumption
  /\ Network!StreamsAssumption /\ Root!RootAssumption /\ Packages!PackagesAssumption

processVars == <<step, execution, captured, open, alive, held, killed, flags, killing,
                 buffered, notice, exit, phase, todo>>
historyVars == <<row, begun, logs, length, capture, hcall>>
streamVars == <<streamState, records, retired, connected, attached, waiting, ended,
                deadline, netCall, streamsClosed>>
rootVars == <<rootPhase, active, content, locator, pending, status, memory, previous,
              acked, setup, rootStep, created, chosen>>
packageVars == <<state, going, releases, removed, enabled, plugins, live, runtimes,
                 restart, torn>>
vars == <<part, processVars, historyVars, streamVars, rootVars, packageVars>>

\* Only the component that runs starts anywhere it may.
Init ==
  /\ part \in Parts
  /\ Processing!Init /\ History!Init /\ Network!Init
  /\ Root!Init /\ (part # "root" => content = [r \in Roots |-> Root!Absent])
  /\ Packages!Init /\ (part # "packages" => enabled = [id \in Ids |-> FALSE])

Next ==
  \/ /\ UNCHANGED <<part, historyVars, streamVars, rootVars, packageVars>>
     /\ part = "processes" /\ Processing!Next
  \/ /\ UNCHANGED <<part, processVars, streamVars, rootVars, packageVars>>
     /\ part = "history" /\ History!Next
  \/ /\ UNCHANGED <<part, processVars, historyVars, rootVars, packageVars>>
     /\ part = "network" /\ Network!Next
  \/ /\ UNCHANGED <<part, processVars, historyVars, streamVars, packageVars>>
     /\ part = "root" /\ Root!Next
  \/ /\ UNCHANGED <<part, processVars, historyVars, streamVars, rootVars>>
     /\ part = "packages" /\ Packages!Next

Spec == Init /\ [][Next]_vars

\* What TLC takes for the constants that are no sets of values.
OneSubject == [e \in Executions |-> "subject"]
FirstVersions == [id : Ids, version : {1}]

\* Processes, executions and streams are alike but for their number, so it is
\* enough to look at the behaviours that use them in their order.
InOrder ==
  /\ \A q \in Processes : step[q] # "none" => \A r \in 1 .. (q - 1) : step[r] # "none"
  /\ \A i \in 1 .. Len(begun) : begun[i] = i
  /\ \A n \in Streams : streamState[n] # "none" \/ n \in netCall.on =>
       \A m \in 1 .. (n - 1) : streamState[m] # "none"
  /\ hcall.op = "begin" => hcall.stale = {Len(begun) + 1}

-----------------------------------------------------------------------------
(* The properties of the components, which their modules explain.          *)

\* Every variable of the component that runs holds values of its type.
TypeOK ==
  /\ part \in Parts
  /\ part = "processes" => Processing!TypeOK
  /\ part = "history" => History!TypeOK
  /\ part = "network" => Network!TypeOK
  /\ part = "root" => Root!TypeOK
  /\ part = "packages" => Packages!TypeOK

\* Two processes never write the log of one execution, and none stays reserved
\* (PluginProcesses; plugin_processes.go start, cancelCapture, releaseCapture).
CapturesApart == part = "processes" => Processing!CapturesApart

\* Nothing follows or contradicts a process's exit callback
\* (PluginProcesses; plugin_processes.go wait, terminate).
ExitsSettle == part = "processes" => Processing!ExitsSettle

\* Rows keep their logs and lists are the latest executions, through retention
\* and crashes (ExecutionHistory; history/owned.go).
HistoryKept == part = "history" => History!HistoryKept

\* The rows and files of the history implement ExecutionLedger: each execution
\* is open, gets one outcome and is forgotten only then (history/owned.go).
LedgerImplemented == History!LedgerImplemented

\* Open connections are those of open records, within the limits
\* (NetworkStreams; core/plugin_network_streams.go).
ConnectionsAreRecorded == part = "network" => Network!ConnectionsAreRecorded

\* Neither failed saves nor relocations lose or invent configuration
\* (DataRoot; config/store.go, root.go).
RootKept == part = "root" => Root!RootKept

\* What runs keeps its files, and what a restart would change is told
\* (PluginPackages; plugins/manager.go).
PackagesKept == part = "packages" => Packages!PackagesKept
=============================================================================
