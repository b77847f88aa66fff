-------------------------- MODULE ExecutionHistory --------------------------
(***************************************************************************)
(* The execution history of one plugin (internal/history/owned.go): a row  *)
(* per execution in the plugin's database and a log file beside it.  The   *)
(* plugin's host calls exclude each other; the writes of captured          *)
(* processes and a crash of RunPilot fall between any two of their steps.  *)
(* A unit of log is a chunk; sizes are in chunks, the marker is one chunk. *)
(***************************************************************************)
EXTENDS Naturals, Sequences, FiniteSets

CONSTANTS
  Executions,      \* identifiers; newExecutionID never repeats one
  Subjects,
  SubjectOf,       \* the subject an execution is begun for
  Retention,       \* ExecutionRetention
  LogCap,          \* MaxExecutionLogBytes
  MaxMarkers       \* bound: captures that may reopen a full log

HistoryAssumption ==
  /\ SubjectOf \in [Executions -> Subjects]
  /\ Retention \in Nat /\ LogCap \in Nat /\ MaxMarkers \in Nat

VARIABLES
  row,      \* status of the row of an execution, "none" when there is none
  begun,    \* executions in the order of their started_at
  logs,     \* executions whose log file exists
  length,   \* length of that file
  capture,  \* the open ExecutionLog: [size, truncated], or NoCapture
  hcall     \* the host call in progress

historyVars == <<row, begun, logs, length, capture, hcall>>

Outcomes == {"succeeded", "failed", "interrupted"}
NoCapture == [size |-> 0, truncated |-> TRUE]
Idle == [op |-> "idle", stale |-> {}]
Down == [op |-> "down", stale |-> {}]

Rows == {e \in Executions : row[e] # "none"}
Finished == {e \in Executions : row[e] \in Outcomes}
Begun == {begun[i] : i \in 1 .. Len(begun)}
StartedAt(e) == CHOOSE i \in 1 .. Len(begun) : begun[i] = e

\* ORDER BY started_at DESC LIMIT n.
Newest(S, n) == {e \in S : Cardinality({o \in S : StartedAt(o) > StartedAt(e)}) < n}
Of(S, s) == {e \in S : SubjectOf[e] = s}

\* What `list` returns for a subject.
Listed(s, n) == Newest(Of(Rows, s), n)

Init ==
  /\ row = [e \in Executions |-> "none"] /\ begun = <<>> /\ logs = {}
  /\ length = [e \in Executions |-> 0]
  /\ capture = [e \in Executions |-> NoCapture]
  /\ hcall = Idle

-----------------------------------------------------------------------------
(* Host calls of the plugin. *)

\* BeginExecution creates the empty file (O_EXCL) before the row.
Begin(e) ==
  /\ hcall = Idle /\ e \notin Begun \cup logs
  /\ logs' = logs \cup {e}
  /\ hcall' = [op |-> "begin", stale |-> {e}]
  /\ UNCHANGED <<row, begun, length, capture>>

\* The insert of the row; when it fails the file is removed again.
Inserted(e) ==
  /\ hcall.op = "begin" /\ e \in hcall.stale
  /\ \/ row' = [row EXCEPT ![e] = "open"] /\ begun' = Append(begun, e) /\ UNCHANGED logs
     \/ logs' = logs \ {e} /\ UNCHANGED <<row, begun>>
  /\ hcall' = Idle
  /\ UNCHANGED <<length, capture>>

StaleNewest(S) == {e \in S : Cardinality({o \in S : StartedAt(o) < StartedAt(e)}) >= Retention}

\* Finished executions of a subject beyond the newest Retention.
Stale(S) == S \ Newest(S, Retention)

FinishAgain(e, o) ==
  /\ hcall = Idle /\ row[e] # "none"
  /\ row' = [row EXCEPT ![e] = o]
  /\ hcall' = [op |-> "prune", stale |-> Stale({x \in Of(Rows, SubjectOf[e]) : row'[x] \in Outcomes})]
  /\ UNCHANGED <<begun, logs, length, capture>>

\* FinishExecution: the UPDATE changes an unfinished row only; a change is
\* followed by the pruning of the subject.
Finish(e, o) ==
  /\ hcall = Idle /\ row[e] = "open"
  /\ row' = [row EXCEPT ![e] = o]
  /\ hcall' = [op |-> "prune", stale |-> Stale({x \in Of(Rows, SubjectOf[e]) : row'[x] \in Outcomes})]
  /\ UNCHANGED <<begun, logs, length, capture>>

\* One DELETE per row, newest first.
PruneRow(e) ==
  /\ hcall.op = "prune" /\ e \in Newest({x \in hcall.stale : row[x] # "none"}, 1)
  /\ row' = [row EXCEPT ![e] = "none"]
  /\ UNCHANGED <<begun, logs, length, capture, hcall>>

PruneLogEarly(e) ==
  /\ hcall.op = "prune" /\ e \in hcall.stale
  /\ logs' = logs \ {e} /\ hcall' = [hcall EXCEPT !.stale = @ \ {e}]
  /\ UNCHANGED <<row, begun, length, capture>>

\* After the rows the logs. Windows keeps a file that is open for capture.
PruneLog(e) ==
  /\ hcall.op = "prune" /\ e \in hcall.stale
  /\ \A x \in hcall.stale : row[x] = "none"
  /\ hcall' = [hcall EXCEPT !.stale = @ \ {e}]
  /\ \/ logs' = logs \ {e}
     \/ capture[e] # NoCapture /\ UNCHANGED logs
  /\ UNCHANGED <<row, begun, length, capture>>

Pruned ==
  /\ hcall.op = "prune" /\ hcall.stale = {} /\ hcall' = Idle
  /\ UNCHANGED <<row, begun, logs, length, capture>>

\* AppendExecutionOutput compares the length of the file with the cap and
\* drops what does not fit; it creates a file that is missing.
AppendOutput(e) ==
  /\ hcall = Idle /\ row[e] # "none"
  /\ logs' = logs \cup {e}
  /\ length' = [length EXCEPT ![e] = IF e \notin logs THEN 1 ELSE IF @ + 1 > LogCap THEN @ ELSE @ + 1]
  /\ UNCHANGED <<row, begun, capture, hcall>>

\* OpenExecutionLog, for process.start; the manager of processes captures one
\* process at a time into an execution.
OpenLog(e) ==
  /\ hcall = Idle /\ row[e] = "open" /\ capture[e] = NoCapture
  /\ length[e] <= LogCap + MaxMarkers
  /\ logs' = logs \cup {e}
  /\ length' = [length EXCEPT ![e] = IF e \in logs THEN @ ELSE 0]
  /\ capture' = [capture EXCEPT ![e] = [size |-> length'[e], truncated |-> FALSE]]
  /\ UNCHANGED <<row, begun, hcall>>

-----------------------------------------------------------------------------
(* Captured processes, at any moment. *)

\* ExecutionLog.Write of n chunks: what remains of the cap by the size the
\* log counted itself, and one marker. Bytes for a deleted file are lost.
WriteLog(e, n) ==
  LET c == capture[e]
      room == IF c.size < LogCap THEN LogCap - c.size ELSE 0
      data == IF n <= room THEN n ELSE room
      mark == IF data < n /\ ~c.truncated THEN 1 ELSE 0
  IN /\ c # NoCapture
     /\ capture' = [capture EXCEPT ![e] = [size |-> c.size + data + mark,
                                           truncated |-> c.truncated \/ data < n]]
     /\ length' = [length EXCEPT ![e] = IF e \in logs THEN @ + data + mark ELSE @]
     /\ UNCHANGED <<row, begun, logs, hcall>>

CloseLog(e) ==
  /\ capture[e] # NoCapture
  /\ capture' = [capture EXCEPT ![e] = NoCapture]
  /\ UNCHANGED <<row, begun, logs, length, hcall>>

-----------------------------------------------------------------------------
(* RunPilot ends at any step and starts again. *)

Crash ==
  /\ hcall # Down /\ hcall' = Down
  /\ capture' = [e \in Executions |-> NoCapture]
  /\ UNCHANGED <<row, begun, logs, length>>

\* AbandonExecutions, before any plugin runs: nothing is pruned.
Boot ==
  /\ hcall = Down /\ hcall' = Idle
  /\ row' = [e \in Executions |-> IF row[e] = "open" THEN "interrupted" ELSE row[e]]
  /\ UNCHANGED <<begun, logs, length, capture>>

Next ==
  \/ \E e \in Executions :
       \/ Begin(e) \/ Inserted(e) \/ PruneRow(e) \/ PruneLog(e)
       \/ AppendOutput(e) \/ OpenLog(e) \/ CloseLog(e)
       \/ \E o \in {"succeeded", "failed"} : Finish(e, o)
       \/ \E n \in 1 .. 2 : WriteLog(e, n)
  \/ Pruned \/ Crash \/ Boot

Spec == Init /\ [][Next]_historyVars

-----------------------------------------------------------------------------

TypeOK ==
  /\ row \in [Executions -> {"none", "open"} \cup Outcomes]
  /\ begun \in Seq(Executions) /\ logs \subseteq Executions
  /\ length \in [Executions -> Nat]
  /\ capture \in [Executions -> [size : Nat, truncated : BOOLEAN]]
  /\ hcall \in [op : {"idle", "down", "begin", "prune"}, stale : SUBSET Executions]

\* Wherever RunPilot is killed between the file and the row of an execution,
\* at its beginning or while it is pruned, no row is left without its log.
RowHasLog == Rows \subseteq logs

\* Retention takes the oldest: a list of at most Retention executions of a
\* subject is the list of the latest ones ever begun, whatever was pruned,
\* interrupted in the middle of pruning or settled by a restart.
ListIsComplete ==
  \A s \in Subjects : \A n \in 0 .. Retention : Listed(s, n) = Newest(Of(Begun, s), n)

\* The rows implement the ledger: a row that is gone is forgotten.
Ledger == INSTANCE ExecutionLedger WITH
  fate <- [e \in Executions |-> IF e \in Begun /\ row[e] = "none" THEN "forgotten" ELSE row[e]]
LedgerImplemented == Ledger!Spec

\* Begin, finish, retention, a crash between two steps and the restart that
\* settles what was left keep the history whole (owned.go).
HistoryKept == RowHasLog /\ ListIsComplete
=============================================================================
