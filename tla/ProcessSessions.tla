--------------------------- MODULE ProcessSessions ---------------------------
(***************************************************************************)
(* The interactive process sessions of one plugin                          *)
(* (internal/core/plugin_process_sessions.go over internal/processsession):*)
(* per session a process on a pseudo-terminal, a goroutine that reads it   *)
(* and one that waits for it, a lifetime and a grace timer, and the plugin,*)
(* whose worker and whose calls may end the session as well.               *)
(***************************************************************************)
EXTENDS Naturals, Sequences, FiniteSets, SequencesExt

CONSTANTS
  Sessions,
  MaxSessions,    \* maxPluginSessionsPerOwner
  MaxChunks       \* bound: chunks of output a process writes

SessionsAssumption == MaxSessions \in Nat /\ MaxChunks \in Nat

VARIABLES
  session,     \* [state, reason, wanted] of pluginSession
  process,     \* "none", "alive" or "dead"
  ptyClosed,   \* sessions whose pseudo-terminal is closed
  reader,      \* where readOutput is
  waiter,      \* where the goroutine that waits for the process is
  sequence,    \* output chunks numbered so far
  ending,      \* callbacks finish has still to emit
  feed,        \* callbacks accepted into the queue of the plugin
  grace,       \* grace timers of terminate that have not expired
  unkillable,  \* sessions whose process could not be signalled
  closed       \* the manager has been closed

sessionVars == <<session, process, ptyClosed, reader, waiter, sequence, ending,
                 feed, grace, unkillable, closed>>
goroutines == <<reader, waiter, sequence, feed>>

\* Callbacks: an output chunk is its number.
ExitEvent == MaxChunks + 1
ErrorEvent == MaxChunks + 2

Running(s) == session[s].state = "running"
RunningSet == {s \in Sessions : Running(s)}

Init ==
  /\ session = [s \in Sessions |-> [state |-> "none", reason |-> "", wanted |-> ""]]
  /\ process = [s \in Sessions |-> "none"] /\ ptyClosed = {}
  /\ reader = [s \in Sessions |-> "off"] /\ waiter = [s \in Sessions |-> "off"]
  /\ sequence = [s \in Sessions |-> 0]
  /\ ending = [s \in Sessions |-> <<>>] /\ feed = [s \in Sessions |-> <<>>]
  /\ grace = {} /\ unkillable = {} /\ closed = FALSE

\* create: the limit counts running sessions; a process that cannot be
\* started leaves nothing.
Create(s) ==
  /\ session[s].state = "none" /\ ~closed /\ Cardinality(RunningSet) < MaxSessions
  /\ session' = [session EXCEPT ![s].state = "running"]
  /\ process' = [process EXCEPT ![s] = "alive"]
  /\ reader' = [reader EXCEPT ![s] = "reading"]
  /\ waiter' = [waiter EXCEPT ![s] = "waiting"]
  /\ UNCHANGED <<ptyClosed, sequence, ending, feed, grace, unkillable, closed>>

\* The operating system: a process ends by itself or after a signal.
ProcessEnds(s) ==
  /\ process[s] = "alive" /\ process' = [process EXCEPT ![s] = "dead"]
  /\ UNCHANGED <<session, ptyClosed, goroutines, ending, grace, unkillable, closed>>

-----------------------------------------------------------------------------
(* finish, requestStop and who calls them. *)

\* The body of finishOnce: state and reason first, then the callbacks.
Finish(s, reason) ==
  IF Running(s)
  THEN /\ session' = [session EXCEPT ![s].state = "exited", ![s].reason = reason]
       /\ ending' = [ending EXCEPT ![s] = IF reason = "io_error" THEN <<ErrorEvent, ExitEvent>> ELSE <<ExitEvent>>]
  ELSE UNCHANGED <<session, ending>>

\* finish("io_error", force): the kill may fail, the terminal is closed.
Fail(s) ==
  /\ Finish(s, "io_error")
  /\ IF Running(s)
     THEN /\ ptyClosed' = ptyClosed \cup {s}
          /\ \/ process' = [process EXCEPT ![s] = "dead"] /\ UNCHANGED unkillable
             \/ process[s] = "alive" /\ unkillable' = unkillable \cup {s} /\ UNCHANGED process
     ELSE UNCHANGED <<ptyClosed, process, unkillable>>

\* requestStop with force: the first reason given stays; a process that
\* cannot be signalled ends the session at once.
Stop(S, reason) ==
  LET want(s) == IF session[s].wanted = "" THEN reason ELSE session[s].wanted
      R == S \cap RunningSet
  IN \E U \in SUBSET {s \in R : process[s] = "alive"} :
       /\ unkillable' = unkillable \cup U
       /\ process' = [s \in Sessions |-> IF s \in R \ U THEN "dead" ELSE process[s]]
       /\ session' = [s \in Sessions |->
            IF s \in U THEN [state |-> "exited", reason |-> reason, wanted |-> want(s)]
            ELSE IF s \in R THEN [session[s] EXCEPT !.wanted = want(s)] ELSE session[s]]
       /\ ending' = [s \in Sessions |-> IF s \in U THEN <<ExitEvent>> ELSE ending[s]]

\* terminate without force signals the process and arms the grace timer.
TerminateGently(s) ==
  /\ Running(s) /\ grace' = grace \cup {s}
  /\ session' = [session EXCEPT ![s].wanted = IF @ = "" THEN "terminated" ELSE @]
  /\ UNCHANGED <<process, ptyClosed, goroutines, ending, unkillable, closed>>

TerminateForced(s) ==
  /\ Running(s) /\ Stop({s}, "terminated")
  /\ UNCHANGED <<ptyClosed, goroutines, grace, closed>>

GraceExpires(s) ==
  /\ s \in grace /\ grace' = grace \ {s}
  /\ Stop({s}, "terminated")
  /\ UNCHANGED <<ptyClosed, goroutines, closed>>

LifetimeEnds(s) ==
  /\ Running(s) /\ Stop({s}, "timed_out")
  /\ UNCHANGED <<ptyClosed, goroutines, grace, closed>>

\* stopOwner of a stopped plugin, and close with RunPilot.
StopOwner ==
  /\ RunningSet # {} /\ Stop(RunningSet, "terminated")
  /\ UNCHANGED <<ptyClosed, goroutines, grace, closed>>
CloseManager ==
  /\ ~closed /\ closed' = TRUE /\ Stop(RunningSet, "terminated")
  /\ UNCHANGED <<ptyClosed, goroutines, grace>>

\* write and resize: an error of the terminal ends the session.
InputFails(s) ==
  /\ Running(s) /\ Fail(s)
  /\ UNCHANGED <<goroutines, grace, closed>>

\* The plugin's handler of an output callback failed.
DeliveryFails(s) ==
  /\ session[s].state \in {"running", "exited"}
  /\ \E i \in 1 .. Len(feed[s]) : feed[s][i] <= MaxChunks
  /\ Fail(s)
  /\ UNCHANGED <<goroutines, grace, closed>>

\* Emit waits for space in the queue; an exit that gets none is lost.
EmitEnd(s) ==
  /\ ending[s] # <<>> /\ ending' = [ending EXCEPT ![s] = Tail(@)]
  /\ \/ feed' = [feed EXCEPT ![s] = Append(@, Head(ending[s]))]
     \/ UNCHANGED feed
  /\ UNCHANGED <<session, process, ptyClosed, reader, waiter, sequence, grace, unkillable, closed>>

\* The record is removed pluginSessionRetention after the end.
Expire(s) ==
  /\ session[s].state = "exited" /\ ending[s] = <<>>
  /\ session' = [session EXCEPT ![s].state = "forgotten"]
  /\ UNCHANGED <<process, ptyClosed, goroutines, ending, grace, unkillable, closed>>

-----------------------------------------------------------------------------
(* readOutput. *)

Read(s) ==
  /\ reader[s] = "reading" /\ s \notin ptyClosed /\ sequence[s] < MaxChunks
  /\ sequence' = [sequence EXCEPT ![s] = @ + 1]
  /\ reader' = [reader EXCEPT ![s] = "holding"]
  /\ UNCHANGED <<session, process, ptyClosed, waiter, ending, feed, grace, unkillable, closed>>

\* Output never waits for space: what the queue has no room for is fatal.
EmitOutputLossy(s) ==
  /\ reader[s] = "holding" /\ reader' = [reader EXCEPT ![s] = "reading"]
  /\ \/ feed' = [feed EXCEPT ![s] = Append(@, sequence[s])]
     \/ UNCHANGED feed
  /\ UNCHANGED <<session, process, ptyClosed, ending, unkillable, waiter, sequence, grace, closed>>
EmitOutput(s) ==
  /\ reader[s] = "holding"
  /\ \/ /\ feed' = [feed EXCEPT ![s] = Append(@, sequence[s])]
        /\ reader' = [reader EXCEPT ![s] = "reading"]
        /\ UNCHANGED <<session, process, ptyClosed, ending, unkillable>>
     \/ /\ Fail(s) /\ reader' = [reader EXCEPT ![s] = "failed"] /\ UNCHANGED feed
  /\ UNCHANGED <<waiter, sequence, grace, closed>>

\* The terminal ends with its process or is closed, or fails.
ReadEnds(s) ==
  /\ reader[s] = "reading" /\ reader' = [reader EXCEPT ![s] = "ended"]
  /\ UNCHANGED <<session, process, ptyClosed, waiter, sequence, ending, feed, grace, unkillable, closed>>

ReaderDone(s) ==
  /\ \/ reader[s] = "ended" /\ waiter[s] # "waiting"
     \/ reader[s] = "failed" /\ ~Running(s) /\ ending[s] = <<>>
  /\ reader' = [reader EXCEPT ![s] = "done"]
  /\ UNCHANGED <<session, process, ptyClosed, waiter, sequence, ending, feed, grace, unkillable, closed>>

\* No end of the process within 100 ms of the end of its output.
ReaderGivesUp(s) ==
  /\ reader[s] = "ended" /\ Fail(s)
  /\ reader' = [reader EXCEPT ![s] = "failed"]
  /\ UNCHANGED <<waiter, sequence, feed, grace, closed>>

-----------------------------------------------------------------------------
(* The goroutine that waits for the process. *)

Reap(s) ==
  /\ waiter[s] = "waiting" /\ process[s] = "dead"
  /\ waiter' = [waiter EXCEPT ![s] = "draining"]
  /\ UNCHANGED <<session, process, ptyClosed, reader, sequence, ending, feed, grace, unkillable, closed>>

CloseTerminalNot(s) ==
  /\ waiter[s] = "draining" /\ waiter' = [waiter EXCEPT ![s] = "closing"]
  /\ UNCHANGED <<session, process, ptyClosed, reader, sequence, ending, feed, grace, unkillable, closed>>

\* After the reader or 100 ms the terminal is closed, which ends the reader.
CloseTerminal(s) ==
  /\ waiter[s] = "draining" /\ waiter' = [waiter EXCEPT ![s] = "closing"]
  /\ ptyClosed' = ptyClosed \cup {s}
  /\ UNCHANGED <<session, process, reader, sequence, ending, feed, grace, unkillable, closed>>

\* Only after the reader has returned is the end reported.
ReportEnd(s) ==
  /\ waiter[s] = "closing" /\ reader[s] = "done"
  /\ waiter' = [waiter EXCEPT ![s] = "done"]
  /\ Finish(s, IF session[s].wanted = "" THEN "exited" ELSE session[s].wanted)
  /\ UNCHANGED <<process, ptyClosed, reader, sequence, feed, grace, unkillable, closed>>

-----------------------------------------------------------------------------

Goroutine(s) ==
  \/ EmitEnd(s) \/ EmitOutput(s) \/ ReaderDone(s) \/ Reap(s)
  \/ CloseTerminal(s) \/ ReportEnd(s)
  \/ s \in ptyClosed /\ ReadEnds(s)

Next ==
  \/ \E s \in Sessions :
       \/ Create(s) \/ ProcessEnds(s) \/ TerminateGently(s) \/ TerminateForced(s)
       \/ GraceExpires(s) \/ LifetimeEnds(s) \/ InputFails(s) \/ DeliveryFails(s)
       \/ EmitEnd(s) \/ Expire(s) \/ Read(s) \/ EmitOutput(s) \/ ReadEnds(s)
       \/ ReaderDone(s) \/ ReaderGivesUp(s) \/ Reap(s) \/ CloseTerminal(s) \/ ReportEnd(s)
  \/ StopOwner \/ CloseManager

Spec == Init /\ [][Next]_sessionVars

\* The goroutines of a session run; processes and timers promise nothing, and
\* a read of the terminal returns for certain only after it was closed, since
\* a child of the process may hold it open.
Fairness == \A s \in Sessions : WF_sessionVars(Goroutine(s))
FairSpec == Spec /\ Fairness

-----------------------------------------------------------------------------

TypeOK ==
  /\ session \in [Sessions -> [state : {"none", "running", "exited", "forgotten"},
                               reason : {"", "exited", "terminated", "timed_out", "io_error"},
                               wanted : {"", "terminated", "timed_out"}]]
  /\ process \in [Sessions -> {"none", "alive", "dead"}]
  /\ reader \in [Sessions -> {"off", "reading", "holding", "ended", "failed", "done"}]
  /\ waiter \in [Sessions -> {"off", "waiting", "draining", "closing", "done"}]
  /\ sequence \in [Sessions -> 0 .. MaxChunks]
  /\ ending \in [Sessions -> Seq({ErrorEvent, ExitEvent})]
  /\ feed \in [Sessions -> Seq(1 .. MaxChunks + 2)]
  /\ ptyClosed \subseteq Sessions /\ grace \subseteq Sessions /\ unkillable \subseteq Sessions
  /\ closed \in BOOLEAN

\* What the plugin is told of a session that ended without an I/O failure is
\* all of its output, in order and without a gap, then one exit, and the
\* process is dead by then. The exception is a process RunPilot may not signal.
FeedIsComplete ==
  \A s \in Sessions :
    ExitEvent \in ToSet(feed[s]) /\ session[s].reason # "io_error" /\ s \notin unkillable =>
      /\ feed[s] = [i \in 1 .. sequence[s] |-> i] \o <<ExitEvent>>
      /\ process[s] = "dead"

\* A session whose process ended ends, unless the record is gone already,
\* whoever reads, stops or closes it meanwhile.
DeadSessionEnds == \A s \in Sessions : process[s] = "dead" ~> ~Running(s)
=============================================================================
