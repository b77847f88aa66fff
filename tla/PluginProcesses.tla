--------------------------- MODULE PluginProcesses ---------------------------
(***************************************************************************)
(* The host processes of plugins (internal/core/plugin_processes.go): the  *)
(* start of a process, the goroutine that waits for it, terminate and its  *)
(* timeout, the capture of its output into an execution's log, and the     *)
(* notifier that tells browsers of the log's growth.                       *)
(*                                                                         *)
(* One goroutine per process runs from process.start to the exit callback; *)
(* `step` is what it has done so far.  The others (terminate, the timeout, *)
(* the notifier's timer, the readers of the output) run between its steps. *)
(* A process is captured when it was started with a historyId; otherwise   *)
(* its output is read from pipes and emitted in chunks.                    *)
(***************************************************************************)
EXTENDS Naturals

CONSTANTS
  Processes,   \* host processes of one plugin, each used once
  Executions,  \* executions of the history a process may be captured into
  MaxSize,     \* bound: times one process adds to its log
  Buffer,      \* chunks of output waiting to be emitted (copyOutput's queue)
  None

ConstantsAssumption ==
  None \notin Executions /\ MaxSize \in Nat /\ Buffer \in Nat

VARIABLES
  step,       \* how far the goroutine of each process has come
  execution,  \* the execution a process is captured into
  captured,   \* m.captured: executions that capture a process
  open,       \* executions that are not finished
  alive,      \* processes the operating system runs
  held,       \* processes whose output pipe a grandchild keeps open
  killed,     \* processes that were sent a kill
  flags,      \* pluginProcess: running, terminated, timedOut
  killing,    \* terminates that have left the lock but not sent the kill
  buffered,   \* chunks of output waiting to be emitted
  notice,     \* outputNotifier of each captured process
  exit,       \* the exit callback of each process
  phase,      \* the manager: serving, closing or closed
  todo        \* processes close has still to terminate

system == <<alive, held, killed>>
manager == <<phase, todo>>
vars == <<step, execution, captured, open, alive, held, killed, flags,
          killing, buffered, notice, exit, phase, todo>>

Steps == {"none", "reserved", "opened", "running", "waited", "read",
          "drained", "closed", "silent", "free", "ended", "emitted", "forgotten"}
After(s) == {t \in Steps : CASE s = "running" -> t \notin {"none", "reserved", "opened"}
                             [] s = "ended" -> t \in {"ended", "emitted", "forgotten"}}

Flags == [running : BOOLEAN, terminated : BOOLEAN, timedOut : BOOLEAN]
Exits == [terminated : BOOLEAN, timedOut : BOOLEAN]
Notices == [size : 0 .. MaxSize, published : 0 .. MaxSize, recent : BOOLEAN,
            pending : BOOLEAN, stopped : BOOLEAN,
            timer : {"off", "set", "fired"}]
Quiet == [size |-> 0, published |-> 0, recent |-> FALSE, pending |-> FALSE,
          stopped |-> FALSE, timer |-> "off"]

Captures(q) == execution[q] # None
Items == {q \in Processes : step[q] \in After("running") \ {"forgotten"}}

Init ==
  /\ step = [q \in Processes |-> "none"]
  /\ execution = [q \in Processes |-> None]
  /\ captured = {} /\ open = Executions
  /\ alive = {} /\ held = {} /\ killed = {}
  /\ flags = [q \in Processes |-> [running |-> FALSE, terminated |-> FALSE,
                                   timedOut |-> FALSE]]
  /\ killing = {}
  /\ buffered = [q \in Processes |-> 0]
  /\ notice = [q \in Processes |-> Quiet]
  /\ exit = [q \in Processes |-> None]
  /\ phase = "serving" /\ todo = {}

(* Operators that stand right before another one, with its parameters, and  *)
(* that no action uses are faulty variants of it: each run is repeated with *)
(* a variant in place of the original, and must then fail.                  *)

\* A host call of the plugin is in progress: its calls exclude each other.
Calling == killing # {} \/ \E q \in Processes : step[q] \in {"reserved", "opened"}

To(q, s) == step' = [step EXCEPT ![q] = s]

-----------------------------------------------------------------------------
(* process.start *)

ReserveUnchecked(q, e) ==
  /\ phase = "serving" /\ step[q] = "none" /\ ~Calling
  /\ To(q, "reserved")
  /\ execution' = [execution EXCEPT ![q] = e]
  /\ captured' = captured \cup {e}
  /\ UNCHANGED <<open, system, flags, killing, buffered, notice, exit, manager>>

\* An execution that already captures a process refuses another one.
Reserve(q, e) ==
  /\ phase = "serving" /\ step[q] = "none" /\ ~Calling /\ e \notin captured
  /\ To(q, "reserved")
  /\ execution' = [execution EXCEPT ![q] = e]
  /\ captured' = captured \cup {e}
  /\ UNCHANGED <<open, system, flags, killing, buffered, notice, exit, manager>>

OpenLog(q) ==
  /\ step[q] = "reserved" /\ execution[q] \in open
  /\ To(q, "opened")
  /\ UNCHANGED <<execution, captured, open, system, flags, killing, buffered,
                 notice, exit, manager>>

AbandonedStillCaptured(q) ==
  /\ step[q] \in {"reserved", "opened"}
  /\ To(q, "none")
  /\ execution' = [execution EXCEPT ![q] = None]
  /\ UNCHANGED <<captured, open, system, flags, killing, buffered, notice, exit,
                 manager>>

\* The log cannot be opened (its execution is finished, say) or the process
\* cannot be started: what was opened is closed and the capture released.
Abandoned(q) ==
  /\ step[q] \in {"reserved", "opened"}
  /\ To(q, "none")
  /\ execution' = [execution EXCEPT ![q] = None]
  /\ captured' = captured \ {execution[q]}
  /\ UNCHANGED <<open, system, flags, killing, buffered, notice, exit, manager>>

Started(q) ==
  /\ step[q] = "opened" \/ (step[q] = "none" /\ phase = "serving" /\ ~Calling)
  /\ To(q, "running")
  /\ alive' = alive \cup {q}
  /\ flags' = [flags EXCEPT ![q].running = TRUE]
  /\ UNCHANGED <<execution, captured, open, held, killed, killing, buffered,
                 notice, exit, manager>>

FinishExecution(e) ==
  /\ phase = "serving" /\ ~Calling
  /\ open' = open \ {e}
  /\ UNCHANGED <<step, execution, captured, system, flags, killing, buffered,
                 notice, exit, manager>>

-----------------------------------------------------------------------------
(* Output *)

NotifyUnarmed(n) ==
  LET m == [n EXCEPT !.size = @ + 1]
  IN IF m.recent THEN [m EXCEPT !.pending = TRUE]
     ELSE [m EXCEPT !.published = m.size, !.recent = TRUE, !.pending = FALSE]

\* notify: announce the size now, or let the timer do it when the last one was
\* announced less than pluginOutputNotifyInterval ago.
Notify(n) ==
  LET m == [n EXCEPT !.size = @ + 1]
  IN IF m.recent
       THEN [m EXCEPT !.pending = TRUE,
                      !.timer = IF @ = "off" THEN "set" ELSE @]
       ELSE [m EXCEPT !.published = m.size, !.recent = TRUE, !.pending = FALSE]

WriteLog(q) ==
  /\ step[q] = "running" /\ Captures(q) /\ notice[q].size < MaxSize
  /\ notice' = [notice EXCEPT ![q] = Notify(@)]
  /\ UNCHANGED <<step, execution, captured, open, system, flags, killing,
                 buffered, exit, manager>>

Elapsed(n) == [n EXCEPT !.recent = FALSE,
                        !.timer = IF @ = "set" THEN "fired" ELSE @]

\* The timer was set for the end of the interval; its function still has to
\* get the notifier's lock.
IntervalPasses(q) ==
  /\ notice[q].recent
  /\ notice' = [notice EXCEPT ![q] = Elapsed(@)]
  /\ UNCHANGED <<step, execution, captured, open, system, flags, killing,
                 buffered, exit, manager>>

Flushed(n) ==
  IF n.stopped \/ ~n.pending THEN [n EXCEPT !.timer = "off"]
  ELSE [n EXCEPT !.timer = "off", !.pending = FALSE, !.published = n.size,
                 !.recent = TRUE]

Flush(q) ==
  /\ notice[q].timer = "fired"
  /\ notice' = [notice EXCEPT ![q] = Flushed(@)]
  /\ UNCHANGED <<step, execution, captured, open, system, flags, killing,
                 buffered, exit, manager>>

ChunkUnbounded(q) ==
  /\ step[q] = "running" /\ ~Captures(q)
  /\ buffered' = [buffered EXCEPT ![q] = @ + 1]
  /\ UNCHANGED <<step, execution, captured, open, system, flags, killing,
                 notice, exit, manager>>

\* A chunk read from a pipe; it is discarded when the queue is full.
Chunk(q) ==
  /\ step[q] = "running" /\ ~Captures(q) /\ buffered[q] < Buffer
  /\ buffered' = [buffered EXCEPT ![q] = @ + 1]
  /\ UNCHANGED <<step, execution, captured, open, system, flags, killing,
                 notice, exit, manager>>

EmitChunk(q) ==
  /\ buffered[q] > 0
  /\ buffered' = [buffered EXCEPT ![q] = @ - 1]
  /\ UNCHANGED <<step, execution, captured, open, system, flags, killing,
                 notice, exit, manager>>

-----------------------------------------------------------------------------
(* The process and its end. *)

\* It may leave a grandchild that keeps its output open.
Dies(q) ==
  /\ q \in alive
  /\ alive' = alive \ {q} /\ killed' = killed \ {q}
  /\ held' \in {held, held \cup {q}}
  /\ UNCHANGED <<step, execution, captured, open, flags, killing,
                 buffered, notice, exit, manager>>

\* The goroutine goes on from step a to step b.
Goes(q, a, b) ==
  /\ step[q] = a /\ To(q, b)
  /\ UNCHANGED <<execution, open, alive, killed, killing, exit, manager>>

WaitedForPipe(q) ==
  /\ q \notin alive /\ (Captures(q) => q \notin held)
  /\ Goes(q, "running", "waited")
  /\ held' = held \ {q}
  /\ UNCHANGED <<captured, flags, buffered, notice>>

\* cmd.Wait returns although a grandchild keeps the output open: at once when
\* it is read from pipes, after pluginProcessWaitDelay when it is captured.
Waited(q) ==
  /\ q \notin alive
  /\ Goes(q, "running", "waited")
  /\ held' = held \ {q}
  /\ UNCHANGED <<captured, flags, buffered, notice>>

\* The pipes are closed, and the readers end, maybe with a last chunk.
ReadersEnd(q) ==
  /\ Goes(q, "waited", "read")
  /\ \/ UNCHANGED buffered
     \/ /\ ~Captures(q) /\ buffered[q] < Buffer
        /\ buffered' = [buffered EXCEPT ![q] = @ + 1]
  /\ UNCHANGED <<held, captured, flags, notice>>

DrainedAtOnce(q) ==
  /\ Goes(q, "read", "drained")
  /\ UNCHANGED <<held, captured, flags, buffered, notice>>

\* What the readers have read has been emitted.
Drained(q) ==
  /\ buffered[q] = 0
  /\ Goes(q, "read", "drained")
  /\ UNCHANGED <<held, captured, flags, buffered, notice>>

LogClosed(q) ==
  /\ Captures(q) /\ Goes(q, "drained", "closed")
  /\ UNCHANGED <<held, buffered, captured, flags, notice>>

\* A timer that has fired already is not stopped.
Stopped(n) == [n EXCEPT !.stopped = TRUE,
                        !.timer = IF @ = "set" THEN "off" ELSE @]

SilencedAtOnce(q) ==
  /\ Goes(q, "closed", "silent")
  /\ notice' = [notice EXCEPT ![q] = Stopped(@)]
  /\ UNCHANGED <<held, buffered, captured, flags>>

Told(n) == [Stopped(n) EXCEPT !.published = IF n.pending THEN n.size ELSE @]

\* notifier.stop announces what was held back, once.
Silenced(q) ==
  /\ Goes(q, "closed", "silent")
  /\ notice' = [notice EXCEPT ![q] = Told(@)]
  /\ UNCHANGED <<held, buffered, captured, flags>>

Released(q) ==
  /\ Goes(q, "silent", "free")
  /\ captured' = captured \ {execution[q]}
  /\ UNCHANGED <<held, buffered, flags, notice>>

\* The flags go into the exit callback under the lock that ends `running`.
Ended(q) ==
  /\ step[q] = IF Captures(q) THEN "free" ELSE "drained"
  /\ To(q, "ended")
  /\ flags' = [flags EXCEPT ![q].running = FALSE]
  /\ exit' = [exit EXCEPT ![q] = [terminated |-> flags[q].terminated,
                                  timedOut |-> flags[q].timedOut]]
  /\ UNCHANGED <<execution, captured, open, system, killing, buffered, notice,
                 manager>>

Emit(q) ==
  /\ Goes(q, "ended", "emitted")
  /\ UNCHANGED <<held, buffered, captured, flags, notice>>

Forget(q) ==
  /\ Goes(q, "emitted", "forgotten")
  /\ UNCHANGED <<held, buffered, captured, flags, notice>>

-----------------------------------------------------------------------------
(* terminate and the timeout *)

\* The timeout kills under the lock of the process.
Timeout(q) ==
  /\ flags[q].running /\ ~flags[q].timedOut
  /\ flags' = [flags EXCEPT ![q].timedOut = TRUE]
  /\ killed' \in {killed, killed \cup ({q} \cap alive)}
  /\ UNCHANGED <<step, execution, captured, open, alive, held, killing,
                 buffered, notice, exit, manager>>

TerminateAny(q) ==
  /\ q \in IF phase = "serving" THEN Items ELSE todo
  /\ ~Calling
  /\ todo' = todo \ {q}
  /\ flags' = [flags EXCEPT ![q].terminated = TRUE]
  /\ killing' = {q}
  /\ UNCHANGED <<step, execution, captured, open, system, buffered, notice,
                 exit, phase>>

\* terminate says so under the lock, and kills after it; close terminates one
\* process after the other.
Terminate(q) ==
  /\ q \in IF phase = "serving" THEN Items ELSE todo
  /\ ~Calling
  /\ todo' = todo \ {q}
  /\ \/ ~flags[q].running /\ UNCHANGED <<flags, killing>>
     \/ /\ flags[q].running
        /\ flags' = [flags EXCEPT ![q].terminated = TRUE]
        /\ killing' = {q}
  /\ UNCHANGED <<step, execution, captured, open, system, buffered, notice,
                 exit, phase>>

Kill(q) ==
  /\ q \in killing
  /\ killing' = {}
  /\ killed' \in {killed, killed \cup ({q} \cap alive)}
  /\ UNCHANGED <<step, execution, captured, open, alive, held, flags, buffered,
                 notice, exit, manager>>

Close ==
  /\ phase = "serving" /\ ~Calling
  /\ phase' = "closing" /\ todo' = Items
  /\ UNCHANGED <<step, execution, captured, open, system, flags, killing,
                 buffered, notice, exit>>

\* All goroutines are done, or five seconds have passed.
Closed ==
  /\ phase = "closing" /\ todo = {} /\ killing = {}
  /\ phase' = "closed"
  /\ UNCHANGED <<step, execution, captured, open, system, flags, killing,
                 buffered, notice, exit, todo>>

Done == phase = "closed" /\ UNCHANGED vars

-----------------------------------------------------------------------------
Waiter(q) ==
  \/ Waited(q) \/ ReadersEnd(q) \/ Drained(q) \/ LogClosed(q) \/ Silenced(q)
  \/ Released(q) \/ Ended(q) \/ Emit(q)

Next ==
  \/ \E q \in Processes :
       \/ OpenLog(q) \/ Abandoned(q) \/ Started(q) \/ WriteLog(q)
       \/ IntervalPasses(q) \/ Flush(q) \/ Chunk(q) \/ EmitChunk(q) \/ Dies(q)
       \/ Waiter(q) \/ Forget(q) \/ Timeout(q) \/ Terminate(q) \/ Kill(q)
       \/ \E e \in Executions : Reserve(q, e)
  \/ \E e \in Executions : FinishExecution(e)
  \/ Close \/ Closed \/ Done

Spec == Init /\ [][Next]_vars

\* Goroutines run, time passes, a killed process dies, and its output ends in the end.
Fairness ==
  \A q \in Processes :
    /\ WF_vars(Waiter(q)) /\ WF_vars(EmitChunk(q))
    /\ WF_vars(IntervalPasses(q)) /\ WF_vars(Flush(q))
    /\ WF_vars(q \in killed /\ Dies(q))

FairSpec == Spec /\ Fairness

-----------------------------------------------------------------------------
(* Properties. *)

TypeOK ==
  /\ step \in [Processes -> Steps]
  /\ execution \in [Processes -> Executions \cup {None}]
  /\ captured \subseteq Executions /\ open \subseteq Executions
  /\ alive \subseteq Processes /\ held \subseteq Processes
  /\ killed \subseteq Processes /\ killing \subseteq Processes
  /\ flags \in [Processes -> Flags]
  /\ buffered \in [Processes -> 0 .. Buffer]
  /\ notice \in [Processes -> Notices]
  /\ exit \in [Processes -> Exits \cup {None}]
  /\ phase \in {"serving", "closing", "closed"} /\ todo \subseteq Processes

LogOpen(q) ==
  Captures(q) /\ step[q] \in {"opened", "running", "waited", "read", "drained"}

\* Two processes never have the log of one execution open, whatever starts,
\* fails to start and ends in between: their output would be interleaved and
\* the size that is announced would be of neither.
CaptureExclusive ==
  \A q, r \in Processes :
    LogOpen(q) /\ LogOpen(r) /\ execution[q] = execution[r] => q = r

\* An execution is marked as capturing exactly while a process reserves it: no
\* path through a failed start or an end leaves it marked, which would refuse
\* every later capture.
CaptureHeld ==
  captured = {execution[q] : q \in {r \in Processes : Captures(r) /\ step[r] \in
    {"reserved", "opened", "running", "waited", "read", "drained", "closed", "silent"}}}

\* What the exit callback says of how the process ended is what process.status
\* says ever after, however late a terminate or a timeout comes.
ExitIsFinal ==
  \A q \in Processes : exit[q] # None =>
    /\ ~flags[q].running
    /\ exit[q] = [terminated |-> flags[q].terminated, timedOut |-> flags[q].timedOut]

\* The exit callback is the last one of its process: all output read from its
\* pipes has been emitted before.
ExitComesLast == \A q \in Processes : step[q] \in After("ended") => buffered[q] = 0

\* When the notifier is silenced browsers have been told the log's final size.
FinalSizeAnnounced ==
  \A q \in Processes : notice[q].stopped => notice[q].published = notice[q].size

\* A size that was held back is announced although the process writes no more.
GrowthAnnounced == \A q \in Processes :
  notice[q].pending ~> (~notice[q].pending \/ notice[q].stopped)

Reported(q) == step[q] \in {"emitted", "forgotten"}

\* The end of a process is reported although a grandchild keeps its output
\* open, which would otherwise never end.
EndReported == \A q \in Processes : (step[q] = "running" /\ q \notin alive) ~> Reported(q)

\* Captures (start, cancelCapture, releaseCapture): no two processes write the
\* log of an execution, and none stays reserved after its process.
CapturesApart == CaptureExclusive /\ CaptureHeld

\* Ends (wait, terminate, expire): nothing follows the exit callback, neither
\* output nor another answer to how the process ended.
ExitsSettle == ExitIsFinal /\ ExitComesLast

\* Whoever follows a log hears of all of it, while the process is silent and
\* when it has ended (outputNotifier.notify, flush and stop).
SizesAnnounced == []FinalSizeAnnounced /\ GrowthAnnounced
=============================================================================
