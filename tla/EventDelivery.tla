---------------------------- MODULE EventDelivery ----------------------------
(***************************************************************************)
(* Delivery of host callbacks to plugin backends: the loading of the       *)
(* runtimes, one bounded queue and one worker per plugin, the mutex of a   *)
(* runtime, and the shutdown of the controller (internal/core/controller.go*)
(* and Runtime in internal/plugins/runtime.go).                            *)
(*                                                                         *)
(* A process produces output callbacks, which are dropped when the queue is*)
(* full, and one exit callback, which waits for space for a bounded time.  *)
(* A host call that a plugin makes may itself emit a callback (a stream or *)
(* gateway closed) and then waits for space while the plugin's mutex, which*)
(* the worker needs to make space, is held.                                *)
(*                                                                         *)
(* Waits that a timer ends are steps that may be taken at any moment of the*)
(* wait: durations are abstracted.  Bound: an invocation of plugin code    *)
(* emits one callback at most.                                             *)
(***************************************************************************)
EXTENDS Naturals, Sequences

CONSTANTS
  Plugins,     \* plugins with a backend that are enabled
  Processes,   \* host processes that plugins start, each used once
  Owner,       \* the plugin of each process
  MaxOutput,   \* bound: output callbacks one process produces
  QueueSize,   \* pluginEventQueueSize
  None

ASSUME ConstantsAssumption ==
  /\ Owner \in [Processes -> Plugins]
  /\ MaxOutput \in Nat /\ QueueSize \in Nat \ {0}
  /\ None \notin Processes

VARIABLES
  phase,     \* the controller: loading, serving, closing, closed
  runtime,   \* of each plugin: its entries in c.loading and c.runtimes
  broken,    \* plugins whose WebAssembly module was closed
  lock,      \* who holds Runtime.mu of each plugin
  emitting,  \* the callback the running plugin code enqueues itself
  queue,     \* eventQueues
  worker,    \* the worker of each queue
  process,   \* what each host process is doing
  sent,      \* output callbacks each process has produced
  handled,   \* number of the last callback of each process a handler got
  early,     \* auxiliary: processes that exited before their plugin was ready
  lost       \* auxiliary: why the exit callback of a process was lost

host == <<process, sent>>
ledger == <<handled, early, lost>>
vars == <<phase, runtime, broken, lock, emitting, queue, worker, process,
          sent, handled, early, lost>>

\* The callbacks of a process are numbered in the order they are produced; its
\* exit comes last.  A `closed` callback belongs to no process.
Events == [kind : {"output", "exit"}, process : Processes, n : 1 .. MaxOutput + 1]
            \cup {[kind |-> "closed", process |-> None, n |-> 0]}
Closed == [kind |-> "closed", process |-> None, n |-> 0]
OutputOf(q) == [kind |-> "output", process |-> q, n |-> sent[q] + 1]
ExitOf(q) == [kind |-> "exit", process |-> q, n |-> sent[q] + 1]

Runtimes == {"waiting", "loading", "loaded", "failed", "ready", "closing", "stopped"}
Holders == {"free", "init", "call", "event", "close"}
Reasons == {"no", "full", "unready", "broken", "stopping"}

\* A worker waits for a callback, waits for the plugin to be loaded, waits for
\* the runtime's mutex, or runs the handler.  `late` is an output callback whose
\* 250 ms ran out before the mutex was its own.
Workers == [step : {"idle", "await", "lock", "run"}, event : Events,
            late : BOOLEAN]
Waiting == [step |-> "idle", event |-> Closed, late |-> FALSE]

\* The mutex changes hands, or plugin code begins or ends.
Holds(p, who) ==
  /\ lock' = [lock EXCEPT ![p] = who]
  /\ emitting' = [emitting EXCEPT ![p] = "no"]
Running(p) == lock[p] # "free" /\ p \notin broken
Waits(p) == emitting[p] = "waiting"

HasSpace(p) == Len(queue[p]) < QueueSize
Full(p) == Len(queue[p]) = QueueSize

(* Operators that stand right before another one, with its parameters, and  *)
(* that no action uses are faulty variants of it: each run is repeated with *)
(* a variant in place of the original, and must then fail.                  *)

Init ==
  /\ phase = "loading"
  /\ runtime = [p \in Plugins |-> "waiting"]
  /\ broken = {}
  /\ lock = [p \in Plugins |-> "free"]
  /\ emitting = [p \in Plugins |-> "no"]
  /\ queue = [p \in Plugins |-> <<>>]
  /\ worker = [p \in Plugins |-> Waiting]
  /\ process = [q \in Processes |-> "none"]
  /\ sent = [q \in Processes |-> 0]
  /\ handled = [q \in Processes |-> 0]
  /\ early = {}
  /\ lost = [q \in Processes |-> "no"]

-----------------------------------------------------------------------------
(* Loading.  Runtimes are loaded one after the other and published, with the *)
(* waiters released, only when the last one is.                              *)

Load(p) ==
  /\ phase = "loading" /\ runtime[p] = "waiting"
  /\ \A o \in Plugins : runtime[o] # "loading"
  /\ runtime' = [runtime EXCEPT ![p] = "loading"]
  /\ Holds(p, "init")
  /\ UNCHANGED <<phase, broken, queue, worker, host, ledger>>

\* runpilot_init returns, or fails; a failed backend is closed.
Loaded(p) ==
  /\ runtime[p] = "loading" /\ ~Waits(p)
  /\ Holds(p, "free")
  /\ \/ runtime' = [runtime EXCEPT ![p] = "loaded"] /\ UNCHANGED broken
     \/ runtime' = [runtime EXCEPT ![p] = "failed"] /\ broken' = broken \cup {p}
  /\ UNCHANGED <<phase, queue, worker, host, ledger>>

PublishedLoaded(r) == IF r = "loaded" THEN "ready" ELSE r
Published(r) == IF r = "loaded" THEN "ready" ELSE "stopped"

Publish ==
  /\ phase = "loading"
  /\ \A p \in Plugins : runtime[p] \in {"loaded", "failed"}
  /\ phase' = "serving"
  /\ runtime' = [p \in Plugins |-> Published(runtime[p])]
  /\ UNCHANGED <<broken, lock, emitting, queue, worker, host, ledger>>

-----------------------------------------------------------------------------
(* Plugin code: a call from a browser, an event handler, init and shutdown.  *)

Call(p) ==
  /\ runtime[p] = "ready" /\ lock[p] = "free" /\ p \notin broken
  /\ Holds(p, "call")
  /\ UNCHANGED <<phase, runtime, broken, queue, worker, host, ledger>>

CallReturns(p) ==
  /\ lock[p] = "call" /\ ~Waits(p)
  /\ Holds(p, "free")
  /\ UNCHANGED <<phase, runtime, broken, queue, worker, host, ledger>>

\* A context that ends closes the module: the call fails, and so does every
\* later one.
CallTimesOut(p) ==
  /\ lock[p] = "call" /\ ~Waits(p)
  /\ Holds(p, "free")
  /\ broken' = broken \cup {p}
  /\ UNCHANGED <<phase, runtime, queue, worker, host, ledger>>

StartProcess(q) ==
  /\ Running(Owner[q]) /\ ~Waits(Owner[q]) /\ process[q] = "none"
  /\ process' = [process EXCEPT ![q] = "running"]
  /\ UNCHANGED <<phase, runtime, broken, lock, emitting, queue, worker, sent, ledger>>

\* A host call that closes a stream enqueues a callback before it returns.
Emit(p) ==
  /\ Running(p) /\ emitting[p] = "no"
  /\ emitting' = [emitting EXCEPT ![p] = "waiting"]
  /\ UNCHANGED <<phase, runtime, broken, lock, queue, worker, host, ledger>>

Emitted(p) ==
  /\ Waits(p) /\ HasSpace(p)
  /\ emitting' = [emitting EXCEPT ![p] = "done"]
  /\ queue' = [queue EXCEPT ![p] = Append(@, Closed)]
  /\ UNCHANGED <<phase, runtime, broken, lock, worker, host, ledger>>

EmitUntilStop(p) ==
  /\ Waits(p) /\ phase = "closed"
  /\ emitting' = [emitting EXCEPT ![p] = "done"]
  /\ UNCHANGED <<phase, runtime, broken, lock, queue, worker, host, ledger>>

\* The queue stays full for pluginEventEnqueueWait, or the controller stops.
EmitTimesOut(p) ==
  /\ Waits(p) /\ (Full(p) \/ phase = "closed")
  /\ emitting' = [emitting EXCEPT ![p] = "done"]
  /\ UNCHANGED <<phase, runtime, broken, lock, queue, worker, host, ledger>>

-----------------------------------------------------------------------------
(* Host processes. *)

Output(q) == LET p == Owner[q] IN
  /\ process[q] = "running" /\ sent[q] < MaxOutput
  /\ sent' = [sent EXCEPT ![q] = @ + 1]
  /\ \/ HasSpace(p) /\ queue' = [queue EXCEPT ![p] = Append(@, OutputOf(q))]
     \/ ~HasSpace(p) /\ UNCHANGED queue
  /\ UNCHANGED <<phase, runtime, broken, lock, emitting, worker, process, ledger>>

\* The process ends and its output is drained; its exit is to be enqueued.
Exit(q) ==
  /\ process[q] = "running"
  /\ process' = [process EXCEPT ![q] = "exiting"]
  /\ early' = IF runtime[Owner[q]] \in {"loading", "loaded"} THEN early \cup {q}
              ELSE early
  /\ UNCHANGED <<phase, runtime, broken, lock, emitting, queue, worker, sent,
                 handled, lost>>

EnqueueBeyond(q) == LET p == Owner[q] IN
  /\ process[q] = "exiting"
  /\ process' = [process EXCEPT ![q] = "done"]
  /\ queue' = [queue EXCEPT ![p] = Append(@, ExitOf(q))]
  /\ UNCHANGED <<phase, runtime, broken, lock, emitting, worker, sent, ledger>>

EnqueueFirst(q) == LET p == Owner[q] IN
  /\ process[q] = "exiting" /\ HasSpace(p)
  /\ process' = [process EXCEPT ![q] = "done"]
  /\ queue' = [queue EXCEPT ![p] = <<ExitOf(q)>> \o @]
  /\ UNCHANGED <<phase, runtime, broken, lock, emitting, worker, sent, ledger>>

Enqueue(q) == LET p == Owner[q] IN
  /\ process[q] = "exiting" /\ HasSpace(p)
  /\ process' = [process EXCEPT ![q] = "done"]
  /\ queue' = [queue EXCEPT ![p] = Append(@, ExitOf(q))]
  /\ UNCHANGED <<phase, runtime, broken, lock, emitting, worker, sent, ledger>>

\* An exit is given up like any callback that finds no space in time.
EnqueueTimesOut(q) ==
  /\ process[q] = "exiting" /\ (Full(Owner[q]) \/ phase = "closed")
  /\ process' = [process EXCEPT ![q] = "done"]
  /\ lost' = [lost EXCEPT ![q] = IF phase = "closed" THEN "stopping" ELSE "full"]
  /\ UNCHANGED <<phase, runtime, broken, lock, emitting, queue, worker, sent,
                 handled, early>>

-----------------------------------------------------------------------------
(* The worker of a queue. *)

Take(p) ==
  /\ worker[p].step = "idle" /\ queue[p] # <<>>
  /\ worker' = [worker EXCEPT ![p] =
                  [step |-> "await", event |-> Head(queue[p]), late |-> FALSE]]
  /\ queue' = [queue EXCEPT ![p] = Tail(@)]
  /\ UNCHANGED <<phase, runtime, broken, lock, emitting, host, ledger>>

\* The callback in the worker's hands goes no further.
Dropped(p, why) ==
  /\ worker' = [worker EXCEPT ![p] = Waiting]
  /\ LET e == worker[p].event IN
       lost' = IF e.kind = "exit" THEN [lost EXCEPT ![e.process] = why] ELSE lost

HasRuntimeEarly(p) == runtime[p] \in {"loaded", "ready"}
HasRuntime(p) == runtime[p] = "ready"

AwaitDone(p) ==
  /\ worker[p].step = "await" /\ HasRuntime(p)
  /\ worker' = [worker EXCEPT ![p].step = "lock"]
  /\ UNCHANGED <<phase, runtime, broken, lock, emitting, queue, host, ledger>>

\* There is no runtime and none is being loaded.
AwaitNothing(p) ==
  /\ worker[p].step = "await" /\ runtime[p] \in {"closing", "stopped"}
  /\ Dropped(p, IF phase = "serving" THEN "unready" ELSE "stopping")
  /\ UNCHANGED <<phase, runtime, broken, lock, emitting, queue, host, handled, early>>

\* Plugins are still being loaded after pluginLoadEventWait.
AwaitTimesOut(p) ==
  /\ worker[p].step = "await" /\ phase = "loading"
  /\ Dropped(p, "unready")
  /\ UNCHANGED <<phase, runtime, broken, lock, emitting, queue, host, handled, early>>

\* The time of a callback runs while the worker waits for the mutex.
Expire(p) ==
  /\ worker[p].step = "lock" /\ worker[p].event.kind = "output" /\ lock[p] # "free"
  /\ worker' = [worker EXCEPT ![p].late = TRUE]
  /\ UNCHANGED <<phase, runtime, broken, lock, emitting, queue, host, ledger>>

\* The mutex is the worker's.  A module that is closed fails the callback, and a
\* call whose context has ended closes the module.
Deliver(p) == LET w == worker[p] IN
  /\ w.step = "lock" /\ lock[p] = "free"
  /\ \/ /\ p \in broken \/ w.late
        /\ broken' = broken \cup {p}
        /\ Dropped(p, "broken")
        /\ UNCHANGED <<lock, emitting, handled>>
     \/ /\ p \notin broken /\ ~w.late
        /\ Holds(p, "event")
        /\ worker' = [worker EXCEPT ![p].step = "run"]
        /\ handled' = IF w.event.kind = "closed" THEN handled
                      ELSE [handled EXCEPT ![w.event.process] = w.event.n]
        /\ UNCHANGED <<broken, lost>>
  /\ UNCHANGED <<phase, runtime, queue, host, early>>

Handled(p) ==
  /\ worker[p].step = "run" /\ ~Waits(p)
  /\ Holds(p, "free")
  /\ worker' = [worker EXCEPT ![p] = Waiting]
  /\ UNCHANGED <<phase, runtime, broken, queue, host, ledger>>

HandlerTimesOut(p) ==
  /\ worker[p].step = "run" /\ ~Waits(p)
  /\ Holds(p, "free")
  /\ worker' = [worker EXCEPT ![p] = Waiting]
  /\ broken' = broken \cup {p}
  /\ UNCHANGED <<phase, runtime, queue, host, ledger>>

-----------------------------------------------------------------------------
(* Shutdown: no runtime is found any more, then each one is closed, then the *)
(* processes are waited for, for a bounded time, and the workers stopped.    *)

Close ==
  /\ phase = "serving"
  /\ phase' = "closing"
  /\ runtime' = [p \in Plugins |-> IF runtime[p] = "ready" THEN "closing"
                                   ELSE runtime[p]]
  /\ UNCHANGED <<broken, lock, emitting, queue, worker, host, ledger>>

CloseRuntime(p) ==
  /\ runtime[p] = "closing" /\ lock[p] = "free"
  /\ Holds(p, "close")
  /\ UNCHANGED <<phase, runtime, broken, queue, worker, host, ledger>>

RuntimeClosed(p) ==
  /\ runtime[p] = "closing" /\ lock[p] = "close" /\ ~Waits(p)
  /\ Holds(p, "free")
  /\ runtime' = [runtime EXCEPT ![p] = "stopped"]
  /\ broken' = broken \cup {p}
  /\ UNCHANGED <<phase, queue, worker, host, ledger>>

Stop ==
  /\ phase = "closing" /\ \A p \in Plugins : runtime[p] = "stopped"
  /\ phase' = "closed"
  /\ UNCHANGED <<runtime, broken, lock, emitting, queue, worker, host, ledger>>

\* A stopped worker takes no further callback.
Stopped ==
  /\ phase = "closed"
  /\ \A q \in Processes : process[q] \in {"none", "done"}
  /\ \A p \in Plugins : worker[p].step = "idle"
  /\ UNCHANGED vars

-----------------------------------------------------------------------------
WorkerStep(p) ==
  AwaitDone(p) \/ AwaitNothing(p) \/ Handled(p)

Emission(p) == Emitted(p) \/ EmitTimesOut(p)

LoadStep == Publish \/ \E p \in Plugins : Load(p) \/ Loaded(p)

CloseStep == Stop \/ \E p \in Plugins : RuntimeClosed(p)

Next ==
  \/ LoadStep \/ CloseStep \/ Close \/ Stopped
  \/ \E p \in Plugins :
       \/ Call(p) \/ CallReturns(p) \/ CallTimesOut(p) \/ Emit(p) \/ Emission(p)
       \/ Take(p) \/ WorkerStep(p) \/ AwaitTimesOut(p) \/ Expire(p) \/ Deliver(p)
       \/ HandlerTimesOut(p) \/ CloseRuntime(p)
  \/ \E q \in Processes :
       StartProcess(q) \/ Output(q) \/ Exit(q) \/ Enqueue(q) \/ EnqueueTimesOut(q)

Spec == Init /\ [][Next]_vars

(* Fairness: goroutines run, a timer ends every wait for space, loading comes*)
(* to an end, handlers return, and the runtime's mutex is handed to whoever  *)
(* waits for it although browsers keep calling (sync.Mutex starves nobody).  *)
Fairness ==
  /\ WF_vars(LoadStep) /\ WF_vars(CloseStep)
  /\ \A p \in Plugins :
       /\ WF_vars(CallReturns(p)) /\ WF_vars(WorkerStep(p)) /\ WF_vars(Take(p))
       /\ WF_vars(Emission(p))
       /\ SF_vars(Deliver(p)) /\ SF_vars(CloseRuntime(p))
  /\ \A q \in Processes :
       WF_vars(Enqueue(q) \/ EnqueueTimesOut(q))

FairSpec == Spec /\ Fairness

-----------------------------------------------------------------------------
(* Properties. *)

TypeOK ==
  /\ phase \in {"loading", "serving", "closing", "closed"}
  /\ runtime \in [Plugins -> Runtimes]
  /\ broken \subseteq Plugins
  /\ emitting \in [Plugins -> {"no", "waiting", "done"}]
  /\ lock \in [Plugins -> Holders]
  /\ queue \in [Plugins -> Seq(Events)]
  /\ \A p \in Plugins : Len(queue[p]) <= QueueSize
  /\ worker \in [Plugins -> Workers]
  /\ process \in [Processes -> {"none", "running", "exiting", "done"}]
  /\ sent \in [Processes -> 0 .. MaxOutput]
  /\ handled \in [Processes -> 0 .. MaxOutput + 1]
  /\ early \subseteq Processes
  /\ lost \in [Processes -> Reasons]

\* "Host callbacks are delivered per plugin in the order they were produced"
\* (docs/PLUGIN_API.md:292): a handler never gets a callback of a process after
\* a later one of it, so nothing of a process comes after its exit, and no
\* callback is handled twice.
DeliveredInOrder ==
  [][\A p \in Plugins : LET e == worker[p].event IN
       worker[p].step = "lock" /\ worker'[p].step = "run" /\ e.kind # "closed"
         => handled[e.process] < e.n]_vars

\* Plugin code is never entered twice at a time, and a handler only in a
\* backend whose init has returned.
HandlersExcluded ==
  \A p \in Plugins :
    /\ worker[p].step = "run" <=> lock[p] = "event"
    /\ lock[p] = "event" => runtime[p] \in {"ready", "closing"}
    /\ runtime[p] = "loading" <=> lock[p] = "init"

\* "Callbacks produced while a backend is still initializing [...] wait for
\* initialization instead of being lost" (docs/PLUGIN_API.md:294).
EarlyExitWaits ==
  \A q \in early : lost[q] = "unready" => runtime[Owner[q]] # "ready"

\* "Output callbacks are dropped when the plugin falls behind; process exit and
\* scheduler callbacks wait for space" (docs/PLUGIN_API.md:293): an output
\* callback that waited too long for its turn costs that callback only.
LateOutputIsDropped ==
  [][\A p \in Plugins : worker[p].step = "lock" /\ worker'[p].step = "idle"
       => (p \in broken' => p \in broken)]_vars

\* A call returns although a host call in it waits for space in a queue that
\* only the plugin's own worker, which waits for the call to return, empties.
CallReturned == \A p \in Plugins : lock[p] = "call" ~> lock[p] # "call"

\* Every process that ends is done with in the end, and its exit is given to
\* the plugin or given up for good, whatever the plugin and the queue do.
ExitSettled ==
  \A q \in Processes : process[q] = "exiting" ~>
    (handled[q] = sent[q] + 1 \/ lost[q] # "no" \/ phase = "closed")
=============================================================================
