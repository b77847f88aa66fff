# RunPilot in TLA+

A verification development of RunPilot, a host-management application in Go whose features are plugins (WebAssembly backends run by wazero) over a small core. The modules follow the source; the comment above each definition and the `map` of `PROJECT.json` say which lines it stands for.

Paths below are relative to the repository.

## The system

| Part | State | Operations | Hard because | Correct when | Module |
| --- | --- | --- | --- | --- | --- |
| Tasks plugin (`plugins/tasks/backend`) | definitions in storage; per task state, desired, pending start, restart count; the runs it believes are live | create, update, delete, start, stop, restart, run; callbacks `process.exit`, `scheduler.fired`; load, shutdown | callbacks are late, lost or stale; the host moves between two host calls of one handler; crash and restart | its ledger, its runs and its state agree with the host | `TasksPlugin` |
| Plugin processes (`internal/core/plugin_processes.go`) | process table, captured executions, notifiers | start, terminate, timeout, end, close | several goroutines and timers per process | one process per log, one final exit, all of a log announced | `PluginProcesses` |
| Plugin event delivery (`internal/core/controller.go`, `internal/plugins/runtime.go`) | runtimes, a queue and a worker per plugin, a mutex per runtime | load, publish, call, deliver, close | a host call may emit into the queue of the plugin that makes it; contexts that expire while they wait | order, exclusion, no callback lost that must not be | `EventDelivery` |
| Job scheduler and runner (`internal/scheduler`, `internal/jobs`) | loops, cancel channel, active runs | save, delete, run, reload | reloads overlap; loops outlive reloads | loops are those of the configuration; skip skips | `JobScheduler` |
| Execution history (`internal/history/owned.go`) | a row and a log file per execution | begin, finish, abandon, append, capture, prune | file and row are written apart; retention beside writes | implements a ledger; no row without a log | `ExecutionHistory`, `ExecutionLedger` |
| Process sessions (`internal/core/plugin_process_sessions.go`, `internal/processsession`) | a process on a pseudo-terminal, its reader and waiter, timers | create, write, resize, terminate, finish | end, grace, lifetime, failed input and failed delivery race | the whole output, then one end | `ProcessSessions` |
| Network streams (`internal/core/plugin_network_streams.go`) | records, connections, limits | open, read, peek, write, attach, close | dial and read leave the lock | every connection has its record | `NetworkStreams` |
| Browser publications and gateways (`internal/core/browser_publication.go`) | runtimes, publications, tickets, gateways | register, remove, open, ticket, consume, attach | removals while a ticket or socket is in use | one answer per request, one browser per gateway | `BrowserPublications` |
| HTTP gateway (`internal/httpgateway`, `plugins/web-apps/web/tunnel.js`) | exchanges, channels, windows | frames in both directions | flow control both ways; both ends may finish first | the host and its own worker never break each other's rules | `HttpExchanges`, `WebSocketChannels` |
| Browser sessions (`internal/web/auth.go`, `auth_sessions.go`) | sessions in memory and on disk, sockets, tickets | log in, revoke, expire, ticket, socket | sockets register while a session ends; saves fail; two mutexes | what is revoked stays revoked | `WebSessions` |
| Application socket (`internal/web/application_ws.go`, `internal/websocketsecure`) | handshake, sequence numbers, attachments | handshake, ask, answer, event, stream | three kinds of goroutine write to one connection | the browser can follow what it is told | `ApplicationSocket` |
| Configuration (`internal/config`) | the configuration in memory and on disk, the data root, a queued relocation | update, claim, relocate, start | saves fail; a relocation is cut anywhere | nothing told is lost | `DataRoot` |
| Plugin packages (`internal/plugins`, `internal/core/plugin_registry.go`) | releases on disk, discovery, what is active | install, update, enable, uninstall, reload, start | activation waits for a restart; uninstall is a sequence | what runs keeps its files; a restart is told | `PluginPackages` |
| Docker plugin (`plugins/docker`, `internal/core/docker_migration.go`) | projects folder, Compose files, terminals; Docker's containers | create, file, delete, actions, terminals, migration | other tools use Docker; the folder moves; crashes | other directories' containers are left alone | `DockerPlugin` |
| Remote plugin (`plugins/remote`) | targets, sessions, diagnostics | save, open, close | a session is made in steps that fail | what is open can be listed and closed | `RemotePlugin`, `Guacamole` |
| Terminal plugin (`plugins/terminal`) | sessions | open, status, close, events | lost end events | no shell left behind | `TerminalPlugin` |
| Web Apps plugin (`plugins/web-apps`) | targets, publications, gateways | save, delete, open, events | restorations that fail too | mounts are those it names | `WebApps` |
| Compose manager (`internal/dockercompose`) of the server's own Docker routes | project directories, the `busy` lock | create, write, delete, actions | requests overlap and look before they lock | containers keep their project's directory | `ComposeManager` |
| Backup, storage, software, launcher, platform, service, commands, ABI and SDK | none, or the operating system's | external commands, encoding | I/O | | |

How they interact: a browser's request reaches plugin code through the application socket and `Controller.PluginCall`, which holds the runtime's mutex for the whole call. Plugin code makes host calls synchronously (`process.start`, `process.session.create`, `network.stream.open`, `browser.publication.create`, `history.begin`, ...), and the host answers later with callbacks that pass through the plugin's queue and its worker, which takes the same mutex. Hence the rule that many modules use: host calls of one plugin exclude each other, and everything else in the host goes on between two of them. A tunnelled page is served by a service worker whose frames pass a gateway. Backup jobs do not use plugins: the controller saves them and reloads the scheduler.

`PROJECT.json` lists all components, and under `hazards` what can go wrong at which line and which property covers it.

## Modules

One module models one component, with its own variables, `Init`, an action per operation or goroutine step, and its properties. What couples a component with another one is part of it as an environment action: a callback that is delivered or lost, a host call that fails, a peer, another tool. `TasksPlugin` composes a plugin with the host's process table, history, scheduler and queue; `HttpExchanges` and `WebSocketChannels` compose the host's end and the service worker's end of a tunnel; `ApplicationSocket` both ends of a socket; `DockerPlugin` the plugin, the migration at start and Docker. `ExecutionLedger` is what the history promises, and `ExecutionHistory` implements it (`LedgerImplemented`).

`MCHost`, `MCBrowser` and `MCEndings` each give several components their constants. The components of one of them share no state in the code either, apart from the rule above, so that nothing is learnt from interleaving them. Variable `part` therefore selects, in the initial state, the one component whose steps a behaviour takes, and the state space is the sum of theirs instead of their product. `MCTasksPlugin`, `MCEventDelivery`, `MCJobScheduler` and `MCWebSessions` do this for one component. `BrowserStreams` holds the part of `MCBrowser` that is the three protocols between the browser and the host: the secure socket and both tunnels of a gateway.

A module `...Proofs` extends a component with its inductive invariant and theorems, or a composition with those of all its components. `TasksPluginProofs`, `EventDeliveryProofs`, `PluginProcessesProofs` and `WebSessionsProofs` are about one component each; the last two are instantiated by two compositions, which cite their theorems through the instance. `HostProofs`, `EndingsProofs`, `StreamsProofs` and `BrowserProofs` extend `MCHost`, `MCEndings`, `BrowserStreams` and `MCBrowser`. There, each component has a part of its own, headed by a comment, whose names begin with that of the component (`NetworkDialInv`, `ComposeInv`), and the last part puts the components together.

A conjunction such as `CapturesApart` or `PluginsTidy` names its parts, which are explained in the component's module.

An operator that stands right before another one, has the same parameters and is used by no action is a faulty variant of it, of the kind a bug in the code would be. Every property of every passing run is violated when a variant listed under `mutants` takes the place of the original.

### TasksPlugin

`rt` is `plugin.runtimes`, `procs` is `plugin.procs`, `tasks`, `issued` and `def` are what the plugin keeps in storage. `open` is the host's set of unfinished executions, `host` the process table, `exits`, `fires` and `due` the callbacks not delivered yet, `timer` and `schedule` the registrations.

A handler is a chain of steps driven by `call`, one step per host call that matters, since processes end and timers fire between two host calls. `Control` begins a request with its reconciliation (`ReconcileStep` per run), and `Start`, `Stop`, `Restart`, `Run` or `Delete` ends it, possibly through `Terminate`, `TerminateFails` and `TerminateStatus`. `DeliverExit`, `RestartFired` and `TaskFired` are the callbacks. `Crash` and `Boot` are a crash of RunPilot at any step and the next start; `Shutdown` is the orderly end.

Abstractions: a run is a pair of a task and a slot, and a slot is used again once neither plugin nor host refers to the earlier run, so behaviours are unbounded. Callbacks form sets, not sequences: the host emits each from a goroutine of its own. `history.finish` succeeds, a failed `create` that leaves the state as it was is a stutter, and a storage that cannot be read is the phase `readonly`. After a crash the host knows no process. `restartCount` saturates at `CountCap`, which is at least every retry limit. `Slots` limits the runs referred to, `MaxTicks` the undelivered fires of a registration, `MaxQueue` the callbacks that wait (an exit that finds the queue full may be lost by `Forget`, as in the code).

`TasksPlugin` has its own, coarser model of the process table and the queue; it assumes of them what `PluginProcesses` and `EventDelivery` check: one exit after the end (`ExitsSettle`), callbacks and calls that exclude each other (`HandlersExcluded`), an exit callback that is handled or given up (`ExitSettled`). That link is by argument, not by refinement.

### EventDelivery

`runtime` follows each plugin from loading to `ready` and `stopped`; `lock` is `Runtime.mu`; `worker` is the goroutine `runPluginEvent` of each queue. `broken` are the plugins whose module was closed: the runtime is created `WithCloseOnContextDone`, so wazero (external) closes a module when the context of an invocation ends before or during it. A wait that a timer may end is a step that may be taken at any moment of the wait. An invocation emits at most one callback itself. Which kinds are droppable is as in `isPluginOutputEvent`.

### PluginProcesses, ExecutionHistory, ProcessSessions, NetworkStreams

The processes, executions, sessions and streams of one plugin, whose host calls exclude each other.

- `PluginProcesses`: `step` is how far the goroutine of a process has come, from the reservation of its execution to the removal of its record; terminate, timeout, readers and the notifier's timer run between its steps. `held` are processes whose output pipe a grandchild keeps open. The notifier's timer has the states `off`, `set` and `fired`, because `stop` may come when it has fired and its function has not yet taken the lock.
- `ExecutionHistory`: `row` and `logs` are the database and the files, `hcall` a begin or a pruning between its two halves, `capture` an open log writer with the size it counts and its marker. Sizes are in chunks and `LogCap` is the cap. `Crash` and `Boot` come at any step.
- `ProcessSessions`: `reader` and `waiter` are the two goroutines, `feed` what the plugin was told, `ending` how the session ends. `unkillable` are the processes RunPilot may not signal, the exception `FeedIsComplete` makes.
- `NetworkStreams`: `netCall` is the open, read or peek that has left the lock, `deadline` the connections with a read deadline, `retired` the closed records in their order. The global limits are the same check as the owner's and left out.

### DataRoot, PluginPackages

- `DataRoot`: `content` is each root's file (absent, partial, whole), `memory` the store's configuration, `acked` what requests were told is saved where. A relocation is queued while RunPilot serves and applied between its end and its next start, one file operation per step, with crashes between any two.
- `PluginPackages`: a release is its number; `releases` are the directories, `plugins` what discovery found, `live` what was activated and from which directory, `restart` what the user is told. `torn` remembers plugins whose uninstall failed half way.

### WebSessions, ApplicationSocket, BrowserPublications, HttpExchanges, WebSocketChannels

- `WebSessions`: `live` and `stored` are the table and its file; saves may fail; `revoking` is a revocation between the table and its sockets. `request` are ticket requests with the mutex they hold, in the order of the code's two tables. A session id is never issued again.
- `ApplicationSocket`: `writeSeq`, `readSeq` and `toBrowser` are the numbers and frames of the connection; the three writers are the loop that answers, the forwarder of plugin events and one forwarder per attached stream. Sealing is a number and a content; keys are left out.
- `BrowserPublications`: publications, runtimes, gateways and tickets as the code's maps; ids are never reused. `serving` and `announced` tell who serves a gateway and which ends the plugin was told.
- `HttpExchanges`, `WebSocketChannels`: two queues of frames, the windows of both ends, and `broken` or `failed`, why the gateway ended. Sizes are in units of a window.

### The plugins and the Compose manager

- `WebApps`, `TerminalPlugin`, `RemotePlugin`: the plugin's tables against what the host holds for it; each host call may fail, and ends by themselves come as events that may be lost where the code can lose them.
- `Guacamole`: the pure reader of one instruction from a stream that arrives in pieces, against the encoder: what was sent is what is read, and what follows is untouched.
- `DockerPlugin`: `folder` is the projects folder of the plugin's settings, `docker` the containers by project name and working directory label, `call` the request between its check and its command, `phase` and `todo` the migration at start, one file operation per step with crashes between.
- `ComposeManager`: `dir`, `containers` and `busy`, and per request where it is: the look at the directory, the lock, the command, the release. Several tools' containers of one name are one value.

## Runs

| Run | Instance | Shows |
| --- | --- | --- |
| `tasks` | one task, continuous (three restart policies) or scheduled (enabled and overlap both ways), three runs; 2.1M states | the ledger, one process, true state, armed restarts, pending starts, the active count, no start an administrator did not want, skip never overlaps |
| `tasks_liveness` | one continuous task, three runs, fairness; 125k states | exits settle without their callback; restarts happen; stops complete |
| `tasks_oneshot` | one continuous task, four runs | violation: a stale fire consumes the delay registered after it |
| `delivery` | one plugin, two processes with an output and an exit each, queue of two, fairness; 338k states | callbacks are handled in order and once; plugin code is never entered twice or before it is ready; a call that emits into its own full queue returns; exits are handled or given up |
| `delivery_early_exit` | two plugins, one process | violation: an exit produced during init is dropped while another plugin loads |
| `delivery_late_output` | two plugins, one process | violation: a late output callback closes the plugin's module |
| `jobs_concurrent` | one job, two editors | violation: two reloads at a time leave a loop that nobody can stop |
| `host` | five components, see below; 1.6M states | captures stay apart and exits settle; the history is whole and implements the ledger; connections have records; configuration and packages survive failures, crashes and restarts |
| `browser` | eleven components; 1.6M states | revocations hold; one answer and one browser; frames in order; windows kept; nothing left behind by the plugins and the Compose manager; one instruction at a time; other Docker projects left alone |
| `endings` | four components, fairness; 153k states | reloads return and loops are those of the configuration; ends are reported and all of a log announced; a session tells all of its output; what must end ends |
| `ticket_answered` | one session, one request | violation: a request for an application ticket waits for itself |
| `channels_independent` | two channels | violation: a late credit for one closed channel ends the whole gateway |

Why these bounds are enough, component by component:

- Tasks share nothing but the queue and the handler in progress, so one task with the queue's bound reaches the interleavings; three runs let one be live, one ended but tracked or undelivered, and one be started anew. A queue of two is the smallest that can be out of order, and two processes and a call fill it and compete for its space. The violations of loading need a second plugin that loads after the first.
- Two processes suffice for a conflict about one execution. In `host` a log grows by one chunk, since its properties compare processes; in `endings`, where growth must be announced, by two.
- Three executions with a retention of one let a pruning be under way while the next one begins. Three streams with two open ones and two records reach both limits and an eviction. The processes, executions and streams of an instance are alike but for their number, so constraint `InOrder` keeps the behaviours that take them in their order; it is the symmetry reduction of these parts, written as an order because they are numbers in the models. `InOrder` cuts no behaviour of `DataRoot` and `PluginPackages`.
- Two roots allow a relocation, a refused one and one back. One plugin with three releases, of which one is incompatible, allows an update, a downgrade by uninstall and install, and a release that cannot run; two retired batches allow two uninstalls between starts.
- Three sessions with a limit of two push one out. Two requests reload at the same time; two generations let one replace the other; two owners, publications, tickets and browsers are the fewest that can meet in one gateway.
- A window of two chunks of at most two units and a body of three let a body be larger than a window, end inside a chunk and wait for credit. Two channels with a limit of one reach the limit and leave a late frame for the closed one.
- Three marks, two gates, three tabs, three feeds and two scopes are one more than the limit each. In `Guacamole` the window of a peek is shorter than an instruction, and its trailers look like the beginning of one.
- One name is enough for `DockerPlugin`, since projects meet only by name; the folder setting makes the second directory, and `External` stands for projects of other tools. Two starts let a migration be cut and resumed. Two requests suffice for `ComposeManager`; three (163k states) show nothing more.

`host`, `browser` and `endings` switch deadlock checking off, and so do the two last violations: ids are never reused there, as in the code, so a bounded history really ends when its ids are used up, every process has ended and nothing is under way. In the other runs, where behaviours are unbounded, it stays on, and where a system may end (`closed`) the module has a step for it.

## Fairness

- `TasksPlugin`: weak fairness of every step of a handler in progress, of the death of a killed process, of restart timers and of the removal of ended runs (each done by a goroutine of its own or by the kernel). Strong fairness of reconciling requests and of deliveries, because they compete for the runtime's mutex and Go's `sync.Mutex` hands over to a waiter after one millisecond. `Check` is the reconciliation that a timer of the plugin asks for every 30 seconds and every list request repeats.
- `EventDelivery`: weak fairness of workers, loading, emissions and the timers that end waits; strong fairness of `Deliver` and `CloseRuntime`, again for the mutex. Calls of plugin code return or time out.
- `PluginProcesses`: weak fairness of the waiter, the emitter, the interval, the notifier's timer, and the death of killed processes. A process need not end by itself, and a grandchild need not close the pipe.
- `JobScheduler`: weak fairness of a reload's steps and of the end of a loop whose channel is closed. When the timer fires too, Go's `select` chooses at random, so the cancel case is taken in the end; the loop's next timer is in the future.
- `ProcessSessions`: weak fairness of the session's own goroutines, which is all `DeadSessionEnds` needs.
- `WebSessions`: weak fairness of handlers, of a revocation that has begun, of expiry and of the deadline of a socket's read: goroutines run and time passes. Logging in, out and asking are the user's and not fair.

In `endings` the fairness of all components is assumed at once. The components that do not run stay in an initial state in which none of their fair actions is enabled, so it constrains only the one that runs.

## Proofs

Eight modules hold theorems. All are proved for every value of the constants that satisfies the named assumption of the component: any number of tasks, slots, processes, executions, streams, roots, plugins, releases, sessions, tickets, windows and projects, and any bound. The assumptions only give the constants their types, make the sets finite that the code counts or sorts, keep `None` and the like apart from the data, and make a window at least as large as what is sent at once; the runs evaluate them.

| Module | Component | Proved, besides the types |
| --- | --- | --- |
| `TasksPluginProofs` | `TasksPlugin` | `LedgerConsistent`, `OneProcess`, `StateMatchesProcess`, `RestartingIsArmed`, `PendingIsStopping`, `ActiveIsTracked`; the action properties `NoUnwantedStart` and `SkipNeverOverlaps` |
| `EventDeliveryProofs` | `EventDelivery` | `HandlersExcluded`; the action property `DeliveredInOrder` |
| `PluginProcessesProofs` | `PluginProcesses` | `CapturesApart`, `ExitsSettle`, and `FinalSizeAnnounced`, the safety part of `ProcessesSettle` of run `endings` |
| `WebSessionsProofs` | `WebSessions` | `WebSessionsKept` |
| `HostProofs` | `ExecutionHistory` | `HistoryKept`, and that the history implements `ExecutionLedger` |
| | `NetworkStreams` | `ConnectionsAreRecorded` |
| | `DataRoot` | `RootKept` |
| | `PluginPackages` | `PackagesKept` |
| | `MCHost` | every property of run `host` |
| `EndingsProofs` | `JobScheduler` | `SkipNeverOverlaps`, `ActiveIsRunning`; `JobsApart` when requests come one at a time |
| | `ProcessSessions` | `FeedIsComplete` |
| | `MCEndings` | every invariant of run `endings`; `WebSessionsKept` |
| `StreamsProofs` | `ApplicationSocket` | `SocketInOrder` |
| | `HttpExchanges` | `WindowsKept` |
| | `WebSocketChannels` | `ChannelsKept` |
| `BrowserProofs` | `BrowserPublications` | `PublicationsKept` |
| | `WebApps` | `MountsAreNamed`, `GatewaysAreSessions` |
| | `TerminalPlugin` | `NoShellLeftBehind` |
| | `RemotePlugin` | `StreamsAreSessions`, `DiagnosticsAreKept` |
| | `DockerPlugin` | `ShellsKnown`; the action properties `OthersLeftAlone` and `MigratedWhole` |
| | `ComposeManager` | `ProjectsKept`, `BusyIsHeld` |
| | `MCBrowser` | every property of run `browser` but `ReadsOneInstruction` and the types of `Guacamole` |

So every property of the passing runs that is not liveness is a theorem, but for those of `Guacamole`. `JobsApart` has a hypothesis, `SchedulerOneEditor`: at most one request that saves or deletes a job at a time. It is the condition run `endings` is checked under (`Editors` has one element), and it is needed: with two requests the code loses a cancel channel, which is the disagreement run `jobs_concurrent` shows. What does not need it, `SkipNeverOverlaps` and `ActiveIsRunning`, is proved without.

Each property follows from an invariant (`IInv`, `Inv` or the conjunction the lemma `Invariance` names) made of the types and of named parts, of which the proof shows that it holds initially and that every step keeps it. TLC checked each before it was proved. The properties alone are not inductive; the parts say what the code relies on without saying so. The names below are those of the components; in the modules that hold several components a name carries its component in front (`ShellOrderly`, `DockerCallKept`).

- Tasks. `OneProcess` speaks of live processes and the code looks only at `rt.state`, so the invariant says that live processes are tracked (`LedgerInv`), that one run of a continuous task is tracked at most (`OneTracked`), and that the state tells whether one is (`StateMatchesProcess`). Half-done handlers break the last one on purpose: `CallInv` says what the handler in progress still owes. `TimerOwner` and `FiresInv` say whom registrations and fires belong to, and `UntouchedInv` that a task that does not exist has left no trace. The second half (`StartInv`) is about starts. `SignalledInv`: a stopping task's process was signalled, or the handler at work has not come to its terminate and would put back `running`; this is why a failed terminate that puts back `stopping` leaves no task waiting for a process nobody signalled. `WantedInv`: `desired` or a remembered restart implies that the administrator's last word was a start; every automatic start checks one of the two, so it is wanted. `ActiveIsTracked` counts with `Cardinality`; that a task's runs are as finite as its slots is `RunsOfFinite`.
- Delivery. `ExclusionInv` adds to `HandlersExcluded` that a worker at the mutex has seen its runtime and that a runtime which is gone has a closed module, so that a worker that gets the mutex late runs nothing. `OrderInv` orders what a queue and its worker hold, and places it between what was handled and what the process produced.
- Processes. `CaptureInv` counts the reservation of an execution from its begin to its release, failed starts included. `ExitInv` says that nothing is buffered once the readers are drained and that nobody changes the flags after the exit was written, late terminates and timeouts included. `NoticeInv`: what is not pending was announced.
- History. `CallInv` orders file and row of a begin or prune that is under way. `RetentionInv` is the reason that a list stays the latest executions: what is gone, or going, has as many newer rows as the retention keeps, and later prunes remove only older ones. The proof needs the oldest and newest of a finite set of executions, by a well-founded argument on cardinalities (`Greatest`). The refinement maps a row to an entry of the ledger, a step at a time, with stutters for files, captures and half-done calls.
- Streams of plugins. `DialInv` says that a record being dialled has no state yet, so that only its own open disposes of its connection, `RetiredInv` that the sequence of closed records names each once, which is what an eviction relies on.
- Configuration. `StoreInv` says what a save replaces and that it takes nothing back, `RelocationInv` which file operation a relocation has done at each step. With them `RootKept` survives a crash after any of these operations.
- Packages. `FiniteInv` lets the newest release and the number of batches be well defined (`NewestVersion`). `RestartInv` says that without a notice what a restart would activate is what is active, but for an uninstall between its two steps and for plugins whose uninstall failed.
- Browser sessions. `StoreKept`: as many sessions count as the limit allows, in the table and in the file, and a session in the file that has not expired is in the table or is one whose user was told that it is revoked, which a restart must then find. `TicketsKept`: a ticket of a plugin that can be used is remembered and belongs to a session, and a socket in use carries only tickets of its own session.
- Jobs. `RunsAreSaid`: the runs of a job that was never given the policy `allow` are the one run the runner says it is in, or none. `AloneInv` is about the one request: when no reload is under way the loops are those of the jobs as compiled, on a channel in force; once the jobs are saved no loop is of an older channel; what it compiled are the jobs that are stored; and no loop is left when it starts the new ones.
- Process sessions. `Orderly` says for each session how far reader, waiter and exit have come (`NotStarted`, `Works`, `Over`). While nothing failed, the plugin was told the output up to what the reader still holds, in order, and the exit comes last, once.
- Secure socket. `Chain` threads the answers through everything on the way, from what the page got over the frames to it, the frame held by a writer, the queue of the loop, the pending first frame and the requests to the server: their numbers run on without a gap. `Numbered` does the same for sequence numbers and says where one may be missing, after a write that was given up or frames the page dropped. `Attached` and `Ended` say that a stream's frames lie between its two notices wherever they are.
- Exchanges and channels. Both are accounts: credit at one end, frames on their way, buffered bytes and credit on its way back add up to the window at most. `Weighs` says what the frames of a sequence carry together, by a function that counts them up rather than by a recursive sum; `Flow` is such an account, with a lemma for each way a frame can join or leave it (`FlowGrows`, `FlowShrinks`, `FlowStays`, `FlowTurned`). The other parts say that an exchange's frames follow its start and that channels are opened in the order of their ids.
- Publications. `Placed`: mounts do not overlap, and each has a worker of its own or the one runtime of its owner. `Behinds`: a gateway is behind a publication of its owner, at the base path that is pinned. `TicketsKept`: a ticket is for a gateway whose end was not told. `BrowsersKept`: a gateway that a browser is attached to has no other browser, and counts as attached until its end is told. The ids of publications that were spent are not given again.
- Plugins. Each invariant relates the plugin's table to the host's, with the events that are still on their way as the only difference: what ended and is still listed will be told. `RemotePlugin` keeps its diagnostic scopes in a sequence that repeats none and names every scope in use (`Scoped`, `Used`), and an open stream has exactly one session (`Streams`). In `WebApps` the host's publications are those the plugin names, each at its target's mount (`Serves`), and a gateway is a session on one of them (`Gated`). In `TerminalPlugin` an exit on its way is that of a shell that has ended (`ExitsAreOver`).
- Docker. `CallKept`: between the check of a request and its command, the check still says what the command relies on: the project's own folder was compared, and of the containers it knows either none is left or one is the project's own. The migration stages one project at a time (`StagedKept`), and its rename alone puts files in place, so `MigratedWhole` needs no more than the types.
- Compose. `LockKept`: a project is busy with exactly one request. `OursKept`: RunPilot's containers have their Compose file. `WorkKept`: what a command or a delete found of directory and containers still holds, but for what other tools bring up.

A composition's last part shows that a behaviour of it is one of each component (`ProcessingRuns`, `SocketRuns` and so on): a step is a step of the component that runs or leaves its variables alone. The components' theorems then hold of it. The assumption of a component is a conjunct of the composition's.

The work on `PackagesKept` showed that the guard of `SetEnabled` in `PluginPackages` did not say what the code says: a conjunction before an implication on one line made the other conjuncts part of its hypothesis, which admitted more steps than `SetPluginEnabled` has. The guard is a list of conjuncts now. For the proofs about the browser, `AnsweredInOrder` of `ApplicationSocket` says with quantifiers what it said with a filter of the sequence, and the parser of `Guacamole` is a recursive function instead of a recursive operator.

Only model-checked:

- Liveness (`ExitSettles`, `RestartHappens`, `StopCompletes`, `CallReturned`, `ExitSettled`, and the four temporal properties of `endings` but for `FinalSizeAnnounced`): fairness and `ENABLED` are out of the prover's reach.
- `ReadsOneInstruction` and the types of `Guacamole`: what its reader computes for every input needs induction over the data, which no installed prover does. `BrowserTypesCorrect` is therefore about the behaviours of the other parts.

## Disagreements found

1. `plugins/tasks/backend/plugin.go:454`: `scheduler.fired` names the registration by an identifier that is used again, so a queued fire of a cancelled delay consumes the next delay and restarts the task without its backoff (`tasks_oneshot`).
2. `internal/core/controller.go:309`: a callback produced during a plugin's init waits 30 seconds for all plugins to load and is then dropped; `docs/PLUGIN_API.md:294-296` says that it waits instead of being lost (`delivery_early_exit`).
3. `internal/core/controller.go:286`: the 250 ms of an output callback include the wait for the mutex, and an invocation with the expired context closes the module; `docs/PLUGIN_API.md:292-294` speaks of dropping the callback only (`delivery_late_output`).
4. `internal/scheduler/scheduler.go:138`: two reloads at a time lose a cancel channel and with it the means to stop its loops (`jobs_concurrent`).
5. `internal/web/application_ws.go:51`: the ticket handler holds `applicationTicketMu` while it asks for the session, and the removal of a session that has just expired locks the same mutex: the handler waits for itself (`ticket_answered`).
6. `internal/httpgateway/websocket.go:124`: a credit or data frame for a channel the host has just removed ends the gateway with all its exchanges and channels; `docs/PLUGIN_API.md:733-734` says that individual failures do not cancel unrelated ones (`channels_independent`).

Others were met while modelling and have no run of their own:

- Log cap: `docs/PLUGIN_API.md:283-286` caps each log at 16 MiB. A capture counts from the size it found when it opened the log; what the plugin appends meanwhile is not counted, the marker is written beyond the cap, and a capture opened again on a full log writes another marker (`internal/history/owned.go:379`).
- Read bound: `docs/PLUGIN_API.md:320` says that reads wait at most 5 seconds. A browser that attaches to the stream during a read clears its deadline (`internal/core/plugin_network_streams.go`, `attach`), and the read then waits for the peer.
- Pinned assets: `docs/PLUGIN_REGISTRY.md:203-205` pins frontend assets to the activation at startup. After an uninstall, an install of another release and a second uninstall, they are looked for in the later batch and not found until the restart (`internal/plugins/manager.go:334`). `FilesKept` therefore speaks of the files, which do stay.
- Cron: `next` searches one year and returns the end of the search when nothing matches, as for 29 February in most years, so that the job fires at a time its expression does not match (`internal/scheduler/scheduler.go:387`).
- Restart delay: "capped at the maximum" (`plugins/tasks/backend/model.go:201`) holds from the first doubling on; an initial delay above the maximum is used as it is for the first restart.
- Legacy Docker projects: a migrated project that the user deletes is copied again at the next start, since only its directory says that it was migrated (`internal/core/docker_migration.go`).
- Secure socket: a write given up at its deadline has consumed its number, after which the browser refuses the connection; and frames that come between the server's hello and the browser's key derivation are numbered but dropped by the page (`internal/web/static/secure-websocket.js:37`). `SocketInOrder` makes these two exceptions.
- Restart policy: `restartCount` is never reset by a process that ran well, so the retry limit counts over the whole uptime of a task (`plugins/tasks/backend/plugin.go:440`).

## Not modelled

Of the components above: passwords and the login limiter, cookies; a data root given with `--data-dir`, and the validation and migration of `config.yaml`; rewriting of headers, cookies and HTML in the gateway; the order of instructions of the RDP handshake; Docker volumes, networks, images, snapshots and logs; a Compose command that outlives its request or RunPilot; package validation, downloads and version ranges; the legacy job history; `process.run`; reading of logs. Process ids and their reuse belong to the operating system.

Whole components: backup operations, storage and software browsers, launcher, platform, services and commands run external programs or the operating system and keep no state to reason about; the plugin ABI and SDK encode calls. `PROJECT.json` gives the reason for each.

Most of `internal/web/server.go` is routing and JSON around controller calls, each of which is an action of the module that owns the state.

## Plan

The components whose state machines matter are modelled, and what is safe about them is proved. What remains, in order:

1. The refinement of the process table and queue of `TasksPlugin` by `PluginProcesses` and `EventDelivery`, which is an argument so far.
2. A pure module for the next match of a cron expression and the restart delay.
3. The legacy job history and the validation of the configuration.
4. `FeedIsComplete` and `SocketInOrder` as refinements of an abstract stream, which both are close to.
