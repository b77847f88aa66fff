------------------------- MODULE EventDeliveryProofs -------------------------
(***************************************************************************)
(* Proofs about the delivery of host callbacks: plugin code runs once at a *)
(* time, and handlers get the callbacks of a process in their order, for   *)
(* any plugins, processes and size of the queues.                          *)
(***************************************************************************)
EXTENDS EventDelivery, SequenceTheorems, TLAPS

\* A worker that waits for the mutex has seen its runtime; what has no runtime
\* any more has a closed module, so that its mutex admits no handler.
ExclusionInv ==
  /\ HandlersExcluded
  /\ \A p \in Plugins :
       /\ worker[p].step = "lock" => runtime[p] \in {"ready", "closing", "stopped"}
       /\ runtime[p] \in {"failed", "stopped"} => p \in broken

\* The number of callbacks that a process has produced.
produced == [q \in Processes |-> IF process[q] = "done" THEN sent[q] + 1 ELSE sent[q]]

\* A callback under way belongs to its plugin and is later than what it got.
UnderWay(p, e, got, made) ==
  e.kind # "closed" => Owner[e.process] = p /\ got[e.process] < e.n /\ e.n <= made[e.process]

Before(d, e) == d.kind # "closed" /\ e.kind # "closed" /\ d.process = e.process => d.n < e.n

\* What a worker has taken and its queue hold callbacks in their order.
OrderInv ==
  /\ \A q \in Processes : handled[q] <= produced[q]
  /\ \A p \in Plugins :
       /\ \A i \in 1 .. Len(queue[p]) : UnderWay(p, queue[p][i], handled, produced)
       /\ \A i, j \in 1 .. Len(queue[p]) : i < j => Before(queue[p][i], queue[p][j])
       /\ worker[p].step \in {"await", "lock"} =>
            /\ UnderWay(p, worker[p].event, handled, produced)
            /\ \A i \in 1 .. Len(queue[p]) : Before(worker[p].event, queue[p][i])

IInv == TypeOK /\ ExclusionInv /\ OrderInv

-----------------------------------------------------------------------------

LEMMA InitInv == Init => IInv
<1> SUFFICES ASSUME Init PROVE IInv
  OBVIOUS
<1> USE ConstantsAssumption
<1>1. Closed \in Events /\ Waiting \in Workers
  BY DEF Closed, Events, Waiting, Workers
<1>2. TypeOK
  BY <1>1 DEF Init, TypeOK, Runtimes, Holders, Reasons
<1>3. ExclusionInv
  BY DEF Init, ExclusionInv, HandlersExcluded, Waiting
<1>4. OrderInv
  BY DEF Init, OrderInv, produced, Waiting
<1>. QED
  BY <1>2, <1>3, <1>4 DEF IInv

\* The type invariant in the parts that a step may change together.
RuntimeTypes ==
  /\ phase \in {"loading", "serving", "closing", "closed"}
  /\ runtime \in [Plugins -> Runtimes] /\ broken \subseteq Plugins
  /\ emitting \in [Plugins -> {"no", "waiting", "done"}] /\ lock \in [Plugins -> Holders]

QueueTypes == queue \in [Plugins -> Seq(Events)] /\ \A p \in Plugins : Len(queue[p]) <= QueueSize
WorkerTypes == worker \in [Plugins -> Workers]

LedgerTypes ==
  /\ process \in [Processes -> {"none", "running", "exiting", "done"}]
  /\ sent \in [Processes -> 0 .. MaxOutput] /\ handled \in [Processes -> 0 .. MaxOutput + 1]
  /\ early \subseteq Processes /\ lost \in [Processes -> Reasons]

LEMMA Typing == TypeOK <=> RuntimeTypes /\ QueueTypes /\ WorkerTypes /\ LedgerTypes
  BY DEF TypeOK, RuntimeTypes, QueueTypes, WorkerTypes, LedgerTypes

LEMMA RuntimeStep ==
  ASSUME RuntimeTypes, [Next]_vars
  PROVE  RuntimeTypes'
<1> USE DEF RuntimeTypes, Runtimes, Holders, Holds, Waits
<1>1. CASE LoadStep
  BY <1>1 DEF LoadStep, Load, Loaded, Publish, Published
<1>2. CASE CloseStep \/ Close \/ Stopped
  BY <1>2 DEF CloseStep, Stop, RuntimeClosed, Close, Stopped, vars
<1>3. ASSUME NEW p \in Plugins, Call(p) \/ CallReturns(p) \/ CallTimesOut(p) \/ Emit(p) \/ Emission(p)
      PROVE  RuntimeTypes'
  BY <1>3 DEF Call, CallReturns, CallTimesOut, Emit, Emission, Emitted, EmitTimesOut
<1>4. ASSUME NEW p \in Plugins, Take(p) \/ WorkerStep(p) \/ AwaitTimesOut(p) \/ Expire(p)
      PROVE  RuntimeTypes'
  BY <1>4 DEF Take, WorkerStep, AwaitDone, AwaitNothing, Handled, AwaitTimesOut, Expire
<1>5. ASSUME NEW p \in Plugins, Deliver(p) \/ HandlerTimesOut(p) \/ CloseRuntime(p)
      PROVE  RuntimeTypes'
  BY <1>5 DEF Deliver, HandlerTimesOut, CloseRuntime
<1>6. ASSUME NEW q \in Processes, StartProcess(q) \/ Output(q) \/ Exit(q) \/ Enqueue(q) \/ EnqueueTimesOut(q)
      PROVE  RuntimeTypes'
  BY <1>6 DEF StartProcess, Output, Exit, Enqueue, EnqueueTimesOut
<1>7. CASE UNCHANGED vars
  BY <1>7 DEF vars
<1> HIDE DEF RuntimeTypes
<1>. QED
  BY <1>1, <1>2, <1>3, <1>4, <1>5, <1>6, <1>7 DEF Next

-----------------------------------------------------------------------------
(* What a step of a worker does: it takes a callback, goes on with it or drops *)
(* it, enters plugin code, or leaves it.                                       *)

Takes(p, new) ==
  /\ worker[p].step = "idle" /\ new.step = "await"
  /\ queue[p] # <<>> /\ new.event = Head(queue[p]) /\ queue' = [queue EXCEPT ![p] = Tail(queue[p])]
  /\ UNCHANGED <<lock, handled>>

Goes(p, new) ==
  /\ worker[p].step \in {"await", "lock"} /\ new.step \in {"idle", "lock"}
  /\ new.step = "lock" =>
       /\ new.event = worker[p].event /\ runtime[p] \in {"ready", "closing", "stopped"}
  /\ UNCHANGED <<lock, queue, handled>>

Enters(p, new) ==
  /\ worker[p].step = "lock" /\ new.step = "run" /\ p \notin broken
  /\ lock[p] = "free" /\ lock' = [lock EXCEPT ![p] = "event"]
  /\ LET e == worker[p].event
     IN handled' = IF e.kind = "closed" THEN handled ELSE [handled EXCEPT ![e.process] = e.n]
  /\ UNCHANGED queue

Leaves(p, new) ==
  /\ worker[p].step = "run" /\ new.step = "idle" /\ lock' = [lock EXCEPT ![p] = "free"]
  /\ UNCHANGED <<queue, handled>>

WorkerActs(p) ==
  Take(p) \/ WorkerStep(p) \/ AwaitTimesOut(p) \/ Expire(p) \/ Deliver(p) \/ HandlerTimesOut(p)

LEMMA WorkerMoves ==
  ASSUME TypeOK, ExclusionInv, NEW p \in Plugins, WorkerActs(p)
  PROVE  \E new \in Workers :
           /\ worker' = [worker EXCEPT ![p] = new]
           /\ UNCHANGED <<runtime, process, sent>> /\ broken \subseteq broken'
           /\ Takes(p, new) \/ Goes(p, new) \/ Enters(p, new) \/ Leaves(p, new)
<1> DEFINE Same == UNCHANGED <<runtime, process, sent>> /\ broken \subseteq broken'
           Moved(new) == Takes(p, new) \/ Goes(p, new) \/ Enters(p, new) \/ Leaves(p, new)
<1>1. /\ worker[p] \in Workers /\ Waiting \in Workers /\ Waiting.step = "idle"
      /\ worker \in [Plugins -> Workers]
  BY DEF TypeOK, Waiting, Closed, Workers, Events
<1>2. ASSUME NEW w \in Workers, NEW s \in {"idle", "await", "lock", "run"}
      PROVE  LET v == [w EXCEPT !.step = s] IN v \in Workers /\ v.step = s /\ v.event = w.event
  BY DEF Workers
<1>3. ASSUME NEW w \in Workers
      PROVE  LET v == [w EXCEPT !.late = TRUE] IN v \in Workers /\ v.step = w.step /\ v.event = w.event
  BY DEF Workers
<1>4. Same
  BY DEF WorkerActs, Take, WorkerStep, AwaitDone, AwaitNothing, Handled, AwaitTimesOut, Expire,
         Deliver, HandlerTimesOut, host
<1>5. CASE Take(p)
  <2> DEFINE new == [step |-> "await", event |-> Head(queue[p]), late |-> FALSE]
  <2>1. queue[p] \in Seq(Events) /\ queue[p] # <<>>
    BY <1>5 DEF TypeOK, Take
  <2>2. Head(queue[p]) \in Events
    BY <2>1
  <2>3. new \in Workers /\ new.step = "await" /\ new.event = Head(queue[p])
    BY <2>2 DEF Workers
  <2>4. worker' = [worker EXCEPT ![p] = new] /\ Takes(p, new)
    BY <1>5, <2>3 DEF Take, Takes, ledger
  <2>. QED
    BY <1>4, <2>3, <2>4
<1>6. CASE AwaitDone(p)
  <2> DEFINE new == [worker[p] EXCEPT !.step = "lock"]
  <2>1. new \in Workers /\ new.step = "lock" /\ new.event = worker[p].event
    BY <1>1, <1>2
  <2>2. worker' = [worker EXCEPT ![p] = new]
    BY <1>6 DEF AwaitDone
  <2> HIDE DEF new
  <2>3. Goes(p, new)
    BY <1>6, <2>1 DEF AwaitDone, HasRuntime, Goes, ledger
  <2>. QED
    BY <1>4, <2>1, <2>2, <2>3
<1>7. CASE AwaitNothing(p) \/ AwaitTimesOut(p)
  <2>1. worker' = [worker EXCEPT ![p] = Waiting] /\ Goes(p, Waiting)
    BY <1>1, <1>7 DEF AwaitNothing, AwaitTimesOut, Dropped, Goes
  <2>. QED
    BY <1>1, <1>4, <2>1
<1>8. CASE Handled(p) \/ HandlerTimesOut(p)
  <2>1. worker' = [worker EXCEPT ![p] = Waiting] /\ Leaves(p, Waiting)
    BY <1>1, <1>8 DEF Handled, HandlerTimesOut, Holds, Leaves, ledger
  <2>. QED
    BY <1>1, <1>4, <2>1
<1>9. CASE Expire(p)
  <2> DEFINE new == [worker[p] EXCEPT !.late = TRUE]
  <2>1. new \in Workers /\ new.step = worker[p].step /\ new.event = worker[p].event
    BY <1>1, <1>3
  <2>2. worker' = [worker EXCEPT ![p] = new]
    BY <1>9 DEF Expire
  <2> HIDE DEF new
  <2>3. Goes(p, new)
    BY <1>9, <2>1 DEF Expire, Goes, ledger, ExclusionInv
  <2>. QED
    BY <1>4, <2>1, <2>2, <2>3
<1>10. CASE Deliver(p)
  <2>1. worker[p].step = "lock" /\ lock[p] = "free" /\ UNCHANGED queue
    BY <1>10 DEF Deliver
  <2>2. CASE Dropped(p, "broken") /\ UNCHANGED <<lock, handled>>
    <3>1. worker' = [worker EXCEPT ![p] = Waiting] /\ Goes(p, Waiting)
      BY <1>1, <2>1, <2>2 DEF Dropped, Goes
    <3>. QED
      BY <1>1, <1>4, <3>1
  <2> DEFINE new == [worker[p] EXCEPT !.step = "run"]
             e == worker[p].event
  <2>3. CASE /\ p \notin broken /\ worker' = [worker EXCEPT ![p] = new]
             /\ lock' = [lock EXCEPT ![p] = "event"]
             /\ handled' = IF e.kind = "closed" THEN handled ELSE [handled EXCEPT ![e.process] = e.n]
    <3>1. new \in Workers /\ new.step = "run"
      BY <1>1, <1>2
    <3> HIDE DEF new
    <3>2. Enters(p, new)
      BY <2>1, <2>3, <3>1 DEF Enters
    <3>. QED
      BY <1>4, <2>3, <3>1, <3>2
  <2>4. \/ Dropped(p, "broken") /\ UNCHANGED <<lock, handled>>
        \/ /\ p \notin broken /\ worker' = [worker EXCEPT ![p] = new]
           /\ lock' = [lock EXCEPT ![p] = "event"]
           /\ handled' = IF e.kind = "closed" THEN handled ELSE [handled EXCEPT ![e.process] = e.n]
    BY <1>10 DEF Deliver, Holds
  <2>. QED
    BY <2>2, <2>3, <2>4
<1>. QED
  BY <1>5, <1>6, <1>7, <1>8, <1>9, <1>10 DEF WorkerActs, WorkerStep

LEMMA ExclusionStep ==
  ASSUME TypeOK, ExclusionInv, [Next]_vars
  PROVE  ExclusionInv'
<1> USE DEF ExclusionInv, HandlersExcluded, TypeOK, Holds, Waits, Runtimes, Holders
<1>1. CASE LoadStep
  BY <1>1 DEF LoadStep, Load, Loaded, Publish, Published
<1>2. ASSUME NEW p \in Plugins, RuntimeClosed(p) PROVE ExclusionInv'
  <2>1. /\ runtime[p] = "closing" /\ lock[p] = "close"
        /\ lock' = [lock EXCEPT ![p] = "free"] /\ runtime' = [runtime EXCEPT ![p] = "stopped"]
        /\ broken' = broken \cup {p} /\ worker' = worker
    BY <1>2 DEF RuntimeClosed
  <2>. QED
    BY <2>1
<1>3. CASE Close
  <2>1. /\ \A p \in Plugins : runtime'[p] = IF runtime[p] = "ready" THEN "closing" ELSE runtime[p]
        /\ UNCHANGED <<broken, lock, worker>>
    BY <1>3 DEF Close
  <2>. QED
    BY <2>1
<1>4. ASSUME NEW p \in Plugins, Call(p) \/ CallReturns(p) \/ CallTimesOut(p) \/ Emit(p) \/ Emission(p)
      PROVE  ExclusionInv'
  BY <1>4 DEF Call, CallReturns, CallTimesOut, Emit, Emission, Emitted, EmitTimesOut
\* The worker goes a step, and the mutex with it.
<1>5. ASSUME NEW p \in Plugins, WorkerActs(p) PROVE ExclusionInv'
  <2>1. PICK new \in Workers :
          /\ worker' = [worker EXCEPT ![p] = new]
          /\ UNCHANGED <<runtime, process, sent>> /\ broken \subseteq broken'
          /\ Takes(p, new) \/ Goes(p, new) \/ Enters(p, new) \/ Leaves(p, new)
    BY <1>5, WorkerMoves
  <2>2. \A o \in Plugins : worker'[o].step = IF o = p THEN new.step ELSE worker[o].step
    BY <2>1
  <2>3. CASE Takes(p, new) \/ Goes(p, new)
    BY <2>1, <2>2, <2>3 DEF Takes, Goes
  <2>4. CASE Enters(p, new)
    <3>1. runtime[p] \in {"ready", "closing"}
      BY <2>4 DEF Enters
    <3>2. \A o \in Plugins : lock'[o] = IF o = p THEN "event" ELSE lock[o]
      BY <2>4 DEF Enters
    <3>. QED
      BY <2>1, <2>2, <2>4, <3>1, <3>2 DEF Enters
  <2>5. CASE Leaves(p, new)
    <3>1. \A o \in Plugins : lock'[o] = IF o = p THEN "free" ELSE lock[o]
      BY <2>5 DEF Leaves
    <3>. QED
      BY <2>1, <2>2, <2>5, <3>1 DEF Leaves
  <2>. QED
    BY <2>1, <2>3, <2>4, <2>5
<1>6. ASSUME NEW p \in Plugins, CloseRuntime(p) PROVE ExclusionInv'
  BY <1>6 DEF CloseRuntime
<1>7. ASSUME NEW q \in Processes, StartProcess(q) \/ Output(q) \/ Exit(q) \/ Enqueue(q) \/ EnqueueTimesOut(q)
      PROVE  ExclusionInv'
  BY <1>7 DEF StartProcess, Output, Exit, Enqueue, EnqueueTimesOut
<1>8. CASE Stop \/ Stopped \/ UNCHANGED vars
  BY <1>8 DEF Stop, Stopped, vars
<1> HIDE DEF ExclusionInv
<1>. QED
  BY <1>1, <1>2, <1>3, <1>4, <1>5, <1>6, <1>7, <1>8 DEF Next, CloseStep, WorkerActs

-----------------------------------------------------------------------------

\* What a process produces next has the number after the last one.
LEMMA Producing ==
  ASSUME LedgerTypes, NEW q \in Processes
  PROVE  /\ produced[q] \in Nat /\ Owner[q] \in Plugins
         /\ process[q] = "running" /\ sent[q] < MaxOutput =>
              /\ OutputOf(q) \in Events /\ OutputOf(q).process = q
              /\ OutputOf(q).n = produced[q] + 1 /\ OutputOf(q).n = sent[q] + 1
         /\ process[q] = "exiting" =>
              /\ ExitOf(q) \in Events /\ ExitOf(q).process = q
              /\ ExitOf(q).n = produced[q] + 1 /\ ExitOf(q).n = sent[q] + 1
<1>1. MaxOutput \in Nat /\ sent[q] \in 0 .. MaxOutput /\ Owner[q] \in Plugins
  BY ConstantsAssumption DEF LedgerTypes
<1>2. sent[q] + 1 \in 1 .. MaxOutput + 1 /\ produced[q] \in Nat
  BY <1>1 DEF produced
<1>3. OutputOf(q) \in Events /\ ExitOf(q) \in Events
  BY <1>2 DEF Events, OutputOf, ExitOf
<1>. QED
  BY <1>1, <1>2, <1>3 DEF produced, OutputOf, ExitOf

\* A callback is put at the end of a queue.
LEMMA Appending ==
  ASSUME QueueTypes, NEW p \in Plugins, NEW e \in Events, queue' = [queue EXCEPT ![p] = Append(queue[p], e)]
  PROVE  /\ queue'[p] = Append(queue[p], e) /\ \A o \in Plugins : o # p => queue'[o] = queue[o]
         /\ queue' \in [Plugins -> Seq(Events)]
         /\ Len(queue'[p]) = Len(queue[p]) + 1 /\ Len(queue[p]) \in Nat
         /\ queue'[p][Len(queue[p]) + 1] = e
         /\ \A i \in 1 .. Len(queue[p]) : queue'[p][i] = queue[p][i] /\ queue[p][i] \in Events
<1>1. queue[p] \in Seq(Events) /\ queue \in [Plugins -> Seq(Events)]
  BY DEF QueueTypes
<1>2. ASSUME NEW s \in Seq(Events)
      PROVE  /\ Append(s, e) \in Seq(Events) /\ Len(Append(s, e)) = Len(s) + 1 /\ Len(s) \in Nat
             /\ Append(s, e)[Len(s) + 1] = e
             /\ \A i \in 1 .. Len(s) : Append(s, e)[i] = s[i] /\ s[i] \in Events
  OBVIOUS
<1>3. queue'[p] = Append(queue[p], e) /\ \A o \in Plugins : o # p => queue'[o] = queue[o]
  BY <1>1
<1>4. queue' \in [Plugins -> Seq(Events)]
  BY <1>1, <1>2
<1>. QED
  BY <1>1, <1>2, <1>3, <1>4

\* A queue without its first callback.
LEMMA Taking ==
  ASSUME QueueTypes, NEW p \in Plugins, queue[p] # <<>>, queue' = [queue EXCEPT ![p] = Tail(queue[p])]
  PROVE  /\ \A o \in Plugins : o # p => queue'[o] = queue[o]
         /\ queue' \in [Plugins -> Seq(Events)]
         /\ Len(queue'[p]) = Len(queue[p]) - 1 /\ Len(queue[p]) \in Nat \ {0}
         /\ \A i \in 1 .. Len(queue'[p]) : queue'[p][i] = queue[p][i + 1] /\ i + 1 \in 1 .. Len(queue[p])
         /\ Head(queue[p]) = queue[p][1]
<1>1. queue[p] \in Seq(Events) /\ queue \in [Plugins -> Seq(Events)]
  BY DEF QueueTypes
<1>2. ASSUME NEW s \in Seq(Events), s # <<>>
      PROVE  /\ Tail(s) \in Seq(Events) /\ Len(Tail(s)) = Len(s) - 1 /\ Len(s) \in Nat \ {0}
             /\ \A i \in 1 .. Len(Tail(s)) : Tail(s)[i] = s[i + 1] /\ i + 1 \in 1 .. Len(s)
             /\ Head(s) = s[1]
  BY <1>2, HeadTailProperties
<1>3. queue'[p] = Tail(queue[p]) /\ \A o \in Plugins : o # p => queue'[o] = queue[o]
  BY <1>1
<1>4. queue' \in [Plugins -> Seq(Events)]
  BY <1>1, <1>2
<1>. QED
  BY <1>1, <1>2, <1>3, <1>4

LEMMA QueueStep ==
  ASSUME TypeOK, ExclusionInv, [Next]_vars
  PROVE  QueueTypes' /\ WorkerTypes'
<1>1. QueueTypes /\ WorkerTypes /\ LedgerTypes /\ QueueSize \in Nat
  BY Typing, ConstantsAssumption
<1>2. ASSUME NEW p \in Plugins, NEW e \in Events, HasSpace(p), queue' = [queue EXCEPT ![p] = Append(queue[p], e)]
      PROVE  QueueTypes'
  BY <1>1, <1>2, Appending DEF HasSpace, QueueTypes
<1>3. ASSUME NEW p \in Plugins, WorkerActs(p) PROVE QueueTypes' /\ WorkerTypes'
  <2>1. PICK new \in Workers :
          /\ worker' = [worker EXCEPT ![p] = new]
          /\ UNCHANGED <<runtime, process, sent>> /\ broken \subseteq broken'
          /\ Takes(p, new) \/ Goes(p, new) \/ Enters(p, new) \/ Leaves(p, new)
    BY <1>3, WorkerMoves
  <2>2. WorkerTypes'
    BY <1>1, <2>1 DEF WorkerTypes
  <2>3. CASE Takes(p, new)
    <3>1. queue[p] # <<>> /\ queue' = [queue EXCEPT ![p] = Tail(queue[p])]
      BY <2>3 DEF Takes
    <3>2. \A o \in Plugins : Len(queue'[o]) <= QueueSize
      BY <1>1, <3>1, Taking DEF QueueTypes
    <3>. QED
      BY <1>1, <2>2, <3>1, <3>2, Taking DEF QueueTypes
  <2>4. CASE Goes(p, new) \/ Enters(p, new) \/ Leaves(p, new)
    BY <1>1, <2>2, <2>4 DEF Goes, Enters, Leaves, QueueTypes
  <2>. QED
    BY <2>1, <2>3, <2>4
<1>4. ASSUME UNCHANGED <<queue, worker>> PROVE QueueTypes' /\ WorkerTypes'
  BY <1>1, <1>4 DEF QueueTypes, WorkerTypes
<1>5. ASSUME NEW p \in Plugins, Call(p) \/ CallReturns(p) \/ CallTimesOut(p) \/ Emit(p) \/ EmitTimesOut(p) \/ CloseRuntime(p)
      PROVE  UNCHANGED <<queue, worker>>
  BY <1>5 DEF Call, CallReturns, CallTimesOut, Emit, EmitTimesOut, CloseRuntime
<1>6. ASSUME NEW p \in Plugins, Emitted(p) PROVE QueueTypes' /\ WorkerTypes'
  <2>1. Closed \in Events
    BY DEF Closed, Events
  <2>. QED
    BY <1>1, <1>2, <1>6, <2>1 DEF Emitted, WorkerTypes
<1>7. ASSUME NEW q \in Processes, StartProcess(q) \/ Exit(q) \/ EnqueueTimesOut(q) PROVE UNCHANGED <<queue, worker>>
  BY <1>7 DEF StartProcess, Exit, EnqueueTimesOut
<1>8. ASSUME NEW q \in Processes, Output(q) \/ Enqueue(q) PROVE QueueTypes' /\ WorkerTypes'
  <2>1. /\ worker' = worker /\ Owner[q] \in Plugins
        /\ \/ queue' = queue
           \/ HasSpace(Owner[q]) /\ OutputOf(q) \in Events
              /\ queue' = [queue EXCEPT ![Owner[q]] = Append(queue[Owner[q]], OutputOf(q))]
           \/ HasSpace(Owner[q]) /\ ExitOf(q) \in Events
              /\ queue' = [queue EXCEPT ![Owner[q]] = Append(queue[Owner[q]], ExitOf(q))]
    BY <1>1, <1>8, Producing DEF Output, Enqueue
  <2>. QED
    BY <1>1, <1>2, <1>4, <2>1 DEF WorkerTypes
<1>9. ASSUME LoadStep \/ CloseStep \/ Close \/ Stopped \/ UNCHANGED vars PROVE UNCHANGED <<queue, worker>>
  BY <1>9 DEF LoadStep, Publish, Load, Loaded, CloseStep, Stop, RuntimeClosed, Close, Stopped, vars
<1>. QED
  BY <1>3, <1>4, <1>5, <1>6, <1>7, <1>8, <1>9 DEF Next, Emission, WorkerActs

LEMMA LedgerStep ==
  ASSUME TypeOK, ExclusionInv, [Next]_vars
  PROVE  LedgerTypes'
<1>1. QueueTypes /\ WorkerTypes /\ LedgerTypes /\ MaxOutput \in Nat
  BY Typing, ConstantsAssumption
<1>2. ASSUME NEW p \in Plugins, WorkerActs(p) PROVE LedgerTypes'
  <2>1. handled' \in [Processes -> 0 .. MaxOutput + 1] /\ UNCHANGED <<process, sent>>
    <3>1. PICK new \in Workers :
            /\ worker' = [worker EXCEPT ![p] = new]
            /\ UNCHANGED <<runtime, process, sent>> /\ broken \subseteq broken'
            /\ Takes(p, new) \/ Goes(p, new) \/ Enters(p, new) \/ Leaves(p, new)
      BY <1>2, WorkerMoves
    <3>2. worker[p].event \in Events
      BY <1>1 DEF WorkerTypes, Workers
    <3>3. \/ worker[p].event.kind = "closed"
          \/ /\ worker[p].event.process \in Processes
             /\ worker[p].event.n \in 0 .. MaxOutput + 1
      BY <1>1, <3>2 DEF Events
    <3>. QED
      BY <1>1, <3>1, <3>3 DEF Takes, Goes, Enters, Leaves, LedgerTypes
  <2>2. lost' \in [Processes -> Reasons] /\ early' = early
    <3>1. ASSUME NEW why \in Reasons, Dropped(p, why) PROVE lost' \in [Processes -> Reasons]
      BY <1>1, <3>1 DEF Dropped, LedgerTypes
    <3>2. {"unready", "broken", "stopping"} \subseteq Reasons
      BY DEF Reasons
    <3>3. lost' = lost \/ \E why \in Reasons : Dropped(p, why)
      BY <1>2, <3>2 DEF WorkerActs, Take, WorkerStep, AwaitDone, AwaitNothing, Handled, AwaitTimesOut,
                        Expire, Deliver, HandlerTimesOut, ledger
    <3>4. early' = early
      BY <1>2 DEF WorkerActs, Take, WorkerStep, AwaitDone, AwaitNothing, Handled, AwaitTimesOut,
                  Expire, Deliver, HandlerTimesOut, ledger
    <3>. QED
      BY <1>1, <3>1, <3>3, <3>4 DEF LedgerTypes
  <2>. QED
    BY <1>1, <2>1, <2>2 DEF LedgerTypes
<1>3. ASSUME NEW p \in Plugins, Call(p) \/ CallReturns(p) \/ CallTimesOut(p) \/ Emit(p) \/ Emission(p) \/ CloseRuntime(p)
      PROVE  LedgerTypes'
  BY <1>1, <1>3 DEF Call, CallReturns, CallTimesOut, Emit, Emission, Emitted, EmitTimesOut, CloseRuntime,
                    host, ledger, LedgerTypes
<1>4. ASSUME NEW q \in Processes, StartProcess(q) \/ Output(q) \/ Exit(q) \/ Enqueue(q) \/ EnqueueTimesOut(q)
      PROVE  LedgerTypes'
  <2>1. CASE Output(q)
    <3>1. sent[q] + 1 \in 0 .. MaxOutput
      BY <1>1, <2>1 DEF Output, LedgerTypes
    <3>. QED
      BY <1>1, <2>1, <3>1 DEF Output, ledger, LedgerTypes
  <2>2. CASE StartProcess(q) \/ Exit(q) \/ Enqueue(q)
    BY <1>1, <2>2 DEF StartProcess, Exit, Enqueue, ledger, LedgerTypes
  <2>3. CASE EnqueueTimesOut(q)
    BY <1>1, <2>3 DEF EnqueueTimesOut, LedgerTypes, Reasons
  <2>. QED
    BY <1>4, <2>1, <2>2, <2>3
<1>5. CASE LoadStep \/ CloseStep \/ Close \/ Stopped \/ UNCHANGED vars
  BY <1>1, <1>5 DEF LoadStep, Publish, Load, Loaded, CloseStep, Stop, RuntimeClosed, Close, Stopped,
                    vars, host, ledger, LedgerTypes
<1>. QED
  BY <1>2, <1>3, <1>4, <1>5 DEF Next, WorkerActs

-----------------------------------------------------------------------------
(* The order of callbacks. *)

\* What is under way stays so while nothing is handled.
LEMMA StaysUnderWay ==
  ASSUME LedgerTypes, LedgerTypes', handled' = handled, \A q \in Processes : produced[q] <= produced'[q]
  PROVE  \A p \in Plugins : \A e \in Events : UnderWay(p, e, handled, produced) => UnderWay(p, e, handled', produced')
<1> SUFFICES ASSUME NEW p \in Plugins, NEW e \in Events, UnderWay(p, e, handled, produced), e.kind # "closed"
             PROVE  UnderWay(p, e, handled', produced')
  BY DEF UnderWay
<1>1. e.process \in Processes /\ e.n \in Nat
  BY ConstantsAssumption DEF Events
<1>2. produced[e.process] \in Nat /\ produced'[e.process] \in Nat
  BY <1>1, ConstantsAssumption DEF produced, LedgerTypes
<1>3. produced[e.process] <= produced'[e.process]
  BY <1>1
<1> HIDE DEF produced
<1>. QED
  BY <1>1, <1>2, <1>3 DEF UnderWay

\* Nothing is delivered, and what is put into a queue comes after all else.
LEMMA Growing ==
  ASSUME IInv, TypeOK', UNCHANGED <<worker, handled>>,
         \A q \in Processes : produced[q] <= produced'[q],
         \/ queue' = queue
         \/ \E p \in Plugins, e \in Events :
              /\ queue' = [queue EXCEPT ![p] = Append(queue[p], e)]
              /\ UnderWay(p, e, handled', produced') /\ (e.kind # "closed" => e.n > produced[e.process])
  PROVE  OrderInv'
<1>1. LedgerTypes /\ LedgerTypes' /\ QueueTypes /\ QueueTypes' /\ WorkerTypes
  BY Typing DEF IInv, TypeOK, LedgerTypes, QueueTypes
<1>2. \A p \in Plugins : \A e \in Events : UnderWay(p, e, handled, produced) => UnderWay(p, e, handled', produced')
  BY <1>1, StaysUnderWay
<1>3. \A q \in Processes : handled'[q] <= produced'[q]
  <2>1. SUFFICES ASSUME NEW q \in Processes PROVE handled'[q] <= produced'[q]
    OBVIOUS
  <2>2. handled[q] \in Nat /\ handled[q] <= produced[q] /\ produced[q] \in Nat /\ produced'[q] \in Nat
    BY <1>1, ConstantsAssumption DEF IInv, OrderInv, produced, LedgerTypes
  <2>3. produced[q] <= produced'[q] /\ handled'[q] = handled[q]
    OBVIOUS
  <2> HIDE DEF produced
  <2>. QED
    BY <2>2, <2>3
<1>4. /\ \A p \in Plugins : \A i \in 1 .. Len(queue[p]) : queue[p][i] \in Events
      /\ \A p \in Plugins : worker[p].event \in Events
  BY <1>1 DEF QueueTypes, WorkerTypes, Workers
<1>5. CASE queue' = queue
  BY <1>2, <1>3, <1>4, <1>5 DEF IInv, OrderInv, Before
<1>6. ASSUME NEW p \in Plugins, NEW e \in Events, queue' = [queue EXCEPT ![p] = Append(queue[p], e)],
             UnderWay(p, e, handled', produced'), e.kind # "closed" => e.n > produced[e.process]
      PROVE  OrderInv'
  <2>1. /\ \A o \in Plugins : o # p => queue'[o] = queue[o]
        /\ Len(queue'[p]) = Len(queue[p]) + 1 /\ Len(queue[p]) \in Nat
        /\ queue'[p][Len(queue[p]) + 1] = e
        /\ \A i \in 1 .. Len(queue[p]) : queue'[p][i] = queue[p][i]
    BY <1>1, <1>6, Appending
  <2>2. \A d \in Events : UnderWay(p, d, handled, produced) => Before(d, e)
    <3>1. SUFFICES ASSUME NEW d \in Events, UnderWay(p, d, handled, produced), d.kind # "closed", e.kind # "closed",
                          d.process = e.process
                   PROVE  d.n < e.n
      BY DEF Before
    <3>2. d.n \in Nat /\ e.n \in Nat /\ d.process \in Processes
      BY <3>1, ConstantsAssumption DEF Events
    <3>3. produced[d.process] \in Nat
      BY <1>1, <3>2, ConstantsAssumption DEF produced, LedgerTypes
    <3>4. d.n <= produced[d.process] /\ e.n > produced[d.process]
      BY <1>6, <3>1 DEF UnderWay
    <3> HIDE DEF produced
    <3>. QED
      BY <3>2, <3>3, <3>4
  <2> DEFINE L == 1 .. Len(queue[p])
  <2>3. 1 .. Len(queue'[p]) = L \cup {Len(queue[p]) + 1} /\ \A i \in L : i < Len(queue[p]) + 1
    BY <2>1
  <2>4. \A i \in L : UnderWay(p, queue[p][i], handled, produced) /\ Before(queue[p][i], e)
    BY <1>4, <2>2 DEF IInv, OrderInv
  <2>5. \A i \in 1 .. Len(queue'[p]) : UnderWay(p, queue'[p][i], handled', produced')
    BY <1>2, <1>4, <1>6, <2>1, <2>3, <2>4
  <2>6. \A i, j \in 1 .. Len(queue'[p]) : i < j => Before(queue'[p][i], queue'[p][j])
    <3>1. \A i, j \in L : i < j => Before(queue[p][i], queue[p][j])
      BY DEF IInv, OrderInv
    <3>2. \A i \in 1 .. Len(queue'[p]) : ~(Len(queue[p]) + 1 < i)
      BY <2>1
    <3> HIDE DEF L
    <3>3. \A i \in L : queue'[p][i] = queue[p][i]
      BY <2>1 DEF L
    <3>. QED
      BY <2>1, <2>3, <2>4, <3>1, <3>2, <3>3
  <2>7. ASSUME worker[p].step \in {"await", "lock"}
        PROVE  /\ UnderWay(p, worker'[p].event, handled', produced')
               /\ \A i \in 1 .. Len(queue'[p]) : Before(worker[p].event, queue'[p][i])
    <3>1. UnderWay(p, worker[p].event, handled, produced) /\ \A i \in L : Before(worker[p].event, queue[p][i])
      BY <2>7 DEF IInv, OrderInv
    <3>2. Before(worker[p].event, e)
      BY <1>4, <2>2, <3>1
    <3>3. UnderWay(p, worker'[p].event, handled', produced')
      BY <1>2, <1>4, <3>1
    <3>. QED
      BY <2>1, <2>3, <3>1, <3>2, <3>3
  <2>8. ASSUME NEW o \in Plugins, o # p
        PROVE  /\ \A i \in 1 .. Len(queue'[o]) : UnderWay(o, queue'[o][i], handled', produced')
               /\ \A i, j \in 1 .. Len(queue'[o]) : i < j => Before(queue'[o][i], queue'[o][j])
               /\ worker'[o].step \in {"await", "lock"} =>
                    /\ UnderWay(o, worker'[o].event, handled', produced')
                    /\ \A i \in 1 .. Len(queue'[o]) : Before(worker'[o].event, queue'[o][i])
    BY <1>2, <1>4, <2>1, <2>8 DEF IInv, OrderInv
  <2> HIDE DEF L
  <2>. QED
    BY <1>3, <2>5, <2>6, <2>7, <2>8 DEF OrderInv, Before
<1>. QED
  BY <1>5, <1>6

\* A worker takes the first callback of its queue, and what it hands to the
\* plugin is before all that is still under way of the same process.
LEMMA Delivering ==
  ASSUME IInv, NEW p \in Plugins, WorkerActs(p)
  PROVE  OrderInv'
<1>1. QueueTypes /\ WorkerTypes /\ LedgerTypes
  BY Typing DEF IInv
<1>2. PICK new \in Workers :
        /\ worker' = [worker EXCEPT ![p] = new]
        /\ UNCHANGED <<runtime, process, sent>> /\ broken \subseteq broken'
        /\ Takes(p, new) \/ Goes(p, new) \/ Enters(p, new) \/ Leaves(p, new)
  BY WorkerMoves DEF IInv
<1>3. /\ produced' = produced
      /\ \A o \in Plugins : worker'[o] = IF o = p THEN new ELSE worker[o]
  BY <1>1, <1>2 DEF produced, WorkerTypes
<1>4. OrderInv
  BY DEF IInv
<1>5. CASE Takes(p, new)
  <2>1. /\ new.step = "await" /\ new.event = Head(queue[p]) /\ handled' = handled
        /\ queue[p] # <<>> /\ queue' = [queue EXCEPT ![p] = Tail(queue[p])]
    BY <1>5 DEF Takes
  <2>2. /\ \A o \in Plugins : o # p => queue'[o] = queue[o]
        /\ Len(queue'[p]) = Len(queue[p]) - 1 /\ Len(queue[p]) \in Nat \ {0}
        /\ \A i \in 1 .. Len(queue'[p]) : queue'[p][i] = queue[p][i + 1] /\ i + 1 \in 1 .. Len(queue[p])
        /\ new.event = queue[p][1]
    BY <1>1, <2>1, Taking
  <2>3. 1 \in 1 .. Len(queue[p]) /\ \A i, j \in 1 .. Len(queue'[p]) : 1 < i + 1 /\ (i < j => i + 1 < j + 1)
    BY <2>2
  <2>4. /\ UnderWay(p, new.event, handled, produced)
        /\ \A i \in 1 .. Len(queue'[p]) : UnderWay(p, queue'[p][i], handled, produced)
        /\ \A i \in 1 .. Len(queue'[p]) : Before(new.event, queue'[p][i])
        /\ \A i, j \in 1 .. Len(queue'[p]) : i < j => Before(queue'[p][i], queue'[p][j])
    BY <1>4, <2>2, <2>3 DEF OrderInv
  <2>. QED
    BY <1>3, <1>4, <2>1, <2>2, <2>4 DEF OrderInv
<1>6. CASE Goes(p, new)
  <2>1. /\ UNCHANGED <<queue, handled>> /\ worker[p].step \in {"await", "lock"}
        /\ new.step \in {"idle", "lock"} /\ (new.step = "lock" => new.event = worker[p].event)
    BY <1>6 DEF Goes
  <2>. QED
    BY <1>3, <1>4, <2>1 DEF OrderInv
<1>7. CASE Leaves(p, new)
  <2>1. UNCHANGED <<queue, handled>> /\ new.step = "idle"
    BY <1>7 DEF Leaves
  <2>. QED
    BY <1>3, <1>4, <2>1 DEF OrderInv
<1>8. CASE Enters(p, new)
  <2> DEFINE e == worker[p].event
  <2>1. /\ queue' = queue /\ worker[p].step = "lock" /\ new.step = "run"
        /\ handled' = IF e.kind = "closed" THEN handled ELSE [handled EXCEPT ![e.process] = e.n]
    BY <1>8 DEF Enters
  <2>2. e \in Events /\ UnderWay(p, e, handled, produced)
        /\ \A i \in 1 .. Len(queue[p]) : Before(e, queue[p][i])
    BY <1>1, <1>4, <2>1 DEF WorkerTypes, Workers, OrderInv
  <2> HIDE DEF e
  <2>3. CASE e.kind = "closed"
    BY <1>3, <1>4, <2>1, <2>3 DEF OrderInv
  <2>4. CASE e.kind # "closed"
    <3>1. /\ e.process \in Processes /\ Owner[e.process] = p /\ e.n <= produced[e.process]
          /\ \A q \in Processes : handled'[q] = IF q = e.process THEN e.n ELSE handled[q]
      BY <1>1, <2>1, <2>2, <2>4 DEF Events, UnderWay, LedgerTypes
    <3>2. \A d \in Events : UnderWay(p, d, handled, produced) /\ Before(e, d) => UnderWay(p, d, handled', produced)
      BY <2>4, <3>1 DEF UnderWay, Before, Events
    <3>3. \A o \in Plugins : o # p => \A d \in Events :
            UnderWay(o, d, handled, produced) => UnderWay(o, d, handled', produced)
      BY <3>1 DEF UnderWay, Events
    <3>4. /\ \A o \in Plugins : \A i \in 1 .. Len(queue[o]) : queue[o][i] \in Events
          /\ \A o \in Plugins : worker[o].event \in Events
      BY <1>1 DEF QueueTypes, WorkerTypes, Workers
    <3>5. \A q \in Processes : handled'[q] <= produced[q]
      BY <1>4, <3>1 DEF OrderInv
    <3>6. \A i \in 1 .. Len(queue[p]) : UnderWay(p, queue[p][i], handled', produced)
      BY <1>4, <2>2, <3>2, <3>4 DEF OrderInv
    <3>7. ASSUME NEW o \in Plugins, o # p
          PROVE  /\ \A i \in 1 .. Len(queue[o]) : UnderWay(o, queue[o][i], handled', produced)
                 /\ worker[o].step \in {"await", "lock"} => UnderWay(o, worker[o].event, handled', produced)
      BY <1>4, <3>3, <3>4, <3>7 DEF OrderInv
    <3>. QED
      BY <1>3, <1>4, <2>1, <3>5, <3>6, <3>7 DEF OrderInv
  <2>. QED
    BY <2>3, <2>4
<1>. QED
  BY <1>2, <1>5, <1>6, <1>7, <1>8

LEMMA OrderStep ==
  ASSUME IInv, TypeOK', [Next]_vars
  PROVE  OrderInv'
<1>1. LedgerTypes /\ ConstantsAssumption
  BY Typing, ConstantsAssumption DEF IInv
<1>2. \A q \in Processes : produced[q] \in Nat
  BY <1>1, Producing
<1>3. ASSUME UNCHANGED <<queue, worker, handled, process, sent>> PROVE OrderInv'
  <2>1. produced' = produced
    BY <1>3 DEF produced
  <2>. QED
    BY <1>3, <2>1 DEF IInv, OrderInv
<1>4. ASSUME NEW p \in Plugins, Emitted(p) PROVE OrderInv'
  <2>1. /\ UNCHANGED <<worker, handled, process, sent>>
        /\ queue' = [queue EXCEPT ![p] = Append(queue[p], Closed)]
    BY <1>4 DEF Emitted, host, ledger
  <2>2. produced' = produced
    BY <2>1 DEF produced
  <2>3. Closed \in Events /\ UnderWay(p, Closed, handled', produced') /\ Closed.kind = "closed"
    BY DEF Closed, Events, UnderWay
  <2>4. \A q \in Processes : produced[q] <= produced'[q]
    BY <1>2, <2>2
  <2>. QED
    BY <2>1, <2>3, <2>4, Growing
<1>5. ASSUME NEW q \in Processes, StartProcess(q) \/ Exit(q) \/ EnqueueTimesOut(q) PROVE OrderInv'
  <2>1. UNCHANGED <<queue, worker, handled, sent>>
    BY <1>5 DEF StartProcess, Exit, EnqueueTimesOut, ledger
  <2>2. \A r \in Processes : produced[r] <= produced'[r]
    BY <1>1, <1>5, <2>1 DEF produced, LedgerTypes, StartProcess, Exit, EnqueueTimesOut
  <2>. QED
    BY <2>1, <2>2, Growing
\* What a process produces has the next number.
<1>6. ASSUME NEW q \in Processes, NEW e \in Events, e.process = q, e.n = produced[q] + 1,
             UNCHANGED <<worker, handled>>, Owner[q] \in Plugins,
             queue' = queue \/ queue' = [queue EXCEPT ![Owner[q]] = Append(queue[Owner[q]], e)],
             \A r \in Processes : produced'[r] = IF r = q THEN produced[q] + 1 ELSE produced[r]
      PROVE  OrderInv'
  <2>1. \A r \in Processes : produced[r] <= produced'[r]
    BY <1>2, <1>6
  <2>2. handled'[q] <= produced[q] /\ handled'[q] \in Nat
    BY <1>1, <1>6 DEF IInv, OrderInv, LedgerTypes, ConstantsAssumption
  <2>3. e.n > produced[e.process]
    BY <1>2, <1>6
  <2>4. UnderWay(Owner[q], e, handled', produced')
    BY <1>2, <1>6, <2>2 DEF UnderWay
  <2>. QED
    BY <1>6, <2>1, <2>3, <2>4, Growing
<1>7. ASSUME NEW q \in Processes, Output(q) PROVE OrderInv'
  <2>1. /\ process[q] = "running" /\ sent[q] < MaxOutput /\ sent' = [sent EXCEPT ![q] = sent[q] + 1]
        /\ UNCHANGED <<worker, handled, process>>
        /\ queue' = queue \/ queue' = [queue EXCEPT ![Owner[q]] = Append(queue[Owner[q]], OutputOf(q))]
    BY <1>7 DEF Output, ledger
  <2>2. PICK e \in Events : e = OutputOf(q)
    BY <1>1, <2>1, Producing
  <2>3. e.process = q /\ e.n = produced[q] + 1 /\ Owner[q] \in Plugins
    BY <1>1, <2>1, <2>2, Producing
  <2>4. \A r \in Processes : produced'[r] = IF r = q THEN produced[q] + 1 ELSE produced[r]
    BY <1>1, <2>1 DEF produced, LedgerTypes
  <2>. QED
    BY <1>6, <2>1, <2>2, <2>3, <2>4
<1>8. ASSUME NEW q \in Processes, Enqueue(q) PROVE OrderInv'
  <2>1. /\ process[q] = "exiting" /\ process' = [process EXCEPT ![q] = "done"]
        /\ UNCHANGED <<worker, handled, sent>>
        /\ queue' = [queue EXCEPT ![Owner[q]] = Append(queue[Owner[q]], ExitOf(q))]
    BY <1>8 DEF Enqueue, ledger
  <2>2. PICK e \in Events : e = ExitOf(q)
    BY <1>1, <2>1, Producing
  <2>3. e.process = q /\ e.n = produced[q] + 1 /\ Owner[q] \in Plugins
    BY <1>1, <2>1, <2>2, Producing
  <2>4. \A r \in Processes : produced'[r] = IF r = q THEN produced[q] + 1 ELSE produced[r]
    BY <1>1, <2>1 DEF produced, LedgerTypes
  <2>. QED
    BY <1>6, <2>1, <2>2, <2>3, <2>4
<1>9. ASSUME NEW p \in Plugins, Call(p) \/ CallReturns(p) \/ CallTimesOut(p) \/ Emit(p) \/ EmitTimesOut(p) \/ CloseRuntime(p)
      PROVE  UNCHANGED <<queue, worker, handled, process, sent>>
  BY <1>9 DEF Call, CallReturns, CallTimesOut, Emit, EmitTimesOut, CloseRuntime, host, ledger
<1>10. ASSUME LoadStep \/ CloseStep \/ Close \/ Stopped \/ UNCHANGED vars
       PROVE  UNCHANGED <<queue, worker, handled, process, sent>>
  BY <1>10 DEF LoadStep, Publish, Load, Loaded, CloseStep, Stop, RuntimeClosed, Close, Stopped, vars, host, ledger
<1>. QED
  BY <1>3, <1>4, <1>5, <1>7, <1>8, <1>9, <1>10, Delivering DEF Next, Emission, WorkerActs

LEMMA Invariance == Spec => []IInv
<1>1. Init => IInv
  BY InitInv
<1>2. IInv /\ [Next]_vars => IInv'
  <2>1. SUFFICES ASSUME IInv, [Next]_vars PROVE IInv'
    OBVIOUS
  <2>2. TypeOK'
    <3>1. RuntimeTypes'
      BY <2>1, RuntimeStep, Typing DEF IInv
    <3>2. QueueTypes' /\ WorkerTypes' /\ LedgerTypes'
      BY <2>1, QueueStep, LedgerStep DEF IInv
    <3>. QED
      BY <3>1, <3>2 DEF TypeOK, RuntimeTypes, QueueTypes, WorkerTypes, LedgerTypes
  <2>3. ExclusionInv' /\ OrderInv'
    BY <2>1, <2>2, ExclusionStep, OrderStep DEF IInv
  <2>. QED
    BY <2>2, <2>3 DEF IInv
<1>. QED
  BY <1>1, <1>2, PTL DEF Spec

\* Runtimes, queues, workers and processes keep their types, and no queue holds
\* more than it may.
THEOREM TypeCorrect == Spec => []TypeOK
<1>1. IInv => TypeOK
  BY DEF IInv
<1>. QED
  BY <1>1, Invariance, PTL

\* Runtime.mu, deliverEvent, Close: plugin code is never entered twice at a
\* time, and a handler only in a backend whose init has returned and that has
\* not been closed.
THEOREM HandlersAreExcluded == Spec => []HandlersExcluded
<1>1. IInv => HandlersExcluded
  BY DEF IInv, ExclusionInv
<1>. QED
  BY <1>1, Invariance, PTL

\* enqueueEvent, runEventQueue: whatever is dropped or times out, a handler gets
\* a callback of a process only after the earlier ones and never twice.
THEOREM CallbacksInOrder == Spec => DeliveredInOrder
<1>1. IInv /\ [Next]_vars =>
        [\A p \in Plugins : LET e == worker[p].event IN
           worker[p].step = "lock" /\ worker'[p].step = "run" /\ e.kind # "closed"
             => handled[e.process] < e.n]_vars
  BY DEF IInv, OrderInv, UnderWay
<1>. QED
  BY <1>1, Invariance, PTL DEF Spec, DeliveredInOrder

=============================================================================
