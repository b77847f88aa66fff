------------------------- MODULE PluginProcessesProofs -------------------------
(***************************************************************************)
(* Proofs about the host processes of plugins: captures stay apart, the    *)
(* exit callback is final and comes last, and the size that is announced   *)
(* at the end is the log's, for any processes, executions and bounds.      *)
(***************************************************************************)
EXTENDS PluginProcesses, TLAPS

\* The steps at which a captured process has its execution reserved.
Holding == {"reserved", "opened", "running", "waited", "read", "drained", "closed", "silent"}
Holds(q) == Captures(q) /\ step[q] \in Holding

\* Reservations are the captures that are marked, and no two are of one
\* execution; the goroutine knows which of its steps are those of a capture.
CaptureInv ==
  /\ \A e \in Executions : e \in captured <=> \E q \in Processes : Holds(q) /\ execution[q] = e
  /\ \A q, r \in Processes : Holds(q) /\ Holds(r) /\ execution[q] = execution[r] => q = r
  /\ \A q \in Processes : step[q] \in {"reserved", "opened", "closed", "silent"} => Captures(q)
  /\ \A q \in Processes : step[q] = "none" => ~Captures(q)

\* Once drained nothing is left to emit, and what an exit callback says is
\* written at the end, with flags that nobody changes afterwards.
ExitInv ==
  \A q \in Processes :
    /\ step[q] \in {"drained", "closed", "silent", "free", "ended", "emitted", "forgotten"} =>
         buffered[q] = 0
    /\ exit[q] # None =>
         /\ step[q] \in {"ended", "emitted", "forgotten"} /\ ~flags[q].running
         /\ exit[q] = [terminated |-> flags[q].terminated, timedOut |-> flags[q].timedOut]

\* What is not pending has been announced, and a notifier is stopped after the
\* last byte.
NoticeInv ==
  \A q \in Processes :
    /\ ~notice[q].pending \/ notice[q].stopped => notice[q].published = notice[q].size
    /\ notice[q].stopped => step[q] \notin {"none", "reserved", "opened", "running"}

IInv == TypeOK /\ CaptureInv /\ ExitInv /\ NoticeInv

-----------------------------------------------------------------------------

LEMMA InitInv == ConstantsAssumption /\ Init => IInv
  BY DEF ConstantsAssumption, Init, IInv, TypeOK, CaptureInv, ExitInv, NoticeInv, Holds, Holding,
         Captures, Steps, Flags, Notices, Quiet

\* The notifier's operations on one record, and what they announce: a size
\* that is not pending was announced, and nothing is after the stop.
LEMMA Notifying ==
  ASSUME ConstantsAssumption, NEW n \in Notices
  PROVE  /\ n.size < MaxSize =>
              /\ Notify(n) \in Notices /\ Notify(n).stopped = n.stopped
              /\ ~Notify(n).pending => Notify(n).published = Notify(n).size
         /\ Flushed(n) \in Notices /\ Flushed(n).size = n.size /\ Flushed(n).stopped = n.stopped
         /\ n.stopped => Flushed(n).published = n.published
         /\ ~Flushed(n).pending /\ (~n.pending => n.published = n.size) /\ ~n.stopped =>
              Flushed(n).published = Flushed(n).size
         /\ Elapsed(n) \in Notices /\ Elapsed(n).size = n.size /\ Elapsed(n).stopped = n.stopped
         /\ Elapsed(n).published = n.published /\ Elapsed(n).pending = n.pending
         /\ Told(n) \in Notices /\ Told(n).stopped /\ Told(n).pending = n.pending
         /\ n.pending \/ n.published = n.size => Told(n).published = Told(n).size
<1> DEFINE m == [n EXCEPT !.size = @ + 1]
<1>1. ASSUME n.size < MaxSize
      PROVE  m \in Notices /\ m.stopped = n.stopped
  BY <1>1 DEF ConstantsAssumption, Notices
<1>2. ASSUME NEW k \in Notices
      PROVE  LET a == [k EXCEPT !.pending = TRUE, !.timer = IF @ = "off" THEN "set" ELSE @]
                 b == [k EXCEPT !.published = k.size, !.recent = TRUE, !.pending = FALSE]
             IN /\ a \in Notices /\ a.stopped = k.stopped /\ a.pending
                /\ b \in Notices /\ b.stopped = k.stopped /\ b.published = b.size
  BY DEF Notices
<1>3. n.size < MaxSize =>
        /\ Notify(n) \in Notices /\ Notify(n).stopped = n.stopped
        /\ ~Notify(n).pending => Notify(n).published = Notify(n).size
  <2> HIDE DEF m
  <2>1. Notify(n) = IF m.recent
                    THEN [m EXCEPT !.pending = TRUE, !.timer = IF @ = "off" THEN "set" ELSE @]
                    ELSE [m EXCEPT !.published = m.size, !.recent = TRUE, !.pending = FALSE]
    BY DEF Notify, m
  <2>. QED
    BY <1>1, <1>2, <2>1
<1>4. LET a == [n EXCEPT !.timer = "off"]
          b == [n EXCEPT !.timer = "off", !.pending = FALSE, !.published = n.size, !.recent = TRUE]
      IN /\ a \in Notices /\ a.size = n.size /\ a.stopped = n.stopped /\ a.published = n.published
         /\ a.pending = n.pending
         /\ b \in Notices /\ b.size = n.size /\ b.stopped = n.stopped /\ b.published = b.size
  BY DEF Notices
<1>5. Flushed(n) = IF n.stopped \/ ~n.pending THEN [n EXCEPT !.timer = "off"]
                   ELSE [n EXCEPT !.timer = "off", !.pending = FALSE, !.published = n.size,
                                  !.recent = TRUE]
  BY DEF Flushed
<1>6. /\ Elapsed(n) \in Notices /\ Elapsed(n).size = n.size /\ Elapsed(n).stopped = n.stopped
      /\ Elapsed(n).published = n.published /\ Elapsed(n).pending = n.pending
  BY DEF Elapsed, Notices
<1>7. /\ Told(n) \in Notices /\ Told(n).stopped /\ Told(n).pending = n.pending
      /\ n.pending \/ n.published = n.size => Told(n).published = Told(n).size
  BY DEF Told, Stopped, Notices
<1>. QED
  BY <1>3, <1>4, <1>5, <1>6, <1>7

LEMMA TypeStep ==
  ASSUME ConstantsAssumption, TypeOK, [Next]_vars
  PROVE  TypeOK'
<1> USE DEF ConstantsAssumption, TypeOK, To, system, manager
<1>1. ASSUME NEW q \in Processes, NEW e \in Executions, Reserve(q, e) PROVE TypeOK'
  BY <1>1 DEF Reserve, Steps
<1>2. ASSUME NEW q \in Processes, OpenLog(q) \/ Abandoned(q) PROVE TypeOK'
  BY <1>2 DEF OpenLog, Abandoned, Steps
<1>3. ASSUME NEW q \in Processes, Started(q) PROVE TypeOK'
  BY <1>3 DEF Started, Steps, Flags
<1>4. ASSUME NEW e \in Executions, FinishExecution(e) PROVE TypeOK'
  BY <1>4 DEF FinishExecution
<1>5. ASSUME NEW q \in Processes, WriteLog(q) PROVE TypeOK'
  <2>1. Notify(notice[q]) \in Notices
    BY <1>5, Notifying DEF WriteLog
  <2>2. notice' \in [Processes -> Notices]
    BY <1>5, <2>1 DEF WriteLog
  <2>. QED
    BY <1>5, <2>2 DEF WriteLog
<1>6. ASSUME NEW q \in Processes, IntervalPasses(q) PROVE TypeOK'
  <2>1. notice' \in [Processes -> Notices]
    BY <1>6, Notifying DEF IntervalPasses
  <2>2. UNCHANGED <<step, execution, captured, open, alive, held, killed, flags, killing,
                    buffered, exit, phase, todo>>
    BY <1>6 DEF IntervalPasses
  <2>. QED
    BY <2>1, <2>2
<1>7. ASSUME NEW q \in Processes, Flush(q) PROVE TypeOK'
  <2>1. Flushed(notice[q]) \in Notices
    BY Notifying
  <2>2. notice' \in [Processes -> Notices]
    BY <1>7, <2>1 DEF Flush
  <2>. QED
    BY <1>7, <2>2 DEF Flush
<1>8. ASSUME NEW q \in Processes, Chunk(q) \/ EmitChunk(q) PROVE TypeOK'
  BY <1>8 DEF Chunk, EmitChunk
<1>9. ASSUME NEW q \in Processes, Dies(q) PROVE TypeOK'
  BY <1>9 DEF Dies
<1>10. ASSUME NEW q \in Processes, Waited(q) \/ ReadersEnd(q) \/ Drained(q) \/ LogClosed(q)
       PROVE TypeOK'
  BY <1>10 DEF Waited, ReadersEnd, Drained, LogClosed, Goes, Steps
<1>11. ASSUME NEW q \in Processes, Silenced(q) PROVE TypeOK'
  <2>1. notice' \in [Processes -> Notices]
    BY <1>11, Notifying DEF Silenced
  <2>. QED
    BY <1>11, <2>1 DEF Silenced, Goes, Steps
<1>12. ASSUME NEW q \in Processes, Released(q) \/ Emit(q) \/ Forget(q) PROVE TypeOK'
  BY <1>12 DEF Released, Emit, Forget, Goes, Steps
<1>13. ASSUME NEW q \in Processes, Ended(q) PROVE TypeOK'
  BY <1>13 DEF Ended, Steps, Flags, Exits
<1>14. ASSUME NEW q \in Processes, Timeout(q) \/ Terminate(q) \/ Kill(q) PROVE TypeOK'
  <2>1. CASE Timeout(q)
    <3>1. flags' \in [Processes -> Flags]
      BY <2>1 DEF Timeout, Flags
    <3>. QED
      BY <2>1, <3>1 DEF Timeout
  <2>2. CASE Terminate(q)
    <3>1. flags' \in [Processes -> Flags]
      <4>1. flags' = flags \/ flags' = [flags EXCEPT ![q].terminated = TRUE]
        BY <2>2 DEF Terminate
      <4>2. CASE flags' = [flags EXCEPT ![q].terminated = TRUE]
        BY <4>2 DEF Flags
      <4>. QED
        BY <4>1, <4>2
    <3>2. killing' \subseteq Processes /\ todo' \subseteq Processes
      BY <2>2 DEF Terminate
    <3>3. UNCHANGED <<step, execution, captured, open, alive, held, killed, buffered, notice, exit,
                      phase>>
      BY <2>2 DEF Terminate
    <3>. QED
      BY <3>1, <3>2, <3>3
  <2>3. CASE Kill(q)
    BY <2>3 DEF Kill
  <2>. QED
    BY <1>14, <2>1, <2>2, <2>3
<1>15. CASE Close \/ Closed \/ Done \/ UNCHANGED vars
  BY <1>15 DEF Close, Closed, Done, vars, Items
<1>. QED
  BY <1>1, <1>2, <1>3, <1>4, <1>5, <1>6, <1>7, <1>8, <1>9, <1>10, <1>11, <1>12, <1>13, <1>14,
     <1>15 DEF Next, Waiter

\* Reserve takes an execution that nobody holds; Abandoned and Released give
\* back the one that only their process holds; nothing else changes a capture.
LEMMA CaptureStep ==
  ASSUME ConstantsAssumption, TypeOK, CaptureInv, [Next]_vars
  PROVE  CaptureInv'
<1> USE DEF ConstantsAssumption, TypeOK, CaptureInv, Holds, Holding, Captures, To, Steps
<1>1. ASSUME NEW q \in Processes, NEW e \in Executions, Reserve(q, e) PROVE CaptureInv'
  <2>1. step[q] = "none" /\ ~Holds(q) /\ e \notin captured /\ e # None
    BY <1>1 DEF Reserve
  <2>2. /\ step' = [step EXCEPT ![q] = "reserved"] /\ execution' = [execution EXCEPT ![q] = e]
        /\ captured' = captured \cup {e}
    BY <1>1 DEF Reserve
  <2>3. Holds(q)' /\ execution'[q] = e
        /\ \A r \in Processes \ {q} : Holds(r)' = Holds(r) /\ execution'[r] = execution[r]
    BY <2>1, <2>2
  <2>. QED
    BY <2>1, <2>2, <2>3
<1>2. ASSUME NEW q \in Processes, Abandoned(q) PROVE CaptureInv'
  <2>1. Holds(q) /\ execution[q] \in Executions
    BY <1>2 DEF Abandoned
  <2>2. /\ step' = [step EXCEPT ![q] = "none"] /\ execution' = [execution EXCEPT ![q] = None]
        /\ captured' = captured \ {execution[q]}
    BY <1>2 DEF Abandoned
  <2>3. ~Holds(q)' /\ step'[q] = "none" /\ execution'[q] = None
        /\ \A r \in Processes \ {q} : Holds(r)' = Holds(r) /\ execution'[r] = execution[r]
    BY <2>2
  <2>. QED
    BY <2>1, <2>2, <2>3
<1>3. ASSUME NEW q \in Processes, Released(q) PROVE CaptureInv'
  <2>1. Holds(q) /\ execution[q] \in Executions
    BY <1>3 DEF Released, Goes
  <2>2. /\ step' = [step EXCEPT ![q] = "free"] /\ execution' = execution
        /\ captured' = captured \ {execution[q]}
    BY <1>3 DEF Released, Goes
  <2>3. ~Holds(q)' /\ \A r \in Processes \ {q} : Holds(r)' = Holds(r)
    BY <2>2
  <2>. QED
    BY <2>1, <2>2, <2>3
<1>4. ASSUME NEW q \in Processes, OpenLog(q) PROVE CaptureInv'
  BY <1>4 DEF OpenLog
<1>5. ASSUME NEW q \in Processes, Started(q) PROVE CaptureInv'
  BY <1>5 DEF Started
<1>6. ASSUME NEW q \in Processes, Waited(q) \/ ReadersEnd(q) \/ Drained(q) PROVE CaptureInv'
  BY <1>6 DEF Waited, ReadersEnd, Drained, Goes
<1>7. ASSUME NEW q \in Processes, LogClosed(q) \/ Silenced(q) PROVE CaptureInv'
  BY <1>7 DEF LogClosed, Silenced, Goes
<1>8. ASSUME NEW q \in Processes, Ended(q) \/ Emit(q) \/ Forget(q) PROVE CaptureInv'
  BY <1>8 DEF Ended, Emit, Forget, Goes
<1>9. CASE UNCHANGED <<step, execution, captured>>
  BY <1>9
<1>10. ASSUME NEW q \in Processes,
              \/ WriteLog(q) \/ IntervalPasses(q) \/ Flush(q) \/ Chunk(q) \/ EmitChunk(q)
              \/ Dies(q) \/ Timeout(q) \/ Terminate(q) \/ Kill(q)
       PROVE  UNCHANGED <<step, execution, captured>>
  BY <1>10 DEF WriteLog, IntervalPasses, Flush, Chunk, EmitChunk, Dies, Timeout, Terminate, Kill
<1>11. ASSUME (\E e \in Executions : FinishExecution(e)) \/ Close \/ Closed \/ Done \/ UNCHANGED vars
       PROVE  UNCHANGED <<step, execution, captured>>
  BY <1>11 DEF FinishExecution, Close, Closed, Done, vars
<1>. QED
  BY <1>1, <1>2, <1>3, <1>4, <1>5, <1>6, <1>7, <1>8, <1>9, <1>10, <1>11 DEF Next, Waiter

\* The exit callback is written at the end, of a process whose flags are frozen
\* by the lock that cleared `running`.
LEMMA ExitStep ==
  ASSUME ConstantsAssumption, TypeOK, CaptureInv, ExitInv, [Next]_vars
  PROVE  ExitInv'
<1> USE DEF ConstantsAssumption, TypeOK, ExitInv, To
<1>1. ASSUME NEW q \in Processes, Ended(q) PROVE ExitInv'
  BY <1>1 DEF Ended, Captures, Flags, Exits
<1>2. ASSUME NEW q \in Processes, Started(q) PROVE ExitInv'
  BY <1>2 DEF Started, Flags
<1>3. ASSUME NEW q \in Processes, Timeout(q) PROVE ExitInv'
  BY <1>3 DEF Timeout, Flags
<1>4. ASSUME NEW q \in Processes, Terminate(q) PROVE ExitInv'
  <2>1. flags' = flags \/ (flags[q].running /\ flags' = [flags EXCEPT ![q].terminated = TRUE])
    BY <1>4 DEF Terminate
  <2>2. UNCHANGED <<step, buffered, exit>>
    BY <1>4 DEF Terminate
  <2>3. CASE flags[q].running /\ flags' = [flags EXCEPT ![q].terminated = TRUE]
    <3>1. exit[q] = None /\ \A r \in Processes \ {q} : flags'[r] = flags[r]
      BY <2>3
    <3>. QED
      BY <3>1, <2>2
  <2>. QED
    BY <2>1, <2>2, <2>3
<1>5. ASSUME NEW q \in Processes, Chunk(q) \/ EmitChunk(q) PROVE ExitInv'
  BY <1>5 DEF Chunk, EmitChunk
<1>6. ASSUME NEW q \in Processes, ReadersEnd(q) \/ Drained(q) \/ Waited(q) PROVE ExitInv'
  BY <1>6 DEF ReadersEnd, Drained, Waited, Goes
<1>7. ASSUME NEW q \in Processes,
             LogClosed(q) \/ Silenced(q) \/ Released(q) \/ Emit(q) \/ Forget(q)
      PROVE  ExitInv'
  BY <1>7 DEF LogClosed, Silenced, Released, Emit, Forget, Goes
<1>8. ASSUME NEW q \in Processes, OpenLog(q) \/ Abandoned(q) PROVE ExitInv'
  BY <1>8 DEF OpenLog, Abandoned
<1>9. ASSUME NEW q \in Processes, NEW e \in Executions, Reserve(q, e) PROVE ExitInv'
  BY <1>9 DEF Reserve
<1>10. CASE UNCHANGED <<step, buffered, exit, flags>>
  BY <1>10
<1>11. ASSUME NEW q \in Processes,
              WriteLog(q) \/ IntervalPasses(q) \/ Flush(q) \/ Dies(q) \/ Kill(q)
       PROVE  UNCHANGED <<step, buffered, exit, flags>>
  BY <1>11 DEF WriteLog, IntervalPasses, Flush, Dies, Kill
<1>12. ASSUME (\E e \in Executions : FinishExecution(e)) \/ Close \/ Closed \/ Done \/ UNCHANGED vars
       PROVE  UNCHANGED <<step, buffered, exit, flags>>
  BY <1>12 DEF FinishExecution, Close, Closed, Done, vars
<1>. QED
  BY <1>1, <1>2, <1>3, <1>4, <1>5, <1>6, <1>7, <1>8, <1>9, <1>10, <1>11, <1>12 DEF Next, Waiter

\* Every operation of the notifier leaves what is not pending announced; the
\* one that stops it comes after the last write to the log.
LEMMA NoticeStep ==
  ASSUME ConstantsAssumption, TypeOK, NoticeInv, [Next]_vars
  PROVE  NoticeInv'
<1> USE DEF TypeOK, NoticeInv, To
<1>1. ASSUME NEW q \in Processes, WriteLog(q) PROVE NoticeInv'
  <2>1. notice' = [notice EXCEPT ![q] = Notify(notice[q])] /\ step' = step
        /\ step[q] = "running" /\ notice[q].size < MaxSize
    BY <1>1 DEF WriteLog
  <2>. QED
    BY <2>1, Notifying
<1>2. ASSUME NEW q \in Processes, IntervalPasses(q) PROVE NoticeInv'
  BY <1>2, Notifying DEF IntervalPasses
<1>3. ASSUME NEW q \in Processes, Flush(q) PROVE NoticeInv'
  BY <1>3, Notifying DEF Flush
<1>4. ASSUME NEW q \in Processes, Silenced(q) PROVE NoticeInv'
  BY <1>4, Notifying DEF Silenced, Goes
<1>5. ASSUME NEW q \in Processes, NEW e \in Executions, Reserve(q, e) PROVE NoticeInv'
  BY <1>5 DEF Reserve
<1>6. ASSUME NEW q \in Processes, OpenLog(q) \/ Abandoned(q) \/ Started(q) PROVE NoticeInv'
  BY <1>6 DEF OpenLog, Abandoned, Started
<1>7. ASSUME NEW q \in Processes,
             \/ Waited(q) \/ ReadersEnd(q) \/ Drained(q) \/ LogClosed(q) \/ Released(q)
             \/ Ended(q) \/ Emit(q) \/ Forget(q)
      PROVE  NoticeInv'
  BY <1>7 DEF Waited, ReadersEnd, Drained, LogClosed, Released, Ended, Emit, Forget, Goes
<1>8. CASE UNCHANGED <<step, notice>>
  BY <1>8
<1>9. ASSUME NEW q \in Processes,
             Chunk(q) \/ EmitChunk(q) \/ Dies(q) \/ Timeout(q) \/ Terminate(q) \/ Kill(q)
      PROVE  UNCHANGED <<step, notice>>
  BY <1>9 DEF Chunk, EmitChunk, Dies, Timeout, Terminate, Kill
<1>10. ASSUME (\E e \in Executions : FinishExecution(e)) \/ Close \/ Closed \/ Done \/ UNCHANGED vars
       PROVE  UNCHANGED <<step, notice>>
  BY <1>10 DEF FinishExecution, Close, Closed, Done, vars
<1>. QED
  BY <1>1, <1>2, <1>3, <1>4, <1>5, <1>6, <1>7, <1>8, <1>9, <1>10 DEF Next, Waiter

-----------------------------------------------------------------------------

LEMMA Invariance ==
  ASSUME ConstantsAssumption
  PROVE  Spec => []IInv
<1>1. Init => IInv
  BY InitInv
<1>2. IInv /\ [Next]_vars => IInv'
  BY TypeStep, CaptureStep, ExitStep, NoticeStep DEF IInv
<1>. QED
  BY <1>1, <1>2, PTL DEF Spec

\* The variables keep to their types in every state of the processes, whatever
\* the number of processes, of executions and of writes to a log.
THEOREM TypeCorrect ==
  ASSUME ConstantsAssumption
  PROVE  Spec => []TypeOK
  BY Invariance, PTL DEF IInv

\* process.start, cancelCapture and releaseCapture: no two processes write the
\* log of one execution, and the executions marked as captured are exactly
\* those a process still reserves, through failed starts and ends.
THEOREM CapturesStayApart ==
  ASSUME ConstantsAssumption
  PROVE  Spec => []CapturesApart
<1>1. IInv => CaptureExclusive
  BY DEF IInv, CaptureInv, CaptureExclusive, LogOpen, Holds, Holding
<1>2. IInv => CaptureHeld
  <2> SUFFICES ASSUME IInv PROVE CaptureHeld
    OBVIOUS
  <2> DEFINE R == {r \in Processes : Captures(r) /\ step[r] \in Holding}
  <2>1. \A r \in R : execution[r] \in Executions
    BY DEF IInv, TypeOK, Captures
  <2>2. \A e : e \in captured <=> \E r \in R : execution[r] = e
    BY <2>1 DEF IInv, TypeOK, CaptureInv, Holds
  <2>3. captured = {execution[r] : r \in R}
    BY <2>2
  <2>. QED
    BY <2>3 DEF CaptureHeld, Holding
<1>. QED
  BY <1>1, <1>2, Invariance, PTL DEF CapturesApart

\* wait, terminate and expire: whatever a late terminate or timeout does, the
\* flags stay what the exit callback said, and no output follows it.
THEOREM ExitSettles ==
  ASSUME ConstantsAssumption
  PROVE  Spec => []ExitsSettle
<1>1. IInv => ExitIsFinal
  BY DEF IInv, ExitInv, ExitIsFinal
<1>2. IInv => ExitComesLast
  <2>1. After("ended") \subseteq {"ended", "emitted", "forgotten"}
    BY DEF After
  <2>. QED
    BY <2>1 DEF IInv, ExitInv, ExitComesLast
<1>. QED
  BY <1>1, <1>2, Invariance, PTL DEF ExitsSettle

\* outputNotifier.stop: once it is silenced, a notifier has announced the size
\* the log ends with, whatever timer was set, had fired or was late.
THEOREM FinalSizeIsAnnounced ==
  ASSUME ConstantsAssumption
  PROVE  Spec => []FinalSizeAnnounced
<1>1. IInv => FinalSizeAnnounced
  BY DEF IInv, NoticeInv, FinalSizeAnnounced
<1>. QED
  BY <1>1, Invariance, PTL

=============================================================================
