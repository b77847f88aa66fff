------------------------------ MODULE HostProofs ------------------------------
(***************************************************************************)
(* The theorems of the components, for the host that TLC checks: each step *)
(* of MCHost is a step of the component that runs or leaves it alone, so   *)
(* that the properties of MCHost hold whatever its constants.              *)
(***************************************************************************)
EXTENDS MCHost, FiniteSets, SequencesExt, FiniteSetsExt, FiniteSetTheorems, SequenceTheorems,
        WellFoundedInduction, TLAPS

-----------------------------------------------------------------------------
(***************************************************************************)
(* Proofs about the execution history: rows keep their logs, lists are the *)
(* latest executions ever begun, and rows and files implement the ledger,  *)
(* for any executions, subjects and limits.                                *)
(***************************************************************************)

\* The operators of the library, as the component has them.
LEMMA ExecutionsIsFiniteSet == \A X : History!IsFiniteSet(X) <=> IsFiniteSet(X)
BY DEF History!IsFiniteSet, IsFiniteSet
LEMMA ExecutionsCardinality == \A X : History!Cardinality(X) = Cardinality(X)
BY DEF History!Cardinality, History!IsFiniteSet, Cardinality, IsFiniteSet

\* The executions of S that were begun after e.
ExecutionsNewer(S, e) == {o \in S : History!StartedAt(o) > History!StartedAt(e)}

\* What a prune in progress has still to delete, a row or only a log.
ExecutionsPruning == IF hcall.op = "prune" THEN hcall.stale ELSE {}
ExecutionsKept(s) == History!Of(History!Rows \ ExecutionsPruning, s)

ExecutionsOrderInv == \A i, j \in 1 .. Len(begun) : begun[i] = begun[j] => i = j

\* A row has its log, an execution that is being begun has no row yet, and what
\* is being pruned has an outcome.
ExecutionsCallInv ==
  /\ History!Rows \subseteq History!Begun /\ History!Rows \subseteq logs
  /\ hcall.op = "begin" => hcall.stale \subseteq logs /\ hcall.stale \cap History!Begun = {}
  /\ \A e \in ExecutionsPruning : e \in History!Begun /\ row[e] # "open"

\* Whatever is gone, or going, had Retention newer rows of its subject that are
\* not going: this is what no later prune, crash or restart takes back.
ExecutionsRetentionInv ==
  \A e \in History!Begun : row[e] = "none" \/ e \in ExecutionsPruning =>
    Cardinality(ExecutionsNewer(ExecutionsKept(SubjectOf[e]), e)) >= Retention

ExecutionsIInv == History!TypeOK /\ ExecutionsOrderInv /\ ExecutionsCallInv /\ ExecutionsRetentionInv

-----------------------------------------------------------------------------
(* Executions in the order they were begun. *)

\* A finite set of numbers that is not empty has a greatest one.
LEMMA ExecutionsGreatest ==
  ASSUME NEW T \in SUBSET Nat, IsFiniteSet(T), T # {}
  PROVE  \E x \in T : \A y \in T : y <= x
<1> DEFINE Above(x) == {y \in T : y > x}
           Sets == {Above(x) : x \in T}
<1>1. \A x, y \in T : y \in Above(x) <=> y > x
  OBVIOUS
<1>2. \A x : Above(x) \in SUBSET T
  OBVIOUS
<1> HIDE DEF Above
<1>3. Sets \subseteq FiniteSubsetsOf(T) /\ Sets # {}
  <2>1. FiniteSubsetsOf(T) = SUBSET T
    BY FS_FiniteSubsetsOfFinite
  <2>2. Sets \subseteq SUBSET T
    BY <1>2
  <2>3. Sets # {}
    OBVIOUS
  <2>. QED
    BY <2>1, <2>2, <2>3
<1>4. \A A \in Sets : \E x \in T : A = Above(x)
  OBVIOUS
<1>5. \A x \in T : Above(x) \in Sets
  OBVIOUS
<1> HIDE DEF Sets
<1>6. PICK A \in Sets : \A B \in Sets : <<B, A>> \notin StrictSubsetOrdering(T)
  <2>1. IsWellFoundedOn(StrictSubsetOrdering(T), FiniteSubsetsOf(T))
    BY FS_StrictSubsetOrderingWellFounded
  <2>. QED
    BY <1>3, <2>1, WFMin
<1>7. PICK x \in T : A = Above(x)
  BY <1>4
<1>8. ASSUME NEW y \in T, y > x PROVE FALSE
  <2>1. \A z \in T : z > y => z > x
    BY <1>8
  <2>2. ~(y > y)
    BY <1>8
  <2>3. Above(y) \subseteq Above(x) /\ Above(y) # Above(x)
    BY <1>1, <1>2, <1>8, <2>1, <2>2
  <2>4. <<Above(y), Above(x)>> \in StrictSubsetOrdering(T)
    BY <1>2, <2>3 DEF StrictSubsetOrdering
  <2>. QED
    BY <1>5, <1>6, <1>7, <2>4
<1>. QED
  BY <1>8

\* Every execution that was begun has one place in the order.
LEMMA ExecutionsPlaces ==
  ASSUME History!TypeOK, ExecutionsOrderInv
  PROVE  /\ IsFiniteSet(History!Begun) /\ History!Begun \subseteq Executions
         /\ \A e \in History!Begun : History!StartedAt(e) \in 1 .. Len(begun) /\ begun[History!StartedAt(e)] = e
<1> DEFINE f == [i \in 1 .. Len(begun) |-> begun[i]]
<1>1. Len(begun) \in Nat /\ \A i \in 1 .. Len(begun) : begun[i] \in Executions
  BY DEF History!TypeOK
<1>2. f \in Surjection(1 .. Len(begun), History!Begun)
  BY DEF Surjection, History!Begun
<1>3. IsFiniteSet(1 .. Len(begun))
  BY <1>1, FS_Interval
<1>4. IsFiniteSet(History!Begun)
  BY <1>2, <1>3, FS_Surjection
<1>5. \A e \in History!Begun : History!StartedAt(e) \in 1 .. Len(begun) /\ begun[History!StartedAt(e)] = e
  BY DEF History!Begun, History!StartedAt
<1>. QED
  BY <1>1, <1>4, <1>5 DEF History!Begun

\* The counting fact behind retention: when R rows are newer than e, R of the
\* newest R rows are. The newest one that would be missing among them has fewer
\* than R newer ones, so it is not missing.
LEMMA ExecutionsNewestSuffice ==
  ASSUME History!TypeOK, ExecutionsOrderInv, History!HistoryAssumption, NEW S \in SUBSET History!Begun, NEW e \in History!Begun,
                 Cardinality(ExecutionsNewer(S, e)) >= Retention
  PROVE  Cardinality(ExecutionsNewer(History!Newest(S, Retention), e)) >= Retention
<1> DEFINE G == ExecutionsNewer(S, e)
           N == ExecutionsNewer(History!Newest(S, Retention), e)
<1>1. /\ N \subseteq G /\ G \subseteq History!Begun /\ IsFiniteSet(G) /\ IsFiniteSet(N)
      /\ Cardinality(G) \in Nat /\ Cardinality(N) \in Nat
  <2>1. N \subseteq G /\ G \subseteq History!Begun
    BY ExecutionsCardinality DEF ExecutionsNewer, History!Newest
  <2>2. IsFiniteSet(G) /\ IsFiniteSet(N)
    BY <2>1, ExecutionsPlaces, FS_Subset
  <2>. QED
    BY <2>1, <2>2, FS_CardinalityType
<1>2. ASSUME Cardinality(N) < Retention PROVE FALSE
  <2> DEFINE T == {History!StartedAt(o) : o \in G \ N}
  <2>1. G \ N # {}
    BY <1>1, <1>2 DEF History!HistoryAssumption
  <2>2. T # {} /\ T \subseteq 1 .. Len(begun) /\ Len(begun) \in Nat
    BY <1>1, <2>1, ExecutionsPlaces DEF History!TypeOK
  <2>3. T \in SUBSET Nat /\ IsFiniteSet(T)
    <3>1. IsFiniteSet(1 .. Len(begun))
      BY <2>2, FS_Interval
    <3> HIDE DEF T
    <3>2. IsFiniteSet(T)
      BY <2>2, <3>1, FS_Subset
    <3>. QED
      BY <2>2, <3>2
  <2>4. PICK y \in G \ N : \A o \in G \ N : History!StartedAt(o) <= History!StartedAt(y)
    BY <2>2, <2>3, ExecutionsGreatest
  <2>5. y \in S /\ History!StartedAt(y) \in Nat /\ History!StartedAt(e) \in Nat /\ History!StartedAt(y) > History!StartedAt(e)
    BY <1>1, <2>4, ExecutionsPlaces DEF ExecutionsNewer
  <2>6. ExecutionsNewer(S, y) \subseteq N
    <3> SUFFICES ASSUME NEW o \in ExecutionsNewer(S, y) PROVE o \in N
      OBVIOUS
    <3>1. o \in S /\ History!StartedAt(o) \in Nat /\ History!StartedAt(o) > History!StartedAt(y)
      BY ExecutionsPlaces DEF ExecutionsNewer
    <3>2. o \in G
      BY <2>5, <3>1 DEF ExecutionsNewer
    <3>3. ~(History!StartedAt(o) <= History!StartedAt(y))
      BY <2>5, <3>1
    <3> HIDE DEF G, N
    <3>. QED
      BY <2>4, <3>2, <3>3
  <2>7. Cardinality(ExecutionsNewer(S, y)) <= Cardinality(N) /\ Cardinality(ExecutionsNewer(S, y)) \in Nat
    BY <1>1, <2>6, FS_Subset, FS_CardinalityType
  <2>8. y \in History!Newest(S, Retention)
    BY <1>1, <1>2, <2>5, <2>7, ExecutionsCardinality
       DEF History!Newest, ExecutionsNewer, History!HistoryAssumption
  <2>. QED
    BY <2>4, <2>5, <2>8 DEF ExecutionsNewer
<1>. QED
  BY <1>1, <1>2 DEF History!HistoryAssumption

-----------------------------------------------------------------------------

LEMMA ExecutionsInitInv == History!HistoryAssumption /\ History!Init => ExecutionsIInv
  BY DEF History!HistoryAssumption, History!Init, ExecutionsIInv, History!TypeOK, ExecutionsOrderInv,
         ExecutionsCallInv, ExecutionsRetentionInv, History!Rows, History!Begun, ExecutionsPruning,
         History!Idle, History!NoCapture, History!Outcomes

LEMMA ExecutionsTypeStep ==
  ASSUME History!HistoryAssumption, History!TypeOK, [History!Next]_(History!historyVars)
  PROVE  History!TypeOK'
<1> USE DEF History!HistoryAssumption, History!TypeOK, History!Idle, History!Down, History!NoCapture, History!Outcomes
<1>1. ASSUME NEW e \in Executions, History!Begin(e) \/ History!Inserted(e) PROVE History!TypeOK'
  <2>1. CASE History!Begin(e)
    BY <2>1 DEF History!Begin
  <2>2. CASE History!Inserted(e)
    <3>1. begun' \in Seq(Executions)
      <4>1. begun' = begun \/ begun' = Append(begun, e)
        BY <2>2 DEF History!Inserted
      <4>2. begun \in Seq(Executions)
        OBVIOUS
      <4> HIDE DEF History!TypeOK
      <4>3. Append(begun, e) \in Seq(Executions)
        BY <4>2
      <4>. QED
        BY <4>1, <4>2, <4>3
    <3>2. row' \in [Executions -> {"none", "open"} \cup History!Outcomes]
      BY <2>2 DEF History!Inserted
    <3>3. logs' \subseteq Executions /\ hcall' = History!Idle /\ UNCHANGED <<length, capture>>
      BY <2>2 DEF History!Inserted
    <3>. QED
      BY <3>1, <3>2, <3>3
  <2>. QED
    BY <1>1, <2>1, <2>2
<1>2. ASSUME NEW e \in Executions, NEW o \in {"succeeded", "failed"}, History!Finish(e, o) PROVE History!TypeOK'
  BY <1>2 DEF History!Finish, History!Stale, History!Of, History!Rows
<1>3. ASSUME NEW e \in Executions, History!PruneRow(e) PROVE History!TypeOK'
  BY <1>3 DEF History!PruneRow
<1>4. ASSUME NEW e \in Executions, History!PruneLog(e) PROVE History!TypeOK'
  <2>1. hcall' \in [op : {"idle", "down", "begin", "prune"}, stale : SUBSET Executions]
    BY <1>4 DEF History!PruneLog
  <2>2. logs' \subseteq Executions /\ UNCHANGED <<row, begun, length, capture>>
    BY <1>4 DEF History!PruneLog
  <2>. QED
    BY <2>1, <2>2
<1>5. ASSUME NEW e \in Executions, History!AppendOutput(e) PROVE History!TypeOK'
  BY <1>5 DEF History!AppendOutput
<1>6. ASSUME NEW e \in Executions, History!OpenLog(e) PROVE History!TypeOK'
  <2>1. length' \in [Executions -> Nat] /\ logs' \subseteq Executions
    BY <1>6 DEF History!OpenLog
  <2>2. capture' \in [Executions -> [size : Nat, truncated : BOOLEAN]]
    BY <1>6, <2>1 DEF History!OpenLog
  <2>. QED
    BY <1>6, <2>1, <2>2 DEF History!OpenLog
<1>7. ASSUME NEW e \in Executions, History!CloseLog(e) PROVE History!TypeOK'
  BY <1>7 DEF History!CloseLog
<1>8. ASSUME NEW e \in Executions, NEW n \in 1 .. 2, History!WriteLog(e, n) PROVE History!TypeOK'
  <2> DEFINE c == capture[e]
             room == IF c.size < LogCap THEN LogCap - c.size ELSE 0
             data == IF n <= room THEN n ELSE room
             mark == IF data < n /\ ~c.truncated THEN 1 ELSE 0
  <2>1. c.size \in Nat /\ c.truncated \in BOOLEAN /\ data \in Nat /\ mark \in Nat
    OBVIOUS
  <2>2. /\ capture' = [capture EXCEPT ![e] = [size |-> c.size + data + mark,
                                             truncated |-> c.truncated \/ data < n]]
        /\ length' = [length EXCEPT ![e] = IF e \in logs THEN length[e] + data + mark ELSE length[e]]
        /\ UNCHANGED <<row, begun, logs, hcall>>
    BY <1>8 DEF History!WriteLog
  <2> HIDE DEF c, data, mark
  <2>. QED
    BY <2>1, <2>2
<1>9. CASE History!Pruned \/ UNCHANGED History!historyVars
  BY <1>9 DEF History!Pruned, History!historyVars
<1>10. CASE History!Crash
  BY <1>10 DEF History!Crash
<1>11. CASE History!Boot
  BY <1>11 DEF History!Boot
<1>. QED
  BY <1>1, <1>2, <1>3, <1>4, <1>5, <1>6, <1>7, <1>8, <1>9, <1>10, <1>11 DEF History!Next

\* An execution that is inserted comes after all others, which keep their place.
LEMMA ExecutionsInserting ==
  ASSUME History!TypeOK, ExecutionsOrderInv, ExecutionsCallInv, NEW e \in Executions, History!Inserted(e), begun' # begun
  PROVE  /\ ExecutionsOrderInv' /\ History!Begun' = History!Begun \cup {e} /\ e \notin History!Begun
         /\ row' = [row EXCEPT ![e] = "open"] /\ logs' = logs /\ e \in logs
         /\ \A x \in History!Begun : History!StartedAt(x)' = History!StartedAt(x)
<1>1. /\ begun' = Append(begun, e) /\ row' = [row EXCEPT ![e] = "open"] /\ logs' = logs
      /\ e \in logs /\ e \notin History!Begun
  BY DEF History!Inserted, ExecutionsCallInv
<1>2. /\ Len(begun) \in Nat /\ Len(begun') = Len(begun) + 1 /\ begun'[Len(begun) + 1] = e
      /\ \A i \in 1 .. Len(begun) : begun'[i] = begun[i]
  BY <1>1 DEF History!TypeOK
<1>3. History!Begun' = History!Begun \cup {e}
  BY <1>2 DEF History!Begun
<1>4. ExecutionsOrderInv'
  BY <1>1, <1>2 DEF ExecutionsOrderInv, History!Begun
<1>5. ASSUME NEW x \in History!Begun PROVE History!StartedAt(x)' = History!StartedAt(x)
  <2>1. History!StartedAt(x) \in 1 .. Len(begun) /\ begun[History!StartedAt(x)] = x
    BY ExecutionsPlaces
  <2>2. History!StartedAt(x) \in 1 .. Len(begun') /\ begun'[History!StartedAt(x)] = x
    BY <1>2, <2>1
  <2>3. \A i \in 1 .. Len(begun') : begun'[i] = x => i = History!StartedAt(x)
    BY <1>4, <2>2 DEF ExecutionsOrderInv
  <2>. QED
    BY <2>2, <2>3 DEF History!StartedAt
<1>. QED
  BY <1>1, <1>3, <1>4, <1>5

LEMMA ExecutionsOrderStep ==
  ASSUME History!TypeOK, ExecutionsOrderInv, ExecutionsCallInv, [History!Next]_(History!historyVars)
  PROVE  ExecutionsOrderInv'
<1>1. ASSUME NEW e \in Executions, History!Inserted(e), begun' # begun PROVE ExecutionsOrderInv'
  BY <1>1, ExecutionsInserting
<1>2. CASE begun' = begun
  BY <1>2 DEF ExecutionsOrderInv
<1>3. begun' # begun => \E e \in Executions : History!Inserted(e)
  BY DEF History!Next, History!historyVars, History!Begin, History!Finish, History!PruneRow,
         History!PruneLog, History!AppendOutput, History!OpenLog, History!CloseLog, History!WriteLog,
         History!Pruned, History!Crash, History!Boot
<1>. QED
  BY <1>1, <1>2, <1>3

\* BeginExecution makes the file before the row; a prune deletes the rows before
\* the logs, and takes only rows that have an outcome.
LEMMA ExecutionsCallStep ==
  ASSUME History!TypeOK, ExecutionsOrderInv, ExecutionsCallInv, [History!Next]_(History!historyVars)
  PROVE  ExecutionsCallInv'
<1> USE DEF History!TypeOK, ExecutionsCallInv, History!Rows, ExecutionsPruning, History!Idle, History!Down, History!Outcomes
<1>1. ASSUME NEW e \in Executions, History!Begin(e) PROVE ExecutionsCallInv'
  BY <1>1 DEF History!Begin, History!Begun
<1>2. ASSUME NEW e \in Executions, History!Inserted(e) PROVE ExecutionsCallInv'
  <2>1. CASE begun' # begun
    BY <1>2, <2>1, ExecutionsInserting DEF History!Inserted
  <2>2. CASE begun' = begun
    <3>1. row' = row /\ logs' = logs \ {e} /\ hcall' = History!Idle /\ e \notin History!Begun
      <4>1. Append(begun, e) # begun
        OBVIOUS
      <4>. QED
        BY <1>2, <2>2, <4>1 DEF History!Inserted
    <3>. QED
      BY <2>2, <3>1 DEF History!Begun
  <2>. QED
    BY <2>1, <2>2
<1>3. ASSUME NEW e \in Executions, NEW o \in {"succeeded", "failed"}, History!Finish(e, o) PROVE ExecutionsCallInv'
  <2>1. History!Rows' = History!Rows /\ hcall'.op = "prune" /\ UNCHANGED <<begun, logs>>
    BY <1>3 DEF History!Finish
  <2>2. \A x \in hcall'.stale : x \in History!Rows /\ row'[x] # "open"
    BY <1>3 DEF History!Finish, History!Stale, History!Of
  <2>. QED
    BY <2>1, <2>2 DEF History!Begun
<1>4. ASSUME NEW e \in Executions, History!PruneRow(e) PROVE ExecutionsCallInv'
  BY <1>4 DEF History!PruneRow, History!Begun
<1>5. ASSUME NEW e \in Executions, History!PruneLog(e) PROVE ExecutionsCallInv'
  <2>1. /\ hcall.op = "prune" /\ row[e] = "none" /\ hcall' = [hcall EXCEPT !.stale = @ \ {e}]
        /\ logs \ {e} \subseteq logs' /\ UNCHANGED <<row, begun>>
    BY <1>5 DEF History!PruneLog
  <2>2. hcall'.op = "prune" /\ hcall'.stale = hcall.stale \ {e}
    BY <2>1
  <2>. QED
    BY <2>1, <2>2 DEF History!Begun
<1>6. CASE UNCHANGED <<row, begun, hcall>> /\ logs \subseteq logs'
  BY <1>6 DEF History!Begun
<1>7. ASSUME NEW e \in Executions, NEW n \in 1 .. 2,
             History!AppendOutput(e) \/ History!OpenLog(e) \/ History!WriteLog(e, n) \/ History!CloseLog(e)
      PROVE  UNCHANGED <<row, begun, hcall>> /\ logs \subseteq logs'
  BY <1>7 DEF History!AppendOutput, History!OpenLog, History!WriteLog, History!CloseLog
<1>8. CASE History!Pruned
  BY <1>8 DEF History!Pruned, History!Begun
<1>9. CASE History!Crash
  BY <1>9 DEF History!Crash, History!Begun
<1>10. CASE History!Boot
  BY <1>10 DEF History!Boot, History!Begun
<1>11. CASE UNCHANGED History!historyVars
  BY <1>6, <1>11 DEF History!historyVars
<1>. QED
  BY <1>1, <1>2, <1>3, <1>4, <1>5, <1>6, <1>7, <1>8, <1>9, <1>10, <1>11 DEF History!Next

\* A step that begins nothing and adds nothing to what is gone or going keeps
\* every row that was to be kept.
LEMMA ExecutionsNothingMoreGoes ==
  ASSUME History!TypeOK, ExecutionsOrderInv, ExecutionsCallInv, ExecutionsRetentionInv, begun' = begun,
                 row' \in [Executions -> {"none", "open"} \cup History!Outcomes], History!Rows' \subseteq History!Begun,
                 \A e \in Executions : row'[e] = "none" \/ e \in ExecutionsPruning' => row[e] = "none" \/ e \in ExecutionsPruning,
                 History!HistoryAssumption
  PROVE  ExecutionsRetentionInv'
<1> SUFFICES ASSUME NEW e \in History!Begun', row'[e] = "none" \/ e \in ExecutionsPruning'
             PROVE  (Cardinality(ExecutionsNewer(ExecutionsKept(SubjectOf[e]), e)) >= Retention)'
  BY DEF ExecutionsRetentionInv
<1> DEFINE s == SubjectOf[e]
<1>1. History!Begun' = History!Begun /\ \A x : History!StartedAt(x)' = History!StartedAt(x)
  BY DEF History!Begun, History!StartedAt
<1>2. Cardinality(ExecutionsNewer(ExecutionsKept(s), e)) >= Retention
  BY <1>1, ExecutionsPlaces DEF ExecutionsRetentionInv
<1>3. ExecutionsNewer(ExecutionsKept(s), e) \subseteq ExecutionsNewer(ExecutionsKept(s), e)'
  BY <1>1 DEF ExecutionsNewer, ExecutionsKept, History!Of, History!Rows
<1>4. ExecutionsNewer(ExecutionsKept(s), e)' \subseteq History!Begun
  BY <1>1 DEF ExecutionsNewer, ExecutionsKept, History!Of
<1>5. IsFiniteSet(ExecutionsNewer(ExecutionsKept(s), e)')
  BY <1>4, ExecutionsPlaces, FS_Subset
<1>6. Cardinality(ExecutionsNewer(ExecutionsKept(s), e)) <= Cardinality(ExecutionsNewer(ExecutionsKept(s), e)')
  BY <1>3, <1>5, FS_Subset
<1>. QED
  BY <1>2, <1>3, <1>5, <1>6, FS_Subset, FS_CardinalityType DEF History!HistoryAssumption

\* FinishExecution takes the finished executions beyond the newest Retention:
\* the newest Retention rows of the subject are not among them.
LEMMA ExecutionsFinishKeeps ==
  ASSUME History!HistoryAssumption, History!TypeOK, ExecutionsOrderInv, ExecutionsCallInv, ExecutionsRetentionInv, ExecutionsCallInv',
                 NEW e \in Executions, NEW o \in {"succeeded", "failed"}, History!Finish(e, o)
  PROVE  ExecutionsRetentionInv'
<1> SUFFICES ASSUME NEW x \in History!Begun', row'[x] = "none" \/ x \in ExecutionsPruning'
             PROVE  (Cardinality(ExecutionsNewer(ExecutionsKept(SubjectOf[x]), x)) >= Retention)'
  BY DEF ExecutionsRetentionInv
<1> DEFINE s == SubjectOf[e]
           R == History!Of(History!Rows, SubjectOf[x])
           F == {y \in History!Of(History!Rows, s) : row'[y] \in History!Outcomes}
<1>1. /\ hcall = History!Idle /\ row[e] = "open" /\ row' = [row EXCEPT ![e] = o]
      /\ hcall' = [op |-> "prune", stale |-> History!Stale(F)] /\ begun' = begun
  BY DEF History!Finish
<1>2. /\ History!Begun' = History!Begun /\ \A y : History!StartedAt(y)' = History!StartedAt(y)
      /\ History!Rows' = History!Rows /\ History!Rows \subseteq History!Begun
      /\ ExecutionsPruning = {} /\ ExecutionsPruning' = History!Stale(F)
  BY <1>1
     DEF History!Begun, History!StartedAt, History!Rows, History!TypeOK, ExecutionsCallInv,
         ExecutionsPruning, History!Idle, History!Outcomes
<1>3. ExecutionsKept(SubjectOf[x])' = R \ History!Stale(F)
  BY <1>2 DEF ExecutionsKept, History!Of
<1> HIDE DEF F
<1>4. F \subseteq History!Of(History!Rows, s)
  BY DEF F
<1>5. History!Newest(R, Retention) \subseteq R \ History!Stale(F)
  <2> SUFFICES ASSUME NEW y \in History!Newest(R, Retention), y \in History!Stale(F) PROVE FALSE
    BY ExecutionsCardinality DEF History!Newest
  <2>1. y \in R /\ y \in F /\ ExecutionsNewer(F, y) \subseteq ExecutionsNewer(R, y) /\ R \subseteq History!Begun
    BY <1>2, <1>4, ExecutionsCardinality DEF History!Stale, History!Newest, History!Of, ExecutionsNewer
  <2>2. IsFiniteSet(ExecutionsNewer(R, y)) /\ ExecutionsNewer(R, y) \subseteq R
    BY <2>1, ExecutionsPlaces, FS_Subset DEF ExecutionsNewer
  <2>3. /\ Cardinality(ExecutionsNewer(F, y)) <= Cardinality(ExecutionsNewer(R, y))
        /\ Cardinality(ExecutionsNewer(F, y)) \in Nat /\ Cardinality(ExecutionsNewer(R, y)) \in Nat
    BY <2>1, <2>2, FS_Subset, FS_CardinalityType
  <2>4. Cardinality(ExecutionsNewer(R, y)) < Retention /\ ~(Cardinality(ExecutionsNewer(F, y)) < Retention)
    BY <2>1, ExecutionsCardinality DEF History!Newest, History!Stale, ExecutionsNewer
  <2>. QED
    BY <2>3, <2>4 DEF History!HistoryAssumption
<1>6. Cardinality(ExecutionsNewer(R, x)) >= Retention
  <2>1. CASE row'[x] = "none"
    <3>1. row[x] = "none" /\ x \in History!Begun
      BY <1>1, <1>2, <2>1, ExecutionsPlaces DEF History!TypeOK
    <3>2. ExecutionsKept(SubjectOf[x]) = R
      BY <1>2 DEF ExecutionsKept, History!Of
    <3>. QED
      BY <3>1, <3>2 DEF ExecutionsRetentionInv
  <2>2. CASE x \in History!Stale(F)
    <3>1. x \in F /\ ExecutionsNewer(F, x) \subseteq ExecutionsNewer(R, x) /\ ExecutionsNewer(R, x) \subseteq History!Begun
      BY <1>2, <1>4, <2>2 DEF History!Stale, History!Of, ExecutionsNewer
    <3>2. IsFiniteSet(ExecutionsNewer(R, x))
      BY <3>1, ExecutionsPlaces, FS_Subset
    <3>3. /\ Cardinality(ExecutionsNewer(F, x)) <= Cardinality(ExecutionsNewer(R, x))
          /\ Cardinality(ExecutionsNewer(F, x)) \in Nat /\ Cardinality(ExecutionsNewer(R, x)) \in Nat
      BY <3>1, <3>2, FS_Subset, FS_CardinalityType
    <3>4. ~(Cardinality(ExecutionsNewer(F, x)) < Retention)
      BY <2>2, <3>1, ExecutionsCardinality DEF History!Stale, History!Newest, ExecutionsNewer
    <3>. QED
      BY <3>3, <3>4 DEF History!HistoryAssumption
  <2>. QED
    BY <1>2, <2>1, <2>2
<1>7. Cardinality(ExecutionsNewer(History!Newest(R, Retention), x)) >= Retention
  <2>1. R \in SUBSET History!Begun /\ x \in History!Begun
    BY <1>2 DEF History!Of
  <2> HIDE DEF R
  <2>. QED
    BY <1>6, <2>1, ExecutionsNewestSuffice
<1>8. /\ ExecutionsNewer(History!Newest(R, Retention), x) \subseteq ExecutionsNewer(ExecutionsKept(SubjectOf[x]), x)'
      /\ ExecutionsNewer(ExecutionsKept(SubjectOf[x]), x)' \subseteq History!Begun
  BY <1>2, <1>3, <1>5 DEF ExecutionsNewer, History!Of
<1>9. IsFiniteSet(ExecutionsNewer(ExecutionsKept(SubjectOf[x]), x)')
  BY <1>8, ExecutionsPlaces, FS_Subset
<1>10. /\ Cardinality(ExecutionsNewer(History!Newest(R, Retention), x)) <= Cardinality(ExecutionsNewer(ExecutionsKept(SubjectOf[x]), x)')
       /\ Cardinality(ExecutionsNewer(History!Newest(R, Retention), x)) \in Nat
       /\ Cardinality(ExecutionsNewer(ExecutionsKept(SubjectOf[x]), x)') \in Nat
  BY <1>8, <1>9, FS_Subset, FS_CardinalityType
<1>. QED
  BY <1>7, <1>10 DEF History!HistoryAssumption

\* A new row is newer than all others: whoever is gone has only more newer rows.
LEMMA ExecutionsInsertedKeeps ==
  ASSUME History!HistoryAssumption, History!TypeOK, ExecutionsOrderInv, ExecutionsCallInv, ExecutionsRetentionInv, History!TypeOK', ExecutionsOrderInv',
                 NEW e \in Executions, History!Inserted(e), begun' # begun
  PROVE  ExecutionsRetentionInv'
<1> SUFFICES ASSUME NEW x \in History!Begun', row'[x] = "none" \/ x \in ExecutionsPruning'
             PROVE  (Cardinality(ExecutionsNewer(ExecutionsKept(SubjectOf[x]), x)) >= Retention)'
  BY DEF ExecutionsRetentionInv
<1> DEFINE A == ExecutionsNewer(ExecutionsKept(SubjectOf[x]), x)
           B == ExecutionsNewer(ExecutionsKept(SubjectOf[x]), x)'
<1>1. /\ History!Begun' = History!Begun \cup {e} /\ e \notin History!Begun /\ row' = [row EXCEPT ![e] = "open"]
      /\ \A y \in History!Begun : History!StartedAt(y)' = History!StartedAt(y)
  BY ExecutionsInserting
<1>2. ExecutionsPruning = {} /\ ExecutionsPruning' = {}
  BY DEF History!Inserted, ExecutionsPruning, History!Idle, History!TypeOK
<1>3. x \in History!Begun /\ row[x] = "none"
  BY <1>1, <1>2, ExecutionsPlaces DEF History!TypeOK
<1>4. Cardinality(A) >= Retention
  BY <1>3 DEF ExecutionsRetentionInv
<1>5. A \subseteq B /\ A \subseteq History!Begun /\ B \subseteq History!Begun \cup {e}
  <2>1. History!Rows \subseteq History!Rows' /\ History!Rows \subseteq History!Begun /\ History!Rows' \subseteq History!Begun \cup {e}
    BY <1>1 DEF History!Rows, ExecutionsCallInv, History!TypeOK
  <2>2. ExecutionsKept(SubjectOf[x]) \subseteq ExecutionsKept(SubjectOf[x])'
    BY <1>2, <2>1 DEF ExecutionsKept, History!Of
  <2>3. ExecutionsKept(SubjectOf[x]) \subseteq History!Begun /\ ExecutionsKept(SubjectOf[x])' \subseteq History!Begun \cup {e}
    BY <2>1 DEF ExecutionsKept, History!Of
  <2>. QED
    BY <1>1, <1>3, <2>2, <2>3 DEF ExecutionsNewer
<1> HIDE DEF A, B
<1>6. IsFiniteSet(B) /\ IsFiniteSet(A)
  <2>1. IsFiniteSet(History!Begun \cup {e}) /\ IsFiniteSet(History!Begun)
    BY ExecutionsPlaces, FS_AddElement
  <2>. QED
    BY <1>5, <2>1, FS_Subset
<1>7. Cardinality(A) <= Cardinality(B) /\ Cardinality(A) \in Nat /\ Cardinality(B) \in Nat
  BY <1>5, <1>6, FS_Subset, FS_CardinalityType
<1>. QED
  BY <1>4, <1>7 DEF History!HistoryAssumption, B

LEMMA ExecutionsRetentionStep ==
  ASSUME History!HistoryAssumption, History!TypeOK, ExecutionsOrderInv, ExecutionsCallInv, ExecutionsRetentionInv, [History!Next]_(History!historyVars),
                 History!TypeOK', ExecutionsOrderInv', ExecutionsCallInv'
  PROVE  ExecutionsRetentionInv'
<1>1. ASSUME NEW e \in Executions, NEW o \in {"succeeded", "failed"}, History!Finish(e, o)
      PROVE  ExecutionsRetentionInv'
  BY <1>1, ExecutionsFinishKeeps
<1>2. ASSUME NEW e \in Executions, History!Inserted(e), begun' # begun PROVE ExecutionsRetentionInv'
  BY <1>2, ExecutionsInsertedKeeps
<1>3. ASSUME begun' = begun,
             \A e \in Executions :
               row'[e] = "none" \/ e \in ExecutionsPruning' => row[e] = "none" \/ e \in ExecutionsPruning
      PROVE  ExecutionsRetentionInv'
  <2>1. History!Rows' \subseteq History!Begun /\ row' \in [Executions -> {"none", "open"} \cup History!Outcomes]
    BY <1>3 DEF ExecutionsCallInv, History!TypeOK, History!Begun
  <2>. QED
    BY <1>3, <2>1, ExecutionsNothingMoreGoes
<1> USE DEF History!TypeOK, ExecutionsPruning, History!Idle, History!Down
<1>4. ASSUME NEW e \in Executions, History!Begin(e) PROVE ExecutionsRetentionInv'
  BY <1>3, <1>4 DEF History!Begin
<1>5. ASSUME NEW e \in Executions, History!Inserted(e), begun' = begun PROVE ExecutionsRetentionInv'
  <2>1. Append(begun, e) # begun
    OBVIOUS
  <2>. QED
    BY <1>3, <1>5, <2>1 DEF History!Inserted
<1>6. ASSUME NEW e \in Executions, History!PruneRow(e) PROVE ExecutionsRetentionInv'
  <2>1. /\ hcall.op = "prune" /\ e \in hcall.stale /\ row' = [row EXCEPT ![e] = "none"]
        /\ UNCHANGED <<begun, hcall>>
    BY <1>6, ExecutionsCardinality DEF History!PruneRow, History!Newest
  <2>. QED
    BY <1>3, <2>1
<1>7. ASSUME NEW e \in Executions, History!PruneLog(e) PROVE ExecutionsRetentionInv'
  <2>1. /\ hcall.op = "prune" /\ hcall' = [hcall EXCEPT !.stale = @ \ {e}]
        /\ UNCHANGED <<row, begun>>
    BY <1>7 DEF History!PruneLog
  <2>2. hcall'.op = "prune" /\ hcall'.stale = hcall.stale \ {e}
    BY <2>1
  <2>. QED
    BY <1>3, <2>1, <2>2
<1>8. ASSUME UNCHANGED <<row, begun, hcall>> PROVE ExecutionsRetentionInv'
  BY <1>3, <1>8
<1>9. ASSUME NEW e \in Executions, NEW n \in 1 .. 2,
             History!AppendOutput(e) \/ History!OpenLog(e) \/ History!WriteLog(e, n) \/ History!CloseLog(e)
      PROVE  UNCHANGED <<row, begun, hcall>>
  BY <1>9 DEF History!AppendOutput, History!OpenLog, History!WriteLog, History!CloseLog
<1>10. ASSUME History!Pruned \/ History!Crash PROVE ExecutionsRetentionInv'
  <2>1. UNCHANGED <<row, begun>> /\ ExecutionsPruning' = {}
    BY <1>10 DEF History!Pruned, History!Crash
  <2>. QED
    BY <1>3, <2>1
<1>11. ASSUME History!Boot PROVE ExecutionsRetentionInv'
  <2>1. /\ begun' = begun /\ ExecutionsPruning' = {}
        /\ row' = [e \in Executions |-> IF row[e] = "open" THEN "interrupted" ELSE row[e]]
    BY <1>11 DEF History!Boot
  <2>2. \A e \in Executions : row'[e] = "none" => row[e] = "none"
    BY <2>1
  <2>. QED
    BY <1>3, <2>1, <2>2
<1>12. ASSUME UNCHANGED History!historyVars PROVE ExecutionsRetentionInv'
  BY <1>8, <1>12 DEF History!historyVars
<1>. QED
  BY <1>1, <1>2, <1>4, <1>5, <1>6, <1>7, <1>8, <1>9, <1>10, <1>11, <1>12 DEF History!Next

LEMMA ExecutionsInvariance ==
  ASSUME History!HistoryAssumption
  PROVE  History!Spec => []ExecutionsIInv
<1>1. History!Init => ExecutionsIInv
  BY ExecutionsInitInv
<1>2. ExecutionsIInv /\ [History!Next]_(History!historyVars) => ExecutionsIInv'
  BY ExecutionsTypeStep, ExecutionsOrderStep, ExecutionsCallStep, ExecutionsRetentionStep
     DEF ExecutionsIInv
<1>. QED
  BY <1>1, <1>2, PTL DEF History!Spec

-----------------------------------------------------------------------------

\* Lists of at most Retention executions, from the invariant: one that is not
\* among the rows has Retention newer rows, so that it is in neither list, and
\* no row has fewer newer rows than newer executions on its account.
LEMMA ExecutionsListsAreComplete ==
  ASSUME History!HistoryAssumption, ExecutionsIInv
  PROVE  History!ListIsComplete
<1> USE DEF ExecutionsIInv
<1> SUFFICES ASSUME NEW s \in Subjects, NEW n \in 0 .. Retention
             PROVE  History!Newest(History!Of(History!Rows, s), n) = History!Newest(History!Of(History!Begun, s), n)
  BY DEF History!ListIsComplete, History!Listed
<1> DEFINE R == History!Of(History!Rows, s)
           B == History!Of(History!Begun, s)
<1>1. R \subseteq B /\ B \subseteq History!Begun /\ n \in Nat /\ n <= Retention /\ Retention \in Nat
  BY DEF ExecutionsCallInv, History!Of, History!HistoryAssumption
<1>2. \A e \in B : /\ ExecutionsNewer(R, e) \subseteq ExecutionsNewer(B, e)
                    /\ Cardinality(ExecutionsNewer(R, e)) <= Cardinality(ExecutionsNewer(B, e))
                    /\ Cardinality(ExecutionsNewer(R, e)) \in Nat /\ Cardinality(ExecutionsNewer(B, e)) \in Nat
  <2> SUFFICES ASSUME NEW e \in B
               PROVE  /\ ExecutionsNewer(R, e) \subseteq ExecutionsNewer(B, e)
                      /\ Cardinality(ExecutionsNewer(R, e)) <= Cardinality(ExecutionsNewer(B, e))
                      /\ Cardinality(ExecutionsNewer(R, e)) \in Nat /\ Cardinality(ExecutionsNewer(B, e)) \in Nat
    OBVIOUS
  <2>1. ExecutionsNewer(R, e) \subseteq ExecutionsNewer(B, e) /\ ExecutionsNewer(B, e) \subseteq History!Begun
    BY <1>1 DEF ExecutionsNewer
  <2>2. IsFiniteSet(ExecutionsNewer(B, e))
    BY <2>1, ExecutionsPlaces, FS_Subset
  <2>. QED
    BY <2>1, <2>2, FS_Subset, FS_CardinalityType
<1>3. ASSUME NEW e \in B, Cardinality(ExecutionsNewer(R, e)) < n PROVE e \in R /\ ExecutionsNewer(R, e) = ExecutionsNewer(B, e)
  <2>1. \A x \in B : History!StartedAt(x) \in Nat
    BY <1>1, ExecutionsPlaces
  <2>2. ASSUME NEW x \in B, x \notin R, x = e \/ History!StartedAt(x) > History!StartedAt(e) PROVE FALSE
    <3>1. row[x] = "none" /\ SubjectOf[x] = s
      BY <1>1, <2>2, ExecutionsPlaces DEF History!Of, History!Rows
    <3>2. Cardinality(ExecutionsNewer(ExecutionsKept(s), x)) >= Retention
      BY <1>1, <3>1 DEF ExecutionsRetentionInv
    <3>3. ExecutionsNewer(ExecutionsKept(s), x) \subseteq ExecutionsNewer(R, e)
      BY <1>1, <2>1, <2>2 DEF ExecutionsNewer, ExecutionsKept, History!Of
    <3>4. IsFiniteSet(ExecutionsNewer(R, e))
      <4>1. ExecutionsNewer(R, e) \subseteq History!Begun
        BY <1>1 DEF ExecutionsNewer
      <4>. QED
        BY <4>1, ExecutionsPlaces, FS_Subset
    <3>5. /\ Cardinality(ExecutionsNewer(ExecutionsKept(s), x)) <= Cardinality(ExecutionsNewer(R, e))
          /\ Cardinality(ExecutionsNewer(ExecutionsKept(s), x)) \in Nat
      BY <3>3, <3>4, FS_Subset, FS_CardinalityType
    <3>. QED
      BY <1>1, <1>2, <1>3, <3>2, <3>5
  <2>. QED
    BY <1>1, <2>2 DEF ExecutionsNewer
<1>4. \A e \in R : Cardinality(ExecutionsNewer(R, e)) < n => e \in B /\ Cardinality(ExecutionsNewer(B, e)) < n
  BY <1>1, <1>3
<1>5. \A e \in B : Cardinality(ExecutionsNewer(B, e)) < n => e \in R /\ Cardinality(ExecutionsNewer(R, e)) < n
  BY <1>1, <1>2, <1>3
<1> HIDE DEF R, B
<1>6. History!Newest(R, n) = History!Newest(B, n)
  BY <1>1, <1>4, <1>5, ExecutionsCardinality DEF History!Newest, ExecutionsNewer
<1>. QED
  BY <1>6 DEF R, B

\* The variables of the history keep to their types, whatever the number of
\* executions and subjects.
THEOREM ExecutionsTypeCorrect ==
  ASSUME History!HistoryAssumption
  PROVE  History!Spec => []History!TypeOK
  BY ExecutionsInvariance, PTL DEF ExecutionsIInv

\* BeginExecution, FinishExecution and pruneExecutions (owned.go): no row is
\* ever without its log, and lists are those of the latest executions, for any
\* retention, any interleaving with captures and a crash between any two steps.
THEOREM HistoryIsKept ==
  ASSUME History!HistoryAssumption
  PROVE  History!Spec => []History!HistoryKept
<1>1. ExecutionsIInv => History!HistoryKept
  BY ExecutionsListsAreComplete
     DEF History!HistoryKept, History!RowHasLog, ExecutionsIInv, ExecutionsCallInv
<1>. QED
  BY <1>1, ExecutionsInvariance, PTL

\* Every step on rows and files is a step of the ledger: an execution is opened
\* once, gets one outcome, and is forgotten only when it has one.
THEOREM HistoryImplementsLedger ==
  ASSUME History!HistoryAssumption
  PROVE  History!Spec => History!LedgerImplemented
<1> DEFINE fate == [e \in Executions |-> IF e \in History!Begun /\ row[e] = "none" THEN "forgotten" ELSE row[e]]
<1>1. History!Init => History!Ledger!Init
  BY DEF History!Init, History!Ledger!Init, History!Begun
<1>2. ExecutionsIInv /\ [History!Next]_(History!historyVars) => [History!Ledger!Next]_fate
  <2> SUFFICES ASSUME ExecutionsIInv, [History!Next]_(History!historyVars) PROVE [History!Ledger!Next]_fate
    OBVIOUS
  <2> USE DEF ExecutionsIInv, History!TypeOK
  <2>1. ASSUME NEW e \in Executions, History!Inserted(e), begun' # begun PROVE History!Ledger!Open(e)
    <3>1. /\ History!Begun' = History!Begun \cup {e} /\ e \notin History!Begun /\ row[e] = "none"
          /\ row' = [row EXCEPT ![e] = "open"]
      BY <2>1, ExecutionsInserting DEF ExecutionsCallInv, History!Rows
    <3>. QED
      BY <3>1 DEF History!Ledger!Open
  <2>2. ASSUME NEW e \in Executions, NEW o \in {"succeeded", "failed"}, History!Finish(e, o)
        PROVE  History!Ledger!Settle({e})
    <3>1. row[e] = "open" /\ row' = [row EXCEPT ![e] = o] /\ History!Begun' = History!Begun
      BY <2>2 DEF History!Finish, History!Begun
    <3>2. o \in History!Outcomes /\ \A x \in Executions : fate'[x] = IF x \in {e} THEN o ELSE fate[x]
      BY <3>1 DEF History!Outcomes
    <3>3. fate' = [x \in Executions |-> IF x \in {e} THEN o ELSE fate[x]]
      BY <3>2
    <3>4. \A x \in {e} : fate[x] = "open"
      BY <3>1
    <3>. QED
      BY <3>2, <3>3, <3>4 DEF History!Ledger!Settle
  <2>3. ASSUME NEW e \in Executions, History!PruneRow(e) PROVE History!Ledger!Forget(e)
    <3>1. /\ row[e] # "none" /\ e \in ExecutionsPruning /\ row' = [row EXCEPT ![e] = "none"] /\ History!Begun' = History!Begun
      BY <2>3, ExecutionsCardinality
         DEF History!PruneRow, History!Newest, ExecutionsPruning, History!Begun
    <3>2. row[e] \in History!Outcomes /\ e \in History!Begun
      BY <3>1 DEF ExecutionsCallInv
    <3>. QED
      BY <3>1, <3>2 DEF History!Ledger!Forget, History!Outcomes
  <2>4. ASSUME History!Boot PROVE [History!Ledger!Next]_fate
    <3>1. PICK O \in SUBSET Executions : O = {e \in Executions : row[e] = "open"}
      OBVIOUS
    <3>2. row' = [e \in Executions |-> IF e \in O THEN "interrupted" ELSE row[e]] /\ History!Begun' = History!Begun
      BY <2>4, <3>1 DEF History!Boot, History!Begun
    <3>3. fate' = [e \in Executions |-> IF e \in O THEN "interrupted" ELSE fate[e]]
      BY <3>1, <3>2
    <3>4. CASE O = {}
      BY <3>3, <3>4
    <3>5. CASE O # {}
      <4>1. \A e \in O : fate[e] = "open"
        BY <3>1
      <4>2. History!Ledger!Settle(O)
        BY <3>3, <3>5, <4>1 DEF History!Ledger!Settle, History!Outcomes
      <4>. QED
        BY <4>2 DEF History!Ledger!Next
    <3>. QED
      BY <3>4, <3>5
  <2>5. ASSUME UNCHANGED <<row, begun>> PROVE fate' = fate
    BY <2>5 DEF History!Begun
  <2>6. ASSUME NEW e \in Executions, History!Inserted(e), begun' = begun PROVE UNCHANGED <<row, begun>>
    <3>1. Append(begun, e) # begun
      OBVIOUS
    <3>. QED
      BY <2>6, <3>1 DEF History!Inserted
  <2>7. ASSUME NEW e \in Executions, NEW n \in 1 .. 2,
               \/ History!Begin(e) \/ History!PruneLog(e) \/ History!AppendOutput(e) \/ History!OpenLog(e) \/ History!CloseLog(e)
               \/ History!WriteLog(e, n)
        PROVE  UNCHANGED <<row, begun>>
    BY <2>7
       DEF History!Begin, History!PruneLog, History!AppendOutput, History!OpenLog, History!CloseLog,
           History!WriteLog
  <2>8. ASSUME History!Pruned \/ History!Crash \/ UNCHANGED History!historyVars PROVE UNCHANGED <<row, begun>>
    BY <2>8 DEF History!Pruned, History!Crash, History!historyVars
  <2> HIDE DEF fate, ExecutionsIInv, History!TypeOK
  <2>9. ASSUME NEW e \in Executions, History!Ledger!Open(e) \/ History!Ledger!Forget(e) \/ History!Ledger!Settle({e})
        PROVE  History!Ledger!Next
    <3>1. {e} \in SUBSET Executions
      OBVIOUS
    <3>. QED
      BY <2>9, <3>1 DEF History!Ledger!Next
  <2>10. CASE \E e \in Executions : History!Inserted(e)
    BY <2>1, <2>5, <2>6, <2>9, <2>10
  <2>11. CASE \E e \in Executions : \/ History!PruneRow(e)
                                     \/ \E o \in {"succeeded", "failed"} : History!Finish(e, o)
    BY <2>2, <2>3, <2>9, <2>11
  <2>. QED
    BY <2>4, <2>5, <2>7, <2>8, <2>10, <2>11 DEF History!Next
<1>. QED
  BY <1>1, <1>2, ExecutionsInvariance, PTL
     DEF History!Spec, History!LedgerImplemented, History!Ledger!Spec


-----------------------------------------------------------------------------
(***************************************************************************)
(* Proofs about the network streams of plugins: open connections are those *)
(* of open records, within the limits, for any streams and limits.         *)
(***************************************************************************)

\* The operators of the library, as the component has them.
LEMMA NetworkIsFiniteSet == \A X : Network!IsFiniteSet(X) <=> IsFiniteSet(X)
BY DEF Network!IsFiniteSet, IsFiniteSet
LEMMA NetworkCardinality == \A X : Network!Cardinality(X) = Cardinality(X)
BY DEF Network!Cardinality, Network!IsFiniteSet, Cardinality, IsFiniteSet
LEMMA NetworkToSet == \A X : Network!ToSet(X) = ToSet(X)
BY DEF Network!ToSet, ToSet
LEMMA NetworkRemoveAt == \A X, Y : Network!RemoveAt(X, Y) = RemoveAt(X, Y)
BY DEF Network!RemoveAt, RemoveAt

\* A stream that is dialled has no state yet, so that nothing but its own open
\* disposes of its connection.
NetworkDialInv ==
  /\ \A n \in records : streamState[n] # "none"
  /\ netCall.op \in {"dial", "insert"} => \A n \in netCall.on : streamState[n] = "none"

NetworkInserting == IF netCall.op = "insert" THEN netCall.on ELSE {}
NetworkConnectionInv ==
  connected \subseteq Network!OpenRecords \cup NetworkInserting /\ Network!OpenRecords \cup NetworkInserting \subseteq connected

\* The closed records, each once.
NetworkRetiredInv ==
  /\ \A n \in Streams : (\E i \in 1 .. Len(retired) : retired[i] = n) <=> n \in records \ Network!OpenRecords
  /\ \A i, j \in 1 .. Len(retired) : retired[i] = retired[j] => i = j

NetworkLimitInv ==
  /\ IsFiniteSet(records)
  /\ Cardinality(Network!OpenRecords) <= MaxOpen /\ Cardinality(records) <= MaxRecords

NetworkCoreInv == NetworkDialInv /\ NetworkConnectionInv /\ NetworkRetiredInv /\ NetworkLimitInv
NetworkIInv == Network!TypeOK /\ NetworkCoreInv

-----------------------------------------------------------------------------

\* A sequence without the element at place i: the others stay in their order.
LEMMA NetworkRemoving ==
  ASSUME NEW S, NEW s \in Seq(S), NEW i \in 1 .. Len(s),
         \A j, k \in 1 .. Len(s) : s[j] = s[k] => j = k
  PROVE  LET r == RemoveAt(s, i)
         IN /\ r \in Seq(S)
            /\ \A j, k \in 1 .. Len(r) : r[j] = r[k] => j = k
            /\ \A x : (\E j \in 1 .. Len(r) : r[j] = x) <=>
                     (\E j \in 1 .. Len(s) : s[j] = x) /\ x # s[i]
<1> DEFINE a == SubSeq(s, 1, i - 1)
           c == SubSeq(s, i + 1, Len(s))
           r == a \o c
<1>1. Len(s) \in Nat /\ i \in Nat /\ i >= 1 /\ i <= Len(s)
  OBVIOUS
<1>2. a \in Seq(S) /\ Len(a) = i - 1 /\ \A j \in 1 .. (i - 1) : a[j] = s[j]
  BY <1>1
<1>3. c \in Seq(S) /\ Len(c) = Len(s) - i /\ \A j \in 1 .. (Len(s) - i) : c[j] = s[i + j]
  BY <1>1
<1> HIDE DEF a, c
<1>4. /\ r \in Seq(S) /\ Len(r) = Len(s) - 1
      /\ \A j \in 1 .. Len(r) : r[j] = IF j <= Len(a) THEN a[j] ELSE c[j - Len(a)]
  <2>1. /\ r \in Seq(S) /\ Len(r) = Len(a) + Len(c)
        /\ \A j \in 1 .. (Len(a) + Len(c)) : r[j] = IF j <= Len(a) THEN a[j] ELSE c[j - Len(a)]
    <3>1. a \in Seq(S) /\ c \in Seq(S)
      BY <1>2, <1>3
    <3>2. a \o c \in Seq(S) /\ Len(a \o c) = Len(a) + Len(c)
      BY <3>1
    <3>3. ASSUME NEW j \in 1 .. (Len(a) + Len(c))
          PROVE  (a \o c)[j] = IF j <= Len(a) THEN a[j] ELSE c[j - Len(a)]
      BY <3>1
    <3>. QED
      BY <3>2, <3>3
  <2> HIDE DEF r
  <2>2. Len(a) + Len(c) = Len(s) - 1
    BY <1>1, <1>2, <1>3
  <2>3. Len(r) = Len(s) - 1 /\ 1 .. Len(r) = 1 .. (Len(a) + Len(c))
    BY <2>1, <2>2
  <2>. QED
    BY <2>1, <2>3
<1>5. \A j \in 1 .. (Len(s) - 1) : r[j] = IF j < i THEN s[j] ELSE s[j + 1]
  BY <1>1, <1>2, <1>3, <1>4
<1> HIDE DEF r
<1>6. \A j, k \in 1 .. Len(r) : r[j] = r[k] => j = k
  <2> SUFFICES ASSUME NEW j \in 1 .. Len(r), NEW k \in 1 .. Len(r), r[j] = r[k]
               PROVE  j = k
    OBVIOUS
  <2> DEFINE at(n) == IF n < i THEN n ELSE n + 1
  <2>1. j \in 1 .. (Len(s) - 1) /\ k \in 1 .. (Len(s) - 1)
    BY <1>4
  <2>2. at(j) \in 1 .. Len(s) /\ at(k) \in 1 .. Len(s)
    BY <1>1, <2>1
  <2>3. r[j] = s[at(j)] /\ r[k] = s[at(k)]
    BY <1>5, <2>1
  <2>4. at(j) = at(k) => j = k
    BY <1>1, <2>1
  <2> HIDE DEF at
  <2>. QED
    BY <2>2, <2>3, <2>4
<1>7. ASSUME NEW j \in 1 .. Len(s), j # i
      PROVE  \E k \in 1 .. Len(r) : r[k] = s[j]
  <2>1. CASE j < i
    BY <1>1, <1>4, <1>5, <2>1
  <2>2. CASE j > i
    <3>1. j - 1 \in 1 .. Len(r) /\ r[j - 1] = s[j]
      BY <1>1, <1>4, <1>5, <2>2
    <3>. QED
      BY <3>1
  <2>. QED
    BY <1>7, <2>1, <2>2
<1>8. ASSUME NEW k \in 1 .. Len(r)
      PROVE  \E j \in 1 .. Len(s) : j # i /\ s[j] = r[k]
  <2>1. CASE k < i
    BY <1>1, <1>4, <1>5, <2>1
  <2>2. CASE k >= i
    <3>1. k + 1 \in 1 .. Len(s) /\ k + 1 # i /\ r[k] = s[k + 1]
      BY <1>1, <1>4, <1>5, <2>2
    <3>. QED
      BY <3>1
  <2>. QED
    BY <2>1, <2>2
<1>9. \A x : (\E j \in 1 .. Len(r) : r[j] = x) <=> (\E j \in 1 .. Len(s) : s[j] = x) /\ x # s[i]
  <2>1. ASSUME NEW x, NEW k \in 1 .. Len(r), r[k] = x
        PROVE  (\E j \in 1 .. Len(s) : s[j] = x) /\ x # s[i]
    <3>1. PICK j \in 1 .. Len(s) : j # i /\ s[j] = x
      BY <1>8, <2>1
    <3>. QED
      BY <3>1
  <2>2. ASSUME NEW x, NEW j \in 1 .. Len(s), s[j] = x, x # s[i]
        PROVE  \E k \in 1 .. Len(r) : r[k] = x
    BY <1>7, <2>2
  <2>. QED
    BY <2>1, <2>2
<1>10. RemoveAt(s, i) = r
  BY DEF RemoveAt, a, c, r
<1>. QED
  BY <1>4, <1>6, <1>9, <1>10

LEMMA NetworkInitInv == Network!StreamsAssumption /\ Network!Init => NetworkIInv
<1> SUFFICES ASSUME Network!StreamsAssumption, Network!Init PROVE NetworkIInv
  OBVIOUS
<1>1. Network!OpenRecords = {} /\ records = {}
  BY DEF Network!Init, Network!OpenRecords
<1>2. NetworkLimitInv
  BY <1>1, FS_EmptySet DEF NetworkLimitInv, Network!StreamsAssumption
<1>3. Network!TypeOK
  <2>1. waiting \in [Streams -> 0 .. MaxBytes]
    BY DEF Network!Init, Network!StreamsAssumption
  <2>2. netCall \in [op : {"none", "dial", "insert", "read", "peek"}, on : SUBSET Streams]
    BY DEF Network!Init, Network!NoCall
  <2>3. retired \in Seq(Streams)
    BY DEF Network!Init
  <2>. QED
    BY <2>1, <2>2, <2>3 DEF Network!Init, Network!TypeOK
<1>4. NetworkRetiredInv
  BY <1>1 DEF Network!Init, NetworkRetiredInv
<1>5. NetworkDialInv /\ NetworkConnectionInv
  BY <1>1 DEF Network!Init, NetworkDialInv, NetworkConnectionInv, NetworkInserting, Network!NoCall
<1>. QED
  BY <1>2, <1>3, <1>4, <1>5 DEF NetworkIInv, NetworkCoreInv

\* The parts of the type invariant that the records and connections are in.
NetworkRecordTypes ==
  /\ streamState \in [Streams -> {"none", "open", "eof", "failed", "closed"}]
  /\ records \subseteq Streams /\ retired \in Seq(Streams) /\ connected \subseteq Streams

\* markClosed moves an open record to the closed ones and takes its connection;
\* what is already closed, or has no record any more, it leaves alone.
LEMMA NetworkClosing ==
  ASSUME NetworkIInv, Network!StreamsAssumption, NEW n \in Streams, NEW was \in {"eof", "failed", "closed"}, Network!MarkClosed(n, was),
         records' = records,
         netCall' = netCall \/ (netCall' = Network!NoCall /\ netCall.op \in {"read", "peek"})
  PROVE  NetworkCoreInv' /\ NetworkRecordTypes'
<1> USE DEF NetworkIInv, NetworkCoreInv, Network!TypeOK
<1>1. /\ NetworkInserting' = NetworkInserting
      /\ netCall'.op \in {"dial", "insert"} => netCall' = netCall
  BY DEF NetworkInserting, Network!NoCall
<1>2. CASE Network!Open(n)
  <2>1. /\ streamState' = [streamState EXCEPT ![n] = was] /\ connected' = connected \ {n}
        /\ retired' = IF n \in records THEN Append(retired, n) ELSE retired
    BY <1>2 DEF Network!MarkClosed
  <2>2. Network!OpenRecords' = Network!OpenRecords \ {n}
    BY <2>1 DEF Network!OpenRecords, Network!Open
  <2>3. n \notin NetworkInserting
    BY <1>2 DEF NetworkInserting, NetworkDialInv, Network!Open
  <2>4. NetworkConnectionInv'
    BY <1>1, <2>1, <2>2, <2>3 DEF NetworkConnectionInv
  <2>5. NetworkDialInv'
    <3>1. \A m \in Streams : streamState[m] # "none" => streamState'[m] # "none"
      BY <2>1
    <3>2. netCall'.op \in {"dial", "insert"} => \A m \in netCall'.on : m # n
      BY <1>1, <1>2 DEF NetworkDialInv, Network!Open
    <3>3. netCall'.op \in {"dial", "insert"} => \A m \in netCall'.on : streamState'[m] = "none"
      BY <1>1, <2>1, <3>2 DEF NetworkDialInv
    <3>. QED
      BY <3>1, <3>3 DEF NetworkDialInv
  <2>6. NetworkLimitInv'
    <3>1. Network!OpenRecords \subseteq records /\ Network!OpenRecords \ {n} \subseteq Network!OpenRecords
      BY DEF Network!OpenRecords
    <3>2. IsFiniteSet(Network!OpenRecords)
      BY <3>1, FS_Subset DEF NetworkLimitInv
    <3>3. IsFiniteSet(Network!OpenRecords \ {n}) /\ Cardinality(Network!OpenRecords \ {n}) <= Cardinality(Network!OpenRecords)
      BY <3>1, <3>2, FS_Subset
    <3>4. Cardinality(Network!OpenRecords) \in Nat /\ Cardinality(Network!OpenRecords \ {n}) \in Nat
      BY <3>2, <3>3, FS_CardinalityType
    <3>. QED
      BY <2>2, <3>3, <3>4 DEF NetworkLimitInv, Network!StreamsAssumption
  <2>7. NetworkRetiredInv' /\ retired' \in Seq(Streams)
    <3>1. CASE n \in records
      <4>1. /\ retired' \in Seq(Streams) /\ Len(retired') = Len(retired) + 1 /\ Len(retired) \in Nat
            /\ retired'[Len(retired) + 1] = n
            /\ \A i \in 1 .. Len(retired) : retired'[i] = retired[i]
        <5>1. retired' = Append(retired, n) /\ retired \in Seq(Streams)
          BY <2>1, <3>1
        <5> HIDE DEF NetworkIInv, NetworkCoreInv, Network!TypeOK
        <5>. QED
          BY <5>1
      <4>2. n \in Network!OpenRecords /\ \A i \in 1 .. Len(retired) : retired[i] # n
        BY <1>2, <3>1 DEF Network!OpenRecords, NetworkRetiredInv
      <4>3. records' \ Network!OpenRecords' = (records \ Network!OpenRecords) \cup {n}
        BY <2>2, <4>2 DEF Network!OpenRecords
      <4> DEFINE L == 1 .. Len(retired)
      <4> HIDE DEF NetworkIInv, NetworkCoreInv, Network!TypeOK
      <4>4. 1 .. Len(retired') = L \cup {Len(retired) + 1}
        BY <4>1
      <4>5. \A i, j \in L : retired[i] = retired[j] => i = j
        BY DEF NetworkIInv, NetworkCoreInv, NetworkRetiredInv
      <4>6. \A i \in L : retired'[i] = retired[i] /\ retired[i] # n
        BY <4>1, <4>2
      <4> HIDE DEF L
      <4>7. \A i, j \in 1 .. Len(retired') : retired'[i] = retired'[j] => i = j
        BY <4>1, <4>4, <4>5, <4>6
      <4>8. \A m \in Streams : (\E i \in 1 .. Len(retired') : retired'[i] = m) <=>
                              m = n \/ \E i \in L : retired[i] = m
        BY <4>1, <4>4, <4>6
      <4>. QED
        BY <4>1, <4>3, <4>7, <4>8 DEF NetworkRetiredInv, L, NetworkIInv, NetworkCoreInv
    <3>2. CASE n \notin records
      <4>1. retired' = retired /\ Network!OpenRecords' = Network!OpenRecords
        BY <2>1, <2>2, <3>2 DEF Network!OpenRecords
      <4>. QED
        BY <4>1 DEF NetworkRetiredInv
    <3>. QED
      BY <3>1, <3>2
  <2>. QED
    BY <2>1, <2>4, <2>5, <2>6, <2>7 DEF NetworkRecordTypes
<1>3. CASE ~Network!Open(n)
  <2>1. UNCHANGED <<streamState, records, retired, connected>>
    BY <1>3 DEF Network!MarkClosed
  <2>2. Network!OpenRecords' = Network!OpenRecords
    BY <2>1 DEF Network!OpenRecords, Network!Open
  <2>3. NetworkLimitInv' /\ NetworkRetiredInv'
    BY <2>1, <2>2 DEF NetworkLimitInv, NetworkRetiredInv
  <2>. QED
    BY <1>1, <2>1, <2>2, <2>3 DEF NetworkDialInv, NetworkConnectionInv, NetworkRecordTypes
<1>. QED
  BY <1>2, <1>3

\* The end of the plugin's runtime or of the host takes all records with their
\* connections, but not that of an open under way.
LEMMA NetworkDropping ==
  ASSUME NetworkIInv, Network!StreamsAssumption, Network!DropRecords
  PROVE  NetworkCoreInv' /\ NetworkRecordTypes'
<1> USE DEF NetworkIInv, NetworkCoreInv, Network!TypeOK
<1>1. /\ connected' = connected \ records /\ records' = {} /\ retired' = <<>>
      /\ UNCHANGED <<streamState, netCall>>
  BY DEF Network!DropRecords
<1>2. Network!OpenRecords' = {} /\ Network!OpenRecords \subseteq records /\ NetworkInserting' = NetworkInserting
  BY <1>1 DEF Network!OpenRecords, NetworkInserting
<1>3. NetworkInserting \cap records = {}
  BY DEF NetworkInserting, NetworkDialInv
<1>4. NetworkLimitInv'
  BY <1>1, <1>2, FS_EmptySet DEF NetworkLimitInv, Network!StreamsAssumption
<1>5. NetworkRetiredInv'
  BY <1>1, <1>2 DEF NetworkRetiredInv
<1>6. NetworkDialInv' /\ NetworkConnectionInv'
  BY <1>1, <1>2, <1>3 DEF NetworkDialInv, NetworkConnectionInv
<1>. QED
  BY <1>1, <1>4, <1>5, <1>6 DEF NetworkRecordTypes

\* Taking one closed record away, the oldest or one whose time has come.
LEMMA NetworkForgetting ==
  ASSUME NetworkIInv, Network!StreamsAssumption, NEW i \in 1 .. Len(retired)
  PROVE  LET n == retired[i]
             r == RemoveAt(retired, i)
         IN /\ n \in records \ Network!OpenRecords /\ r \in Seq(Streams)
            /\ \A j, k \in 1 .. Len(r) : r[j] = r[k] => j = k
            /\ \A m \in Streams : (\E j \in 1 .. Len(r) : r[j] = m) <=>
                                m \in (records \ {n}) \ Network!OpenRecords
            /\ {m \in records \ {n} : Network!Open(m)} = Network!OpenRecords
            /\ IsFiniteSet(records \ {n}) /\ Cardinality(records \ {n}) <= Cardinality(records)
<1> DEFINE n == retired[i]
           r == RemoveAt(retired, i)
<1>1. retired \in Seq(Streams) /\ \A j, k \in 1 .. Len(retired) : retired[j] = retired[k] => j = k
  BY DEF NetworkIInv, NetworkCoreInv, Network!TypeOK, NetworkRetiredInv
<1>2. n \in Streams /\ n \in records \ Network!OpenRecords
  BY <1>1 DEF NetworkIInv, NetworkCoreInv, NetworkRetiredInv
<1>3. /\ r \in Seq(Streams) /\ \A j, k \in 1 .. Len(r) : r[j] = r[k] => j = k
      /\ \A m : (\E j \in 1 .. Len(r) : r[j] = m) <=>
               (\E j \in 1 .. Len(retired) : retired[j] = m) /\ m # n
  BY <1>1, NetworkRemoving, ZenonT(60)
<1> HIDE DEF n, r
<1>4. \A m \in Streams : (\E j \in 1 .. Len(r) : r[j] = m) <=> m \in (records \ {n}) \ Network!OpenRecords
  BY <1>2, <1>3 DEF NetworkIInv, NetworkCoreInv, NetworkRetiredInv
<1>5. {m \in records \ {n} : Network!Open(m)} = Network!OpenRecords
  BY <1>2 DEF Network!OpenRecords
<1>6. IsFiniteSet(records \ {n}) /\ Cardinality(records \ {n}) <= Cardinality(records)
  <2>1. IsFiniteSet(records) /\ records \ {n} \subseteq records
    BY DEF NetworkIInv, NetworkCoreInv, NetworkLimitInv
  <2>. QED
    BY <2>1, FS_Subset
<1>. QED
  BY <1>2, <1>3, <1>4, <1>5, <1>6 DEF n, r

\* The locked part of open adds its stream to the records with a connection, or
\* gives the connection up; it may evict the oldest closed record for either.
LEMMA NetworkInsertion ==
  ASSUME NetworkIInv, Network!StreamsAssumption, NEW n \in Streams, Network!Insert(n)
  PROVE  NetworkCoreInv' /\ NetworkRecordTypes'
<1> DEFINE evict == IF Cardinality(records) >= MaxRecords THEN Network!Evicted ELSE {}
           refused == streamsClosed \/ Cardinality(Network!OpenRecords) >= MaxOpen
           full == Cardinality(records \ evict) >= MaxRecords
           kept == records \ evict
<1>1. /\ netCall = [op |-> "insert", on |-> {n}] /\ netCall' = Network!NoCall
      /\ records' = IF refused THEN records ELSE IF full THEN kept ELSE kept \cup {n}
      /\ retired' = IF refused \/ evict = {} THEN retired ELSE RemoveAt(retired, 1)
      /\ IF refused \/ full
           THEN connected' = connected \ {n} /\ UNCHANGED streamState
           ELSE streamState' = [streamState EXCEPT ![n] = "open"] /\ UNCHANGED connected
  BY NetworkCardinality, NetworkRemoveAt DEF Network!Insert
<1>2. /\ streamState[n] = "none" /\ n \notin records /\ n \notin Network!OpenRecords
      /\ connected = Network!OpenRecords \cup {n} /\ NetworkInserting' = {}
      /\ streamState \in [Streams -> {"none", "open", "eof", "failed", "closed"}]
      /\ records \subseteq Streams /\ connected \subseteq Streams /\ retired \in Seq(Streams)
  BY <1>1
     DEF NetworkIInv, NetworkCoreInv, NetworkDialInv, NetworkConnectionInv, NetworkInserting,
         Network!OpenRecords, Network!NoCall, Network!TypeOK
\* What is left of the records when one is evicted or none is.
<1>3. /\ kept \subseteq records /\ {m \in kept : Network!Open(m)} = Network!OpenRecords
      /\ IsFiniteSet(kept) /\ Cardinality(kept) <= Cardinality(records)
      /\ LET r == IF evict = {} THEN retired ELSE RemoveAt(retired, 1)
         IN /\ r \in Seq(Streams) /\ \A j, k \in 1 .. Len(r) : r[j] = r[k] => j = k
            /\ \A m \in Streams : (\E j \in 1 .. Len(r) : r[j] = m) <=> m \in kept \ Network!OpenRecords
  <2>1. CASE evict = {}
    <3>1. kept = records /\ IsFiniteSet(records) /\ Cardinality(records) \in Nat
      BY <2>1, FS_CardinalityType DEF NetworkIInv, NetworkCoreInv, NetworkLimitInv
    <3> HIDE DEF evict, kept
    <3>. QED
      BY <1>2, <2>1, <3>1 DEF NetworkIInv, NetworkCoreInv, NetworkRetiredInv, Network!OpenRecords
  <2>2. CASE evict # {}
    <3>1. retired # <<>> /\ evict = {retired[1]}
      BY <2>2 DEF Network!Evicted
    <3>2. 1 \in 1 .. Len(retired)
      BY <1>2, <3>1
    <3> HIDE DEF evict
    <3>. QED
      BY <2>2, <3>1, <3>2, NetworkForgetting
  <2>. QED
    BY <2>1, <2>2
<1> HIDE DEF evict, kept, refused, full
<1>4. CASE refused
  <2>1. records' = records /\ retired' = retired /\ connected' = connected \ {n} /\ streamState' = streamState
    BY <1>1, <1>4
  <2>2. Network!OpenRecords' = Network!OpenRecords
    BY <2>1 DEF Network!OpenRecords, Network!Open
  <2>3. NetworkLimitInv' /\ NetworkRetiredInv'
    BY <2>1, <2>2 DEF NetworkIInv, NetworkCoreInv, NetworkLimitInv, NetworkRetiredInv
  <2>4. NetworkDialInv' /\ NetworkConnectionInv'
    BY <1>1, <1>2, <2>1, <2>2
       DEF NetworkIInv, NetworkCoreInv, NetworkDialInv, NetworkConnectionInv, Network!NoCall
  <2>. QED
    BY <1>2, <2>1, <2>3, <2>4 DEF NetworkCoreInv, NetworkRecordTypes
<1>5. CASE ~refused /\ full
  <2>1. /\ records' = kept /\ connected' = connected \ {n} /\ streamState' = streamState
        /\ retired' = IF evict = {} THEN retired ELSE RemoveAt(retired, 1)
    BY <1>1, <1>5
  <2>2. Network!OpenRecords' = Network!OpenRecords
    BY <1>3, <2>1 DEF Network!OpenRecords, Network!Open
  <2>3. NetworkLimitInv'
    <3>1. Cardinality(kept) \in Nat /\ Cardinality(records) \in Nat
      BY <1>3, FS_CardinalityType DEF NetworkIInv, NetworkCoreInv, NetworkLimitInv
    <3>. QED
      BY <1>3, <2>1, <2>2, <3>1
         DEF NetworkIInv, NetworkCoreInv, NetworkLimitInv, Network!StreamsAssumption
  <2>4. NetworkRetiredInv' /\ retired' \in Seq(Streams)
    BY <1>3, <2>1, <2>2 DEF NetworkRetiredInv
  <2>5. NetworkDialInv' /\ NetworkConnectionInv'
    BY <1>1, <1>2, <1>3, <2>1, <2>2
       DEF NetworkIInv, NetworkCoreInv, NetworkDialInv, NetworkConnectionInv, Network!NoCall
  <2>. QED
    BY <1>2, <1>3, <2>1, <2>3, <2>4, <2>5 DEF NetworkCoreInv, NetworkRecordTypes
<1>6. CASE ~refused /\ ~full
  <2>1. /\ records' = kept \cup {n} /\ connected' = connected
        /\ streamState' = [streamState EXCEPT ![n] = "open"]
        /\ retired' = IF evict = {} THEN retired ELSE RemoveAt(retired, 1)
    BY <1>1, <1>6
  <2>2. Network!OpenRecords' = Network!OpenRecords \cup {n} /\ n \notin kept
    BY <1>2, <1>3, <2>1 DEF Network!OpenRecords, Network!Open
  <2>3. NetworkLimitInv'
    <3>1. Network!OpenRecords \subseteq records /\ IsFiniteSet(records)
      BY DEF Network!OpenRecords, NetworkIInv, NetworkCoreInv, NetworkLimitInv
    <3>2. IsFiniteSet(Network!OpenRecords)
      BY <3>1, FS_Subset
    <3>3. /\ Cardinality(Network!OpenRecords) \in Nat /\ Cardinality(kept) \in Nat
          /\ Cardinality(Network!OpenRecords \cup {n}) = Cardinality(Network!OpenRecords) + 1
          /\ IsFiniteSet(kept \cup {n}) /\ Cardinality(kept \cup {n}) = Cardinality(kept) + 1
      BY <1>2, <1>3, <2>2, <3>2, FS_CardinalityType, FS_AddElement
    <3>4. Cardinality(Network!OpenRecords) < MaxOpen /\ Cardinality(kept) < MaxRecords
      BY <1>6, <3>3 DEF refused, full, kept, Network!StreamsAssumption
    <3>. QED
      BY <2>1, <2>2, <3>3, <3>4 DEF NetworkLimitInv, Network!StreamsAssumption
  <2>4. records' \ Network!OpenRecords' = kept \ Network!OpenRecords
    BY <2>1, <2>2
  <2>5. NetworkRetiredInv' /\ retired' \in Seq(Streams)
    BY <1>3, <2>1, <2>4 DEF NetworkRetiredInv
  <2>6. NetworkConnectionInv'
    BY <1>2, <2>1, <2>2 DEF NetworkConnectionInv
  <2>7. NetworkDialInv'
    BY <1>1, <1>2, <1>3, <2>1 DEF NetworkIInv, NetworkCoreInv, NetworkDialInv, Network!NoCall
  <2>. QED
    BY <1>2, <1>3, <2>1, <2>3, <2>5, <2>6, <2>7 DEF NetworkCoreInv, NetworkRecordTypes
<1>. QED
  BY <1>4, <1>5, <1>6

\* A step that leaves records and connections alone and the lock to nobody else.
LEMMA NetworkUntouched ==
  ASSUME NetworkIInv, UNCHANGED <<streamState, records, retired, connected>>, NetworkInserting' = NetworkInserting,
         netCall'.op \in {"dial", "insert"} => \A n \in netCall'.on : streamState[n] = "none"
  PROVE  NetworkCoreInv' /\ NetworkRecordTypes'
<1> USE DEF NetworkIInv, NetworkCoreInv
<1>1. Network!OpenRecords' = Network!OpenRecords
  BY DEF Network!OpenRecords, Network!Open
<1>2. NetworkLimitInv' /\ NetworkRetiredInv'
  BY <1>1 DEF NetworkLimitInv, NetworkRetiredInv
<1>3. NetworkDialInv' /\ NetworkConnectionInv'
  BY <1>1 DEF NetworkDialInv, NetworkConnectionInv
<1>. QED
  BY <1>2, <1>3 DEF Network!TypeOK, NetworkRecordTypes

LEMMA NetworkCoreStep ==
  ASSUME Network!StreamsAssumption, NetworkIInv, [Network!Next]_(Network!streamVars)
  PROVE  NetworkCoreInv' /\ NetworkRecordTypes'
<1> DEFINE C == NetworkCoreInv' /\ NetworkRecordTypes'
<1>1. ASSUME NEW n \in Streams, Network!Insert(n) PROVE C
  BY <1>1, NetworkInsertion
<1>2. ASSUME Network!StopOwner \/ Network!CloseManager PROVE C
  BY <1>2, NetworkDropping DEF Network!StopOwner, Network!CloseManager
<1>3. ASSUME NEW n \in Streams, Network!ReadEnds(n) PROVE C
  <2>1. /\ netCall.op \in {"read", "peek"} /\ netCall' = Network!NoCall /\ records' = records
        /\ Network!MarkClosed(n, "eof") \/ Network!MarkClosed(n, "failed")
    BY <1>3 DEF Network!ReadEnds, Network!Reading
  <2>. QED
    BY <2>1, NetworkClosing
<1>4. ASSUME NEW n \in Streams, Network!WriteFails(n) \/ Network!CloseStream(n) \/ Network!Release(n) PROVE C
  <2>1. /\ netCall' = netCall /\ records' = records
        /\ Network!MarkClosed(n, "closed") \/ Network!MarkClosed(n, "failed")
    BY <1>4 DEF Network!WriteFails, Network!CloseStream, Network!Release
  <2>. QED
    BY <2>1, NetworkClosing
<1>5. ASSUME NEW n \in Streams, Network!Expire(n) PROVE C
  <2>1. PICK i \in 1 .. Len(retired) : retired[i] = n /\ retired' = RemoveAt(retired, i)
    BY <1>5, NetworkRemoveAt DEF Network!Expire
  <2>2. records' = records \ {n} /\ UNCHANGED <<streamState, connected, netCall>>
    BY <1>5, NetworkRemoveAt DEF Network!Expire
  <2>3. /\ n \in records \ Network!OpenRecords /\ retired' \in Seq(Streams)
        /\ \A j, k \in 1 .. Len(retired') : retired'[j] = retired'[k] => j = k
        /\ \A m \in Streams : (\E j \in 1 .. Len(retired') : retired'[j] = m) <=>
                            m \in (records \ {n}) \ Network!OpenRecords
        /\ {m \in records \ {n} : Network!Open(m)} = Network!OpenRecords
        /\ IsFiniteSet(records \ {n}) /\ Cardinality(records \ {n}) <= Cardinality(records)
    BY <2>1, NetworkForgetting
  <2>4. Network!OpenRecords' = Network!OpenRecords
    BY <2>2, <2>3 DEF Network!OpenRecords, Network!Open
  <2>5. NetworkLimitInv'
    <3>1. Cardinality(records) \in Nat /\ Cardinality(records \ {n}) \in Nat
      BY <2>3, FS_CardinalityType DEF NetworkIInv, NetworkCoreInv, NetworkLimitInv
    <3>. QED
      BY <2>2, <2>3, <2>4, <3>1
         DEF NetworkIInv, NetworkCoreInv, NetworkLimitInv, Network!StreamsAssumption
  <2>6. NetworkRetiredInv'
    BY <2>2, <2>3, <2>4 DEF NetworkRetiredInv
  <2>7. NetworkDialInv' /\ NetworkConnectionInv'
    BY <2>2, <2>4
       DEF NetworkIInv, NetworkCoreInv, NetworkDialInv, NetworkConnectionInv, NetworkInserting
  <2>. QED
    BY <2>2, <2>3, <2>5, <2>6, <2>7 DEF NetworkCoreInv, NetworkRecordTypes, NetworkIInv, Network!TypeOK
<1>6. ASSUME NEW n \in Streams, Network!Connected(n) PROVE C
  <2>1. /\ netCall = [op |-> "dial", on |-> {n}] /\ connected' = connected \cup {n}
        /\ netCall' = [op |-> "insert", on |-> {n}]
        /\ UNCHANGED <<streamState, records, retired>>
    BY <1>6 DEF Network!Connected
  <2>2. Network!OpenRecords' = Network!OpenRecords
    BY <2>1 DEF Network!OpenRecords, Network!Open
  <2>3. NetworkLimitInv' /\ NetworkRetiredInv'
    BY <2>1, <2>2 DEF NetworkIInv, NetworkCoreInv, NetworkLimitInv, NetworkRetiredInv
  <2>4. NetworkDialInv' /\ NetworkConnectionInv'
    BY <2>1, <2>2
       DEF NetworkIInv, NetworkCoreInv, NetworkDialInv, NetworkConnectionInv, NetworkInserting
  <2>. QED
    BY <2>1, <2>3, <2>4 DEF NetworkCoreInv, NetworkRecordTypes, NetworkIInv, Network!TypeOK
<1>7. ASSUME NEW n \in Streams, Network!Dial(n) \/ Network!DialFails(n) PROVE C
  BY <1>7, NetworkUntouched DEF Network!Dial, Network!DialFails, Network!NoCall, NetworkInserting
<1>8. ASSUME NEW n \in Streams, NEW op \in {"read", "peek"}, Network!BeginRead(n, op) PROVE C
  BY <1>8, NetworkUntouched DEF Network!BeginRead, Network!NoCall, NetworkInserting
<1>9. ASSUME NEW n \in Streams, Network!ReadReturns(n) \/ Network!ReadTimesOut(n) PROVE C
  BY <1>9, NetworkUntouched
     DEF Network!ReadReturns, Network!ReadTimesOut, Network!Reading, Network!NoCall, NetworkInserting
<1>10. ASSUME UNCHANGED <<streamState, records, retired, connected, netCall>> PROVE C
  BY <1>10, NetworkUntouched DEF NetworkInserting, NetworkIInv, NetworkCoreInv, NetworkDialInv
<1>11. ASSUME NEW n \in Streams, Network!Attach(n) \/ Network!BrowserReads(n) \/ Network!Arrive(n) \/ Network!PeerCloses(n)
       PROVE  UNCHANGED <<streamState, records, retired, connected, netCall>>
  BY <1>11 DEF Network!Attach, Network!BrowserReads, Network!Arrive, Network!PeerCloses
<1> HIDE DEF C
<1>12. C
  BY <1>1, <1>2, <1>3, <1>4, <1>5, <1>6, <1>7, <1>8, <1>9, <1>10, <1>11
     DEF Network!Next, Network!streamVars
<1>. QED
  BY <1>12 DEF C

\* The rest of the type invariant.
NetworkOtherTypes ==
  /\ attached \subseteq Streams /\ deadline \subseteq Streams /\ ended \subseteq Streams
  /\ waiting \in [Streams -> 0 .. MaxBytes] /\ streamsClosed \in BOOLEAN
  /\ netCall \in [op : {"none", "dial", "insert", "read", "peek"}, on : SUBSET Streams]

LEMMA NetworkTypeStep ==
  ASSUME Network!StreamsAssumption, NetworkOtherTypes, [Network!Next]_(Network!streamVars)
  PROVE  NetworkOtherTypes'
<1> USE DEF NetworkOtherTypes, Network!peer
<1>1. Network!NoCall \in [op : {"none", "dial", "insert", "read", "peek"}, on : SUBSET Streams]
  BY DEF Network!NoCall
<1>2. ASSUME NEW n \in Streams, Network!Dial(n) \/ Network!DialFails(n) \/ Network!Connected(n) PROVE NetworkOtherTypes'
  BY <1>1, <1>2 DEF Network!Dial, Network!DialFails, Network!Connected
<1>3. ASSUME NEW n \in Streams, Network!Insert(n) PROVE NetworkOtherTypes'
  <2>1. UNCHANGED <<attached, waiting, ended, deadline, streamsClosed>> /\ netCall' = Network!NoCall
    BY <1>3, NetworkCardinality, NetworkRemoveAt DEF Network!Insert
  <2>. QED
    BY <1>1, <2>1
<1>4. ASSUME NEW n \in Streams, NEW op \in {"read", "peek"}, Network!BeginRead(n, op) PROVE NetworkOtherTypes'
  BY <1>4 DEF Network!BeginRead
<1>5. ASSUME NEW n \in Streams, Network!ReadReturns(n) \/ Network!BrowserReads(n) PROVE NetworkOtherTypes'
  <2>1. /\ waiting[n] > 0
        /\ waiting' = [waiting EXCEPT ![n] = @ - 1] \/ waiting' = [waiting EXCEPT ![n] = @]
    BY <1>5 DEF Network!ReadReturns, Network!BrowserReads
  <2>2. waiting[n] \in 0 .. MaxBytes /\ waiting[n] - 1 \in 0 .. MaxBytes
    BY <2>1 DEF Network!StreamsAssumption
  <2>3. waiting' \in [Streams -> 0 .. MaxBytes]
    BY <2>1, <2>2
  <2>4. UNCHANGED <<attached, ended, deadline, streamsClosed>> /\ (netCall' = Network!NoCall \/ netCall' = netCall)
    BY <1>5 DEF Network!ReadReturns, Network!BrowserReads
  <2>. QED
    BY <1>1, <2>3, <2>4
<1>6. ASSUME NEW n \in Streams, Network!ReadTimesOut(n) \/ Network!ReadEnds(n) PROVE NetworkOtherTypes'
  BY <1>1, <1>6 DEF Network!ReadTimesOut, Network!ReadEnds
<1>7. ASSUME NEW n \in Streams, Network!WriteFails(n) \/ Network!CloseStream(n) \/ Network!Release(n) \/ Network!Expire(n) PROVE NetworkOtherTypes'
  BY <1>7, NetworkRemoveAt DEF Network!WriteFails, Network!CloseStream, Network!Release, Network!Expire
<1>8. ASSUME NEW n \in Streams, Network!Attach(n) PROVE NetworkOtherTypes'
  BY <1>8 DEF Network!Attach
<1>9. ASSUME NEW n \in Streams, Network!Arrive(n) PROVE NetworkOtherTypes'
  <2>1. waiting[n] + 1 \in 0 .. MaxBytes
    BY <1>9 DEF Network!Arrive, Network!StreamsAssumption
  <2>. QED
    BY <1>9, <2>1 DEF Network!Arrive
<1>10. ASSUME NEW n \in Streams, Network!PeerCloses(n) PROVE NetworkOtherTypes'
  BY <1>10 DEF Network!PeerCloses
<1>11. ASSUME Network!StopOwner \/ Network!CloseManager PROVE NetworkOtherTypes'
  BY <1>11 DEF Network!StopOwner, Network!CloseManager, Network!DropRecords
<1>12. ASSUME UNCHANGED Network!streamVars PROVE NetworkOtherTypes'
  BY <1>12 DEF Network!streamVars
<1> HIDE DEF NetworkOtherTypes
<1>. QED
  BY <1>2, <1>3, <1>4, <1>5, <1>6, <1>7, <1>8, <1>9, <1>10, <1>11, <1>12 DEF Network!Next

LEMMA NetworkTyping == Network!TypeOK <=> NetworkRecordTypes /\ NetworkOtherTypes
  BY DEF Network!TypeOK, NetworkRecordTypes, NetworkOtherTypes

LEMMA NetworkInvariance ==
  ASSUME Network!StreamsAssumption
  PROVE  Network!Spec => []NetworkIInv
<1>1. Network!Init => NetworkIInv
  BY NetworkInitInv
<1>2. NetworkIInv /\ [Network!Next]_(Network!streamVars) => NetworkIInv'
  <2>1. SUFFICES ASSUME NetworkIInv, [Network!Next]_(Network!streamVars) PROVE NetworkIInv'
    OBVIOUS
  <2>2. NetworkCoreInv' /\ NetworkRecordTypes'
    BY <2>1, NetworkCoreStep
  <2>3. NetworkOtherTypes'
    BY <2>1, NetworkTypeStep, NetworkTyping DEF NetworkIInv
  <2>. QED
    BY <2>2, <2>3 DEF NetworkIInv, Network!TypeOK, NetworkRecordTypes, NetworkOtherTypes
<1>. QED
  BY <1>1, <1>2, PTL DEF Network!Spec

\* The streams, calls and limits keep their types.
THEOREM NetworkTypeCorrect ==
  ASSUME Network!StreamsAssumption
  PROVE  Network!Spec => []Network!TypeOK
<1>1. NetworkIInv => Network!TypeOK
  BY DEF NetworkIInv
<1>. QED
  BY <1>1, NetworkInvariance, PTL

\* Whatever is dialled, evicted, attached, stopped or closed, and in whatever
\* order: no open connection is without an open record or an open call, no open
\* record without its connection, and no limit is passed.
THEOREM ConnectionsStayRecorded ==
  ASSUME Network!StreamsAssumption
  PROVE  Network!Spec => []Network!ConnectionsAreRecorded
<1>1. NetworkIInv => Network!ConnectionsAreRecorded
  <2>1. SUFFICES ASSUME NetworkIInv PROVE Network!ConnectionsAreRecorded
    OBVIOUS
  <2>2. connected \subseteq Network!OpenRecords \cup netCall.on /\ Network!OpenRecords \subseteq connected
    BY <2>1 DEF NetworkIInv, NetworkCoreInv, NetworkConnectionInv, NetworkInserting
  <2>3. retired \in Seq(Streams) /\ records \subseteq Streams
    BY <2>1 DEF NetworkIInv, Network!TypeOK
  <2>4. ToSet(retired) = records \ Network!OpenRecords
    <3>1. \A m : m \in ToSet(retired) <=> \E i \in 1 .. Len(retired) : retired[i] = m
      BY <2>3 DEF ToSet
    <3>2. \A m : (\E i \in 1 .. Len(retired) : retired[i] = m) => m \in Streams
      BY <2>3
    <3>. QED
      BY <2>1, <2>3, <3>1, <3>2 DEF NetworkIInv, NetworkCoreInv, NetworkRetiredInv
  <2>. QED
    BY <2>1, <2>2, <2>4, NetworkCardinality, NetworkToSet
       DEF Network!ConnectionsAreRecorded, NetworkIInv, NetworkCoreInv, NetworkLimitInv
<1>. QED
  BY <1>1, NetworkInvariance, PTL


-----------------------------------------------------------------------------
(***************************************************************************)
(* Proofs about the configuration and its data root: what a request was    *)
(* told is saved stays saved, for any roots and any number of updates,     *)
(* wherever a save or a relocation fails or RunPilot ends.                 *)
(***************************************************************************)

\* A root without files was promised nothing; a save that fails or is cut short
\* finds what it replaces, and a save takes nothing back.
RootStoreInv ==
  /\ \A root \in Roots : content[root].is = "absent" => content[root].config = Root!Fresh
  /\ rootPhase \in {"up", "saving"} => content[active].is # "absent"
  /\ rootPhase = "saving" =>
       /\ previous = content[active].config
       /\ (previous.admin => memory.admin) /\ previous.edits <= memory.edits

\* The one relocation that may be queued is applied when nothing else runs. Its
\* copy is promised nothing before the locator names it.
RootRelocationInv ==
  /\ rootStep # "idle" => rootPhase = "stopped"
  /\ rootStep = "read" => ~created
  /\ rootStep = "copy" => created
  /\ \A p, q \in pending : p = q
  /\ \A p \in pending :
       /\ p.source # p.destination
       /\ rootStep \in {"copy", "locate"} => p.source = locator
       /\ rootStep \in {"copy", "locate", "failed"} /\ created => acked[p.destination] = Root!Fresh
       /\ rootStep = "locate" /\ ~p.switch =>
            content[p.destination] = [is |-> "whole", config |-> content[p.source].config]

RootIInv == Root!TypeOK /\ RootStoreInv /\ RootRelocationInv /\ Root!RootKept

-----------------------------------------------------------------------------

\* What an update or a claim does to a configuration.
LEMMA RootEditing ==
  ASSUME Root!RootAssumption, NEW config \in Root!Configs
  PROVE  /\ config.edits \in Nat /\ config.edits <= config.edits
         /\ LET c == [config EXCEPT !.admin = TRUE]
            IN c \in Root!Configs /\ c.admin /\ c.edits = config.edits
         /\ config.edits < MaxEdits =>
              LET c == [config EXCEPT !.edits = @ + 1]
              IN c \in Root!Configs /\ c.admin = config.admin /\ config.edits <= c.edits
<1>1. config.edits \in 0 .. MaxEdits /\ config.admin \in BOOLEAN /\ MaxEdits \in Nat
  BY DEF Root!Configs, Root!RootAssumption
<1>2. LET c == [config EXCEPT !.admin = TRUE]
      IN c \in Root!Configs /\ c.admin /\ c.edits = config.edits
  BY DEF Root!Configs
<1>3. ASSUME config.edits < MaxEdits
      PROVE  LET c == [config EXCEPT !.edits = @ + 1]
             IN c \in Root!Configs /\ c.admin = config.admin /\ config.edits <= c.edits
  <2> DEFINE c == [config EXCEPT !.edits = @ + 1]
  <2>1. c.admin = config.admin /\ c.edits = config.edits + 1
    BY DEF Root!Configs
  <2>2. config.edits + 1 \in 0 .. MaxEdits
    BY <1>1, <1>3
  <2>3. c \in Root!Configs
    BY <2>2 DEF Root!Configs
  <2>. QED
    BY <1>1, <2>1, <2>3
<1>. QED
  BY <1>1, <1>2, <1>3

\* The default configuration is the least one.
LEMMA RootLeastConfiguration ==
  ASSUME Root!RootAssumption
  PROVE  /\ Root!Fresh \in Root!Configs /\ ~Root!Fresh.admin /\ Root!Fresh.edits = 0
         /\ \A c \in Root!Configs : c.edits >= 0 /\ (~c.admin /\ c.edits <= 0 => c = Root!Fresh)
<1>1. Root!Fresh \in Root!Configs /\ ~Root!Fresh.admin /\ Root!Fresh.edits = 0
  BY DEF Root!RootAssumption, Root!Fresh, Root!Configs
<1>2. ASSUME NEW c \in Root!Configs PROVE c.edits >= 0 /\ (~c.admin /\ c.edits <= 0 => c = Root!Fresh)
  <2>1. c.admin \in BOOLEAN /\ c.edits \in Nat
    BY DEF Root!RootAssumption, Root!Configs
  <2>. QED
    BY <2>1 DEF Root!Configs, Root!Fresh
<1>. QED
  BY <1>1, <1>2

LEMMA RootInitInv == Root!RootAssumption /\ Root!Init => RootIInv
<1> SUFFICES ASSUME Root!RootAssumption, Root!Init PROVE RootIInv
  OBVIOUS
<1>1. Root!Fresh \in Root!Configs
  BY RootLeastConfiguration
<1>2. \A root \in Roots : content[root].config = Root!Fresh /\ content[root].is \in {"absent", "whole"}
  <2>1. \A root \in Roots : content[root] \in {Root!Absent, [is |-> "whole", config |-> Root!Fresh]}
    BY DEF Root!Init
  <2> SUFFICES ASSUME NEW root \in Roots
               PROVE  content[root].config = Root!Fresh /\ content[root].is \in {"absent", "whole"}
    OBVIOUS
  <2>2. content[root] = Root!Absent \/ content[root] = [is |-> "whole", config |-> Root!Fresh]
    BY <2>1
  <2>. QED
    BY <2>2 DEF Root!Absent
<1>3. content \in [Roots -> [is : {"absent", "partial", "whole"}, config : Root!Configs]]
  BY <1>1 DEF Root!Init, Root!Absent
<1>4. Root!TypeOK
  BY <1>1, <1>3 DEF Root!Init, Root!TypeOK, Root!RootAssumption, Root!NoRelocation
<1>5. RootStoreInv /\ RootRelocationInv
  BY <1>2 DEF Root!Init, RootStoreInv, RootRelocationInv, Root!NoRelocation
<1>6. Root!RootKept
  BY <1>2
     DEF Root!Init, Root!RootKept, Root!NothingToldIsLost, Root!MemoryIsOnDisk, Root!RootAssumption,
         Root!Fresh
<1>. QED
  BY <1>4, <1>5, <1>6 DEF RootIInv

LEMMA RootStoreStep ==
  ASSUME Root!RootAssumption, RootIInv,
              Root!Start \/ Root!Update \/ Root!Claim({}) \/ (\E root \in Roots : Root!Claim({root})) \/ Root!Saved \/ Root!SaveFails
  PROVE  RootIInv'
<1> USE DEF RootIInv, Root!TypeOK, RootStoreInv, RootRelocationInv, Root!RootKept, Root!NothingToldIsLost, Root!MemoryIsOnDisk
<1>1. CASE Root!Start
  BY <1>1 DEF Root!Start, Root!apply
<1>2. ASSUME NEW config \in Root!Configs, NEW roots \in SUBSET Roots, Root!Change(config, roots),
             memory.admin => config.admin, memory.edits <= config.edits
      PROVE  RootIInv'
  BY <1>2 DEF Root!Change, Root!onDisk, Root!apply
<1>3. CASE Root!Saved
  <2>1. /\ rootPhase = "saving" /\ rootPhase' = "up" /\ acked' = [acked EXCEPT ![active] = memory]
        /\ content' = [content EXCEPT ![active].config = memory]
        /\ UNCHANGED <<active, locator, pending, status, memory, previous, setup, rootStep, created, chosen>>
    BY <1>3 DEF Root!Saved, Root!apply
  <2>2. /\ active \in Roots /\ memory \in Root!Configs /\ rootStep = "idle"
        /\ \A root \in Roots : /\ content'[root] = IF root = active THEN [is |-> content[root].is, config |-> memory]
                                                   ELSE content[root]
                               /\ acked'[root] = IF root = active THEN memory ELSE acked[root]
    BY <2>1
  <2>3. Root!TypeOK'
    BY <2>1
  <2>4. RootStoreInv' /\ RootRelocationInv'
    BY <2>1, <2>2
  <2>5. Root!RootKept'
    BY <2>1, <2>2 DEF Root!Configs
  <2>. QED
    BY <2>3, <2>4, <2>5
<1>4. CASE Root!SaveFails
  BY <1>4 DEF Root!SaveFails, Root!onDisk, Root!apply
<1>5. CASE Root!Update
  <2> DEFINE config == [memory EXCEPT !.edits = @ + 1]
  <2>1. memory \in Root!Configs /\ memory.edits < MaxEdits /\ Root!Change(config, setup) /\ setup \in SUBSET Roots
    BY <1>5 DEF Root!Update
  <2>2. config \in Root!Configs /\ config.admin = memory.admin /\ memory.edits <= config.edits
    BY <2>1, RootEditing
  <2> HIDE DEF config
  <2>. QED
    BY <1>2, <2>1, <2>2
<1>6. ASSUME NEW roots \in SUBSET Roots, Root!Claim(roots) PROVE RootIInv'
  <2> DEFINE config == [memory EXCEPT !.admin = TRUE]
  <2>1. memory \in Root!Configs /\ Root!Change(config, roots)
    BY <1>6 DEF Root!Claim
  <2>2. config \in Root!Configs /\ config.admin /\ memory.edits <= config.edits
    BY <2>1, RootEditing
  <2> HIDE DEF config
  <2>. QED
    BY <1>2, <2>1, <2>2
<1>. QED
  <2>1. {} \in SUBSET Roots /\ \A root \in Roots : {root} \in SUBSET Roots
    OBVIOUS
  <2> HIDE DEF RootIInv
  <2>. QED
    BY <1>1, <1>3, <1>4, <1>5, <1>6, <2>1

\* A setup in an existing root, a crash, and what queues a relocation.
LEMMA RootQueueStep ==
  ASSUME Root!RootAssumption, RootIInv,
              \/ \E root \in Roots : Root!Adopt(root) \/ Root!QueueSwitch(root)
              \/ Root!QueueMigration \/ Root!Restart \/ Root!Crash
  PROVE  RootIInv'
<1> USE DEF RootIInv, Root!TypeOK, RootStoreInv, RootRelocationInv, Root!RootKept, Root!NothingToldIsLost, Root!MemoryIsOnDisk
<1>1. ASSUME NEW root \in Roots, Root!Adopt(root) PROVE RootIInv'
  <2>1. /\ rootPhase = "up" /\ root # active /\ content[root].is # "absent"
        /\ content' = [content EXCEPT ![root].config.admin = TRUE]
        /\ acked' = [acked EXCEPT ![root] = content'[root].config]
        /\ locator' \in {root, locator} /\ chosen' = chosen \cup {root}
        /\ UNCHANGED <<rootPhase, active, pending, status, memory, previous, setup, rootStep, created>>
    BY <1>1 DEF Root!Adopt, Root!apply
  <2>2. /\ content[root] \in [is : {"absent", "partial", "whole"}, config : Root!Configs] /\ root \in Roots
        /\ content[root].config \in Root!Configs
    OBVIOUS
  <2>3. PICK config \in Root!Configs : config = [content[root].config EXCEPT !.admin = TRUE]
    BY <2>2, RootEditing
  <2>4. config.admin /\ config.edits = content[root].config.edits /\ config.edits \in Nat
    BY <2>2, <2>3, RootEditing
  <2>5. /\ \A r \in Roots : content'[r] = IF r = root THEN [content[root] EXCEPT !.config = config] ELSE content[r]
        /\ content'[root].is = content[root].is /\ content'[root].config = config
        /\ content' \in [Roots -> [is : {"absent", "partial", "whole"}, config : Root!Configs]]
    <3>1. content' = [content EXCEPT ![root] = [content[root] EXCEPT !.config = config]]
      BY <2>1, <2>3
    <3>2. ASSUME NEW c \in [is : {"absent", "partial", "whole"}, config : Root!Configs]
          PROVE  LET d == [c EXCEPT !.config = config]
                 IN d \in [is : {"absent", "partial", "whole"}, config : Root!Configs] /\ d.is = c.is /\ d.config = config
      OBVIOUS
    <3> HIDE DEF RootIInv
    <3>. QED
      BY <2>2, <3>1, <3>2 DEF RootIInv
  <2>6. acked' = [acked EXCEPT ![root] = config]
    BY <2>1, <2>5
  <2>7. Root!TypeOK'
    <3>1. acked' \in [Roots -> Root!Configs]
      BY <2>6
    <3>2. {active', locator'} \subseteq Roots /\ chosen' \subseteq Roots
      BY <2>1
    <3>. QED
      BY <2>1, <2>5, <3>1, <3>2
  <2>8. \A r \in Roots : /\ content'[r] = IF r = root THEN [is |-> content[r].is, config |-> config] ELSE content[r]
                         /\ acked'[r] = IF r = root THEN config ELSE acked[r]
    BY <2>5, <2>6
  <2>9. active \in Roots /\ rootStep = "idle" /\ pending \in SUBSET [source : Roots, destination : Roots, switch : BOOLEAN]
    BY <2>1
  <2>10. RootStoreInv' /\ RootRelocationInv'
    BY <2>1, <2>8, <2>9
  <2>11. Root!RootKept'
    BY <2>1, <2>4, <2>8
  <2>. QED
    BY <2>7, <2>10, <2>11
<1>2. ASSUME NEW root \in Roots, NEW switch \in BOOLEAN, Root!Queue(root, switch), rootPhase = "up",
             setup' \subseteq Roots,
             UNCHANGED <<rootPhase, active, content, locator, memory, previous, acked, rootStep, created, chosen>>
      PROVE  RootIInv'
  BY <1>2 DEF Root!Queue, Root!NoRelocation
<1>3. ASSUME NEW root \in Roots, Root!QueueSwitch(root) PROVE RootIInv'
  BY <1>2, <1>3 DEF Root!QueueSwitch, Root!store, Root!apply
<1>4. CASE Root!QueueMigration
  <2>1. /\ rootPhase = "up" /\ setup' = {}
        /\ UNCHANGED <<rootPhase, active, content, locator, memory, previous, acked, rootStep, created, chosen>>
        /\ (\E root \in setup : Root!Queue(root, FALSE)) \/ UNCHANGED <<pending, status>>
    BY <1>4 DEF Root!QueueMigration, Root!apply
  <2>2. CASE UNCHANGED <<pending, status>>
    BY <2>1, <2>2
  <2>3. ASSUME NEW root \in setup, Root!Queue(root, FALSE) PROVE RootIInv'
    BY <1>2, <2>1, <2>3
  <2>. QED
    BY <2>1, <2>2, <2>3
<1>5. CASE Root!Restart
  BY <1>5 DEF Root!Restart, Root!onDisk, Root!store
<1>6. CASE Root!Crash
  <2>1. /\ rootPhase' = "down" /\ rootStep' = "idle" /\ setup' = {}
        /\ UNCHANGED <<active, locator, pending, status, memory, previous, acked, created, chosen>>
        /\ content' = content \/ (rootPhase = "saving" /\ content' = [content EXCEPT ![active].config = memory])
    BY <1>6 DEF Root!Crash
  <2>2. CASE content' = content
    BY <2>1, <2>2
  <2>3. CASE rootPhase = "saving" /\ content' = [content EXCEPT ![active].config = memory]
    <3>1. /\ active \in Roots /\ memory \in Root!Configs /\ rootPhase' # "up" /\ rootPhase' # "saving"
          /\ \A root \in Roots : content'[root] = IF root = active THEN [is |-> content[root].is, config |-> memory]
                                                  ELSE content[root]
      BY <2>1, <2>3
    <3>2. Root!TypeOK'
      BY <2>1, <2>3
    <3>3. RootStoreInv'
      BY <2>1, <2>3, <3>1
    <3>5. RootRelocationInv'
      BY <2>1, <3>1
    <3>4. Root!RootKept'
      BY <2>1, <2>3, <3>1 DEF Root!Configs
    <3>. QED
      BY <3>2, <3>3, <3>4, <3>5
  <2>. QED
    BY <2>1, <2>2, <2>3
<1> HIDE DEF RootIInv
<1>. QED
  BY <1>1, <1>3, <1>4, <1>5, <1>6

\* The steps of ApplyPendingDataRoot, with RunPilot's processes stopped.
LEMMA RootApplyStep ==
  ASSUME Root!RootAssumption, RootIInv,
              \/ Root!Skip \/ Root!CopyFails \/ Root!LocatorFails \/ Root!Complete \/ Root!Settle
              \/ \E p \in pending : Root!BeginCopy(p) \/ Root!Copied(p) \/ Root!ChooseRoot(p) \/ Root!WriteLocator(p) \/ Root!Fail(p)
  PROVE  RootIInv'
<1> USE DEF RootIInv, Root!TypeOK, RootStoreInv, RootRelocationInv, Root!RootKept, Root!NothingToldIsLost, Root!MemoryIsOnDisk
<1>1. CASE Root!Skip \/ Root!Settle
  BY <1>1 DEF Root!Skip, Root!Settle, Root!Applied, Root!store, Root!NoRelocation
<1>2. CASE Root!CopyFails \/ Root!LocatorFails \/ Root!Complete
  BY <1>2 DEF Root!CopyFails, Root!LocatorFails, Root!Complete, Root!onDisk, Root!store
<1>3. ASSUME NEW p \in pending, Root!ChooseRoot(p) PROVE RootIInv'
  BY <1>3 DEF Root!ChooseRoot, Root!Ours, Root!onDisk, Root!store
<1>4. ASSUME NEW p \in pending
      PROVE  /\ p.source \in Roots /\ p.destination \in Roots /\ p.source # p.destination
             /\ \A q \in pending : q = p
             /\ content[p.source] \in [is : {"absent", "partial", "whole"}, config : Root!Configs]
             /\ content[p.source].config \in Root!Configs /\ Root!Fresh \in Root!Configs
  BY <1>4, RootLeastConfiguration
<1>5. ASSUME NEW p \in pending, Root!BeginCopy(p) PROVE RootIInv'
  <2>1. /\ rootStep = "read" /\ p.source = locator /\ ~p.switch
        /\ UNCHANGED <<rootPhase, active, locator, pending, status, memory, previous, acked, setup, chosen>>
    BY <1>5 DEF Root!BeginCopy, Root!Ours, Root!store
  <2>2. CASE content[p.destination].is = "absent"
    <3>1. PICK config \in {Root!Fresh, content[p.source].config} :
            content' = [content EXCEPT ![p.destination] = [is |-> "partial", config |-> config]]
      BY <1>5, <2>2 DEF Root!BeginCopy
    <3>2. created' = TRUE /\ rootStep' = "copy"
      BY <1>5, <2>2 DEF Root!BeginCopy
    <3>3. config \in Root!Configs /\ content[p.destination].config = Root!Fresh
      BY <1>4, <2>2
    <3>4. Root!TypeOK'
      BY <2>1, <3>1, <3>2, <3>3
    <3>5. acked[p.destination] = Root!Fresh
      <4>1. /\ acked[p.destination] \in Root!Configs
            /\ acked[p.destination].admin => Root!Fresh.admin
            /\ acked[p.destination].edits <= Root!Fresh.edits
        BY <1>4, <3>3
      <4> HIDE DEF RootIInv
      <4>. QED
        BY <4>1, RootLeastConfiguration
    <3>6. \A root \in Roots : content'[root] = IF root = p.destination THEN [is |-> "partial", config |-> config]
                                               ELSE content[root]
      BY <3>1
    <3>7. RootStoreInv'
      BY <2>1, <3>6
    <3>8. RootRelocationInv'
      BY <1>4, <2>1, <3>2, <3>5
    <3>9. Root!RootKept'
      <4>1. locator # p.destination
        BY <1>4, <2>1
      <4>2. ~Root!Fresh.admin /\ Root!Fresh.edits = 0 /\ config.edits >= 0
        BY <3>3, RootLeastConfiguration
      <4>. QED
        BY <1>4, <2>1, <3>3, <3>5, <3>6, <4>1, <4>2
    <3>. QED
      BY <3>4, <3>7, <3>8, <3>9
  <2>3. CASE content[p.destination].is # "absent"
    <3>1. rootStep' = "failed" /\ UNCHANGED <<content, created>>
      BY <1>5, <2>3 DEF Root!BeginCopy
    <3>. QED
      BY <2>1, <3>1
  <2>. QED
    BY <2>2, <2>3
<1>6. ASSUME NEW p \in pending, Root!Copied(p) PROVE RootIInv'
  <2>1. /\ rootStep = "copy" /\ rootStep' = "locate" /\ created /\ p.source = locator
        /\ content' = [content EXCEPT ![p.destination] = [is |-> "whole", config |-> content[p.source].config]]
        /\ UNCHANGED <<rootPhase, active, locator, pending, status, memory, previous, acked, setup, created, chosen>>
    BY <1>6 DEF Root!Copied, Root!store
  <2>2. \A root \in Roots : content'[root] = IF root = p.destination THEN [is |-> "whole", config |-> content[p.source].config]
                                             ELSE content[root]
    BY <2>1
  <2>3. acked[p.destination] = Root!Fresh
    BY <2>1
  <2>4. Root!TypeOK'
    BY <1>4, <2>1
  <2>5. RootStoreInv'
    BY <2>1, <2>2
  <2>6. RootRelocationInv'
    BY <1>4, <2>1, <2>2
  <2>7. Root!RootKept'
    <3>1. ~Root!Fresh.admin /\ Root!Fresh.edits = 0 /\ content[p.source].config.edits >= 0
      BY <1>4, RootLeastConfiguration
    <3>. QED
      BY <1>4, <2>1, <2>2, <2>3, <3>1
  <2>. QED
    BY <2>4, <2>5, <2>6, <2>7
<1>7. ASSUME NEW p \in pending, Root!WriteLocator(p) PROVE RootIInv'
  <2>1. /\ rootStep = "locate" /\ locator' = p.destination /\ rootStep' = "complete"
        /\ acked' = IF p.switch THEN acked ELSE [acked EXCEPT ![p.destination] = acked[p.source]]
        /\ chosen' = IF p.switch THEN chosen \cup {p.destination} ELSE chosen
        /\ UNCHANGED <<rootPhase, active, content, pending, status, memory, previous, setup, created>>
    BY <1>7 DEF Root!WriteLocator
  <2>2. Root!TypeOK' /\ RootStoreInv' /\ RootRelocationInv'
    BY <1>4, <2>1
  <2>3. Root!RootKept'
    <3>1. CASE p.switch
      BY <1>4, <2>1, <3>1
    <3>2. CASE ~p.switch
      <4>1. /\ content[p.destination] = [is |-> "whole", config |-> content[p.source].config]
            /\ \A root \in Roots : acked'[root] = IF root = p.destination THEN acked[p.source] ELSE acked[root]
        BY <2>1, <3>2
      <4>. QED
        BY <1>4, <2>1, <4>1
    <3>. QED
      BY <3>1, <3>2
  <2>. QED
    BY <2>2, <2>3
<1>8. ASSUME NEW p \in pending, Root!Fail(p) PROVE RootIInv'
  <2>1. /\ rootStep = "failed" /\ rootStep' = "settle" /\ status' = "failed"
        /\ content' = IF created THEN [content EXCEPT ![p.destination] = Root!Absent] ELSE content
        /\ UNCHANGED <<rootPhase, active, locator, pending, memory, previous, acked, setup, created, chosen>>
    BY <1>8 DEF Root!Fail, Root!store
  <2>2. Root!Absent \in [is : {"absent", "partial", "whole"}, config : Root!Configs] /\ Root!Absent.is = "absent" /\ Root!Absent.config = Root!Fresh
    BY <1>4 DEF Root!Absent
  <2>3. Root!TypeOK'
    BY <2>1, <2>2
  <2>4. \A root \in Roots : content'[root] = IF created /\ root = p.destination THEN Root!Absent ELSE content[root]
    BY <2>1
  <2>5. RootStoreInv' /\ RootRelocationInv'
    BY <2>1, <2>2, <2>4
  <2>6. created => acked[p.destination] = Root!Fresh
    BY <2>1
  <2>7. Root!RootKept'
    BY <2>1, <2>2, <2>4, <2>6 DEF Root!Fresh
  <2>. QED
    BY <2>3, <2>5, <2>7
<1> HIDE DEF RootIInv
<1>. QED
  BY <1>1, <1>2, <1>3, <1>5, <1>6, <1>7, <1>8

LEMMA RootInvariance ==
  ASSUME Root!RootAssumption
  PROVE  Root!Spec => []RootIInv
<1>1. Root!Init => RootIInv
  BY RootInitInv
<1>2. RootIInv /\ [Root!Next]_(Root!rootVars) => RootIInv'
  <2>1. SUFFICES ASSUME RootIInv, [Root!Next]_(Root!rootVars) PROVE RootIInv'
    OBVIOUS
  <2>2. CASE Root!Next
    BY <2>1, <2>2, RootStoreStep, RootQueueStep, RootApplyStep DEF Root!Next
  <2>3. CASE UNCHANGED Root!rootVars
    BY <2>1, <2>3
       DEF Root!rootVars, Root!onDisk, Root!store, Root!apply, RootIInv, Root!TypeOK, RootStoreInv,
           RootRelocationInv, Root!RootKept, Root!NothingToldIsLost, Root!MemoryIsOnDisk
  <2>. QED
    BY <2>1, <2>2, <2>3
<1>. QED
  BY <1>1, <1>2, PTL DEF Root!Spec

\* The roots, what they hold and what is queued keep their types.
THEOREM RootTypeCorrect ==
  ASSUME Root!RootAssumption
  PROVE  Root!Spec => []Root!TypeOK
<1>1. RootIInv => Root!TypeOK
  BY DEF RootIInv
<1>. QED
  BY <1>1, RootInvariance, PTL

\* saveLocked, ConfigureAdmin, ApplyPendingDataRoot: wherever a save or a
\* relocation fails or RunPilot ends, the root of the next start holds what
\* requests were told is saved, and memory shows what is on disk.
THEOREM RootStaysKept ==
  ASSUME Root!RootAssumption
  PROVE  Root!Spec => []Root!RootKept
<1>1. RootIInv => Root!RootKept
  BY DEF RootIInv
<1>. QED
  BY <1>1, RootInvariance, PTL


-----------------------------------------------------------------------------
(***************************************************************************)
(* Proofs about plugin packages: what was activated keeps its files and    *)
(* what a restart would change is told, for any plugins and versions.      *)
(***************************************************************************)

\* The operators of the library, as the component has them.
LEMMA PackagesIsFiniteSet == \A X : Packages!IsFiniteSet(X) <=> IsFiniteSet(X)
BY DEF Packages!IsFiniteSet, IsFiniteSet
LEMMA PackagesCardinality == \A X : Packages!Cardinality(X) = Cardinality(X)
BY DEF Packages!Cardinality, Packages!IsFiniteSet, Cardinality, IsFiniteSet
LEMMA PackagesMax == \A X : Packages!Max(X) = Max(X)
BY DEF Packages!Max, Max

\* What is counted and what the newest is chosen of is finite.
PackagesFiniteInv == IsFiniteSet(removed) /\ \A id \in Ids : IsFiniteSet(releases[id])

\* Fixtures are removed, and retired directories swept, while nothing is active.
PackagesActivationInv ==
  /\ state \in {"down", "opening"} => \A id \in Ids : live[id] = Packages!Inactive
  /\ Packages!FilesKept

\* Between the change of the configuration and the rename of an uninstall only
\* the plugin that goes may differ untold.
PackagesDue(id) ==
  LET runs == enabled[id] /\ plugins[id].version \notin {0} \cup Incompatible /\ ~plugins[id].failed
  IN live[id].version = IF runs THEN plugins[id].version ELSE 0

PackagesRestartInv ==
  /\ state = "up" => going = {}
  /\ state \in {"up", "uninstalling"} /\ ~restart => \A id \in Ids \ (torn \cup going) : PackagesDue(id)

PackagesIInv == Packages!TypeOK /\ PackagesFiniteInv /\ PackagesActivationInv /\ PackagesRestartInv

-----------------------------------------------------------------------------

\* The newest of finitely many versions: one that has the fewest above it.
LEMMA PackagesNewestVersion ==
  ASSUME NEW S \in SUBSET Nat, IsFiniteSet(S), S # {}
  PROVE  Max(S) \in S /\ \A y \in S : Max(S) >= y
<1> DEFINE Above(x) == {y \in S : y > x}
           Counts == {Cardinality(Above(x)) : x \in S}
<1>1. \A x : Above(x) \subseteq S /\ IsFiniteSet(Above(x)) /\ Cardinality(Above(x)) \in Nat
  <2>1. \A x : Above(x) \subseteq S
    OBVIOUS
  <2> HIDE DEF Above
  <2>. QED
    BY <2>1, FS_Subset, FS_CardinalityType
<1>2. \A x, y \in S : y > x => Above(y) \subseteq Above(x) /\ y \in Above(x) /\ y \notin Above(y)
  <2>1. \A x, y, z \in S : y > x /\ z > y => z > x
    OBVIOUS
  <2>2. \A x \in S : ~(x > x)
    OBVIOUS
  <2>. QED
    BY <2>1, <2>2
<1> HIDE DEF Above
<1>3. \A x, y \in S : y > x => Cardinality(Above(y)) < Cardinality(Above(x))
  <2>1. SUFFICES ASSUME NEW x \in S, NEW y \in S, y > x
                 PROVE  Cardinality(Above(y)) < Cardinality(Above(x))
    OBVIOUS
  <2>2. Above(y) \subseteq Above(x) /\ Above(y) # Above(x)
    BY <1>2, <2>1
  <2>3. Cardinality(Above(y)) <= Cardinality(Above(x)) /\ Cardinality(Above(y)) # Cardinality(Above(x))
    BY <1>1, <2>2, FS_Subset
  <2>. QED
    BY <1>1, <2>3
<1>4. Counts \subseteq Nat /\ Counts # {}
  BY <1>1
<1>5. PICK k \in Counts : \A j \in Counts : ~(j < k)
  <2>1. PICK k \in Counts : \A j \in Counts : <<j, k>> \notin OpToRel(<, Nat)
    BY <1>4, NatLessThanWellFounded, WFMin
  <2> HIDE DEF Counts
  <2>2. \A j \in Counts : j < k => <<j, k>> \in OpToRel(<, Nat)
    BY <1>4 DEF OpToRel
  <2>. QED
    BY <2>1, <2>2
<1>6. PICK x \in S : k = Cardinality(Above(x))
  OBVIOUS
<1>7. \A y \in S : x >= y
  <2>1. \A y \in S : ~(y > x)
    BY <1>3, <1>5, <1>6
  <2>. QED
    BY <2>1
<1>. QED
  BY <1>7 DEF Max

\* Discovery knows nothing, or the newest release that is there.
LEMMA PackagesDiscovering ==
  ASSUME Packages!PackagesAssumption, Packages!TypeOK, NEW disk \in [Ids -> SUBSET Versions],
                  \A id \in Ids : IsFiniteSet(disk[id])
  PROVE  /\ Packages!Discovered(disk) \in [Ids -> [version : {0} \cup Versions, failed : BOOLEAN]]
         /\ \A id \in Ids : LET v == Packages!Discovered(disk)[id].version IN v = 0 \/ v \in disk[id]
<1>1. ASSUME NEW id \in Ids, disk[id] # {}
      PROVE  Max(disk[id]) \in disk[id] /\ Max(disk[id]) \in Versions
  <2>1. disk[id] \in SUBSET Nat /\ disk[id] \subseteq Versions
    BY PackagesIsFiniteSet DEF Packages!PackagesAssumption
  <2>. QED
    BY <1>1, <2>1, PackagesNewestVersion
<1>2. ASSUME NEW id \in Ids
      PROVE  /\ Packages!Discovered(disk)[id] \in [version : {0} \cup Versions, failed : BOOLEAN]
             /\ Packages!Discovered(disk)[id].version = 0 \/ Packages!Discovered(disk)[id].version \in disk[id]
  <2>1. CASE disk[id] = {}
    BY <2>1, PackagesMax DEF Packages!Discovered, Packages!Unknown
  <2>2. CASE disk[id] # {}
    <3>1. (plugins[id].version = Max(disk[id]) /\ plugins[id].failed) \in BOOLEAN
      BY DEF Packages!TypeOK
    <3>. QED
      BY <1>1, <2>2, <3>1, PackagesMax DEF Packages!Discovered
  <2>. QED
    BY <2>1, <2>2
<1>3. DOMAIN Packages!Discovered(disk) = Ids /\ Packages!Discovered(disk) = [id \in Ids |-> Packages!Discovered(disk)[id]]
  BY PackagesMax DEF Packages!Discovered
<1>. QED
  BY <1>2, <1>3

LEMMA PackagesInitInv == Packages!PackagesAssumption /\ Packages!Init => PackagesIInv
<1> SUFFICES ASSUME Packages!PackagesAssumption, Packages!Init PROVE PackagesIInv
  OBVIOUS
<1> DEFINE Fixed(id) == {f.version : f \in {g \in Fixture : g.id = id}}
<1>1. \A id \in Ids : Fixed(id) \subseteq Versions /\ IsFiniteSet(Fixed(id))
  <2>1. SUFFICES ASSUME NEW id \in Ids PROVE Fixed(id) \subseteq Versions /\ IsFiniteSet(Fixed(id))
    OBVIOUS
  <2> DEFINE F == {g \in Fixture : g.id = id}
  <2>2. F \subseteq Fixture /\ IsFiniteSet(F)
    <3>1. F \subseteq Fixture /\ IsFiniteSet(Fixture)
      BY PackagesIsFiniteSet DEF Packages!PackagesAssumption
    <3>. QED
      BY <3>1, FS_Subset
  <2>3. Fixed(id) \subseteq Versions
    BY PackagesIsFiniteSet DEF Packages!PackagesAssumption
  <2> DEFINE of == [f \in F |-> f.version]
  <2>4. of \in Surjection(F, Fixed(id))
    BY DEF Surjection
  <2>5. IsFiniteSet(Fixed(id))
    <3> HIDE DEF F, Fixed, of
    <3>. QED
      BY <2>2, <2>4, FS_Surjection
  <2>. QED
    BY <2>3, <2>5
<1>2. releases = [id \in Ids |-> Fixed(id)]
  BY DEF Packages!Init
<1> HIDE DEF Fixed
<1>3. Packages!TypeOK
  <2>1. releases \in [Ids -> SUBSET Versions]
    BY <1>1, <1>2
  <2>2. live \in [Ids -> [version : {0} \cup Versions, dir : 0..MaxRetired]]
    BY PackagesIsFiniteSet DEF Packages!Init, Packages!Inactive, Packages!PackagesAssumption
  <2>3. plugins \in [Ids -> [version : {0} \cup Versions, failed : BOOLEAN]]
    BY DEF Packages!Init, Packages!Unknown
  <2>. QED
    BY <2>1, <2>2, <2>3 DEF Packages!Init, Packages!TypeOK
<1>4. PackagesFiniteInv
  BY <1>1, <1>2, FS_EmptySet DEF Packages!Init, PackagesFiniteInv
<1>5. PackagesActivationInv /\ PackagesRestartInv
  BY DEF Packages!Init, PackagesActivationInv, Packages!FilesKept, PackagesRestartInv
<1>. QED
  BY <1>3, <1>4, <1>5 DEF PackagesIInv

-----------------------------------------------------------------------------

\* RunPilot starts on the packages that are there, and ends.
LEMMA PackagesLifeStep ==
  ASSUME Packages!PackagesAssumption, PackagesIInv, Packages!Open \/ Packages!Load \/ Packages!Exit
  PROVE  PackagesIInv'
<1> USE DEF PackagesIInv
<1>1. CASE Packages!Open
  <2>1. /\ state = "down" /\ state' = "opening"
        /\ releases' = [id \in Ids |-> releases[id] \ {f.version : f \in {g \in Fixture : g.id = id}}]
        /\ going' = {id \in Ids : releases'[id] # releases[id]}
        /\ UNCHANGED <<removed, enabled, plugins, live, runtimes, restart, torn>>
    BY <1>1 DEF Packages!Open, Packages!pkgMemory
  <2>2. /\ releases' \in [Ids -> SUBSET Versions] /\ going' \subseteq Ids
        /\ \A id \in Ids : releases'[id] \subseteq releases[id]
    BY <2>1 DEF Packages!TypeOK
  <2>3. Packages!TypeOK'
    BY <2>1, <2>2 DEF Packages!TypeOK
  <2>4. PackagesFiniteInv'
    BY <2>1, <2>2, FS_Subset DEF PackagesFiniteInv
  <2>5. PackagesActivationInv'
    BY <2>1 DEF PackagesActivationInv, Packages!FilesKept
  <2>6. PackagesRestartInv'
    BY <2>1 DEF PackagesRestartInv
  <2>. QED
    BY <2>3, <2>4, <2>5, <2>6
<1>2. CASE Packages!Load
  <2> DEFINE found == Packages!Discovered(releases)
  <2>1. PICK failing \in SUBSET Ids :
          /\ plugins' = [id \in Ids |-> [found[id] EXCEPT !.failed = id \in failing]]
          /\ Packages!Activate(failing)
    BY <1>2 DEF Packages!Load
  <2>2. /\ state' = "up" /\ going' = {} /\ restart' = FALSE /\ torn' = {}
        /\ enabled' = [id \in Ids |-> enabled[id] /\ id \notin going]
        /\ removed' = {} /\ releases' = releases
    BY <1>2 DEF Packages!Load, Packages!Swept
  <2>3. /\ found \in [Ids -> [version : {0} \cup Versions, failed : BOOLEAN]]
        /\ \A id \in Ids : found[id].version = 0 \/ found[id].version \in releases[id]
    BY PackagesDiscovering DEF Packages!TypeOK, PackagesFiniteInv
  <2> HIDE DEF found
  <2>4. \A id \in Ids : /\ plugins'[id] \in [version : {0} \cup Versions, failed : BOOLEAN]
                        /\ plugins'[id].version = found[id].version
                        /\ plugins'[id].failed = (id \in failing)
    <3>1. ASSUME NEW p \in [version : {0} \cup Versions, failed : BOOLEAN], NEW b \in BOOLEAN
          PROVE  LET q == [p EXCEPT !.failed = b]
                 IN /\ q \in [version : {0} \cup Versions, failed : BOOLEAN]
                    /\ q.version = p.version /\ q.failed = b
      OBVIOUS
    <3>2. SUFFICES ASSUME NEW id \in Ids
                   PROVE  /\ plugins'[id] \in [version : {0} \cup Versions, failed : BOOLEAN]
                          /\ plugins'[id].version = found[id].version
                          /\ plugins'[id].failed = (id \in failing)
      OBVIOUS
    <3>3. plugins'[id] = [found[id] EXCEPT !.failed = id \in failing]
      BY <2>1
    <3>4. (id \in failing) \in BOOLEAN /\ found[id] \in [version : {0} \cup Versions, failed : BOOLEAN]
      BY <2>3
    <3>. QED
      BY <3>1, <3>3, <3>4
  <2>5. /\ failing \subseteq {id \in WithBackend : Packages!Activatable(id)}
        /\ runtimes' = {id \in WithBackend : Packages!Activatable(id)} \ failing
        /\ \A id \in Ids : live'[id] = IF Packages!Activatable(id) /\ id \notin failing
                             THEN [version |-> plugins'[id].version, dir |-> Packages!InReleases] ELSE Packages!Inactive
        /\ live' = [id \in Ids |-> live'[id]]
    BY <2>1 DEF Packages!Activate
  <2>6. \A id \in Ids : Packages!Activatable(id) <=> enabled'[id] /\ plugins'[id].version \notin {0} \cup Incompatible
    BY DEF Packages!Activatable
  <2>7. \A id \in Ids : live'[id] \in [version : {0} \cup Versions, dir : 0..MaxRetired]
    BY <2>4, <2>5, PackagesIsFiniteSet
       DEF Packages!Inactive, Packages!InReleases, Packages!PackagesAssumption
  <2>8. Packages!TypeOK'
    <3>1. plugins' \in [Ids -> [version : {0} \cup Versions, failed : BOOLEAN]]
      BY <2>1, <2>4
    <3>2. live' \in [Ids -> [version : {0} \cup Versions, dir : 0..MaxRetired]]
      BY <2>5, <2>7
    <3>3. releases' \in [Ids -> SUBSET Versions] /\ enabled' \in [Ids -> BOOLEAN]
      BY <2>2 DEF Packages!TypeOK
    <3>4. runtimes' \subseteq WithBackend
      BY <2>5
    <3>. QED
      BY <2>2, <3>1, <3>2, <3>3, <3>4 DEF Packages!TypeOK
  <2>9. PackagesFiniteInv'
    BY <2>2, FS_EmptySet DEF PackagesFiniteInv
  <2>10. PackagesActivationInv'
    <3>1. ASSUME NEW id \in Ids, live'[id] # Packages!Inactive PROVE live'[id].version \in Packages!Held(id, 0)'
      <4>1. live'[id].version = found[id].version /\ found[id].version # 0
        BY <2>4, <2>5, <2>6, <3>1
      <4>. QED
        BY <2>2, <2>3, <4>1 DEF Packages!Held, Packages!InReleases
    <3>2. 0 \in 0 .. MaxRetired
      BY PackagesIsFiniteSet DEF Packages!PackagesAssumption
    <3>. QED
      BY <2>2, <3>1, <3>2 DEF PackagesActivationInv, Packages!FilesKept
  <2>11. PackagesRestartInv'
    <3>1. ASSUME NEW id \in Ids PROVE PackagesDue(id)'
      <4>1. id \in failing => Packages!Activatable(id)
        BY <2>5
      <4>2. live'[id].version = IF Packages!Activatable(id) /\ id \notin failing THEN plugins'[id].version ELSE 0
        BY <2>5 DEF Packages!Inactive
      <4>. QED
        BY <2>4, <2>6, <4>1, <4>2 DEF PackagesDue
    <3>. QED
      BY <2>2, <3>1 DEF PackagesRestartInv
  <2>. QED
    BY <2>8, <2>9, <2>10, <2>11
<1>3. CASE Packages!Exit
  <2>1. /\ state' = "down" /\ going' = {} /\ restart' = FALSE /\ torn' = {}
        /\ plugins' = [id \in Ids |-> Packages!Unknown] /\ live' = [id \in Ids |-> Packages!Inactive] /\ runtimes' = {}
        /\ UNCHANGED <<releases, removed, enabled>>
    BY <1>3 DEF Packages!Exit, Packages!pkgDisk
  <2>2. live' \in [Ids -> [version : {0} \cup Versions, dir : 0..MaxRetired]]
    BY <2>1, PackagesIsFiniteSet DEF Packages!Inactive, Packages!PackagesAssumption
  <2>3. plugins' \in [Ids -> [version : {0} \cup Versions, failed : BOOLEAN]]
    BY <2>1 DEF Packages!Unknown
  <2>4. Packages!TypeOK'
    BY <2>1, <2>2, <2>3 DEF Packages!TypeOK
  <2>5. PackagesFiniteInv'
    BY <2>1 DEF PackagesFiniteInv
  <2>6. PackagesActivationInv' /\ PackagesRestartInv'
    BY <2>1 DEF PackagesActivationInv, Packages!FilesKept, PackagesRestartInv
  <2>. QED
    BY <2>4, <2>5, <2>6
<1>. QED
  BY <1>1, <1>2, <1>3

\* Releases that come do not touch what is active; a plugin whose discovery
\* changes is told.
LEMMA PackagesReleaseStep ==
  ASSUME Packages!PackagesAssumption, PackagesIInv,
                  Packages!Rescan \/ \E id \in Ids, v \in Versions : Packages!Install(id, v) \/ Packages!Drop(id, v)
  PROVE  PackagesIInv'
<1> USE DEF PackagesIInv
<1>1. /\ releases' \in [Ids -> SUBSET Versions]
      /\ \A id \in Ids : releases[id] \subseteq releases'[id] /\ IsFiniteSet(releases'[id])
      /\ UNCHANGED <<state, going, removed, enabled, live, runtimes, torn>>
      /\ UNCHANGED <<plugins, restart>> \/ (restart' = TRUE /\ plugins' = Packages!Discovered(releases'))
  <2>1. CASE Packages!Rescan
    <3>1. /\ UNCHANGED <<state, going, releases, removed, enabled, live, runtimes, torn>>
          /\ restart' = TRUE /\ plugins' = Packages!Discovered(releases)
      BY <2>1 DEF Packages!Rescan, Packages!Swept
    <3>2. Packages!Discovered(releases') = Packages!Discovered(releases)
      BY <3>1, PackagesMax DEF Packages!Discovered
    <3>. QED
      BY <3>1, <3>2 DEF Packages!TypeOK, PackagesFiniteInv
  <2>2. ASSUME NEW id \in Ids, NEW v \in Versions, Packages!InstallPackage(id, v)
        PROVE  /\ releases' \in [Ids -> SUBSET Versions]
               /\ \A i \in Ids : releases[i] \subseteq releases'[i] /\ IsFiniteSet(releases'[i])
    <3>1. releases' = [releases EXCEPT ![id] = @ \cup {v}] /\ releases \in [Ids -> SUBSET Versions]
      BY <2>2 DEF Packages!InstallPackage, Packages!TypeOK
    <3>2. \A i \in Ids : releases'[i] = IF i = id THEN releases[i] \cup {v} ELSE releases[i]
      BY <3>1
    <3>3. IsFiniteSet(releases[id] \cup {v})
      BY FS_AddElement DEF PackagesFiniteInv
    <3>. QED
      BY <3>1, <3>2, <3>3 DEF PackagesFiniteInv
  <2>3. ASSUME NEW id \in Ids, NEW v \in Versions, Packages!Install(id, v)
        PROVE  /\ Packages!InstallPackage(id, v) /\ plugins' = Packages!Discovered(releases') /\ restart' = TRUE
               /\ UNCHANGED <<state, going, removed, enabled, live, runtimes, torn>>
    BY <2>3 DEF Packages!Install, Packages!Swept
  <2>4. ASSUME NEW id \in Ids, NEW v \in Versions, Packages!Drop(id, v)
        PROVE  /\ Packages!InstallPackage(id, v)
               /\ UNCHANGED <<state, going, removed, enabled, plugins, live, runtimes, restart, torn>>
    BY <2>4 DEF Packages!Drop, Packages!pkgMemory
  <2> HIDE DEF PackagesIInv
  <2>. QED
    BY <2>1, <2>2, <2>3, <2>4
<1>2. Packages!TypeOK'
  <2>1. plugins' \in [Ids -> [version : {0} \cup Versions, failed : BOOLEAN]] /\ restart' \in BOOLEAN
    <3>1. CASE UNCHANGED <<plugins, restart>>
      BY <3>1 DEF Packages!TypeOK
    <3>2. CASE restart' = TRUE /\ plugins' = Packages!Discovered(releases')
      BY <1>1, <3>2, PackagesDiscovering
    <3>. QED
      BY <1>1, <3>1, <3>2
  <2>. QED
    BY <1>1, <2>1 DEF Packages!TypeOK
<1>3. PackagesFiniteInv'
  BY <1>1 DEF PackagesFiniteInv
<1>4. PackagesActivationInv'
  <2>1. \A id \in Ids : \A dir \in 0 .. MaxRetired : Packages!Held(id, dir) \subseteq Packages!Held(id, dir)'
    BY <1>1 DEF Packages!Held
  <2>. QED
    BY <1>1, <2>1 DEF PackagesActivationInv, Packages!FilesKept
<1>5. PackagesRestartInv'
  BY <1>1 DEF PackagesRestartInv, PackagesDue
<1>. QED
  BY <1>2, <1>3, <1>4, <1>5

\* An uninstall disables the plugin before it moves the releases away.
LEMMA PackagesUninstallStep ==
  ASSUME Packages!PackagesAssumption, PackagesIInv, NEW id \in Ids,
                  \/ \E value \in BOOLEAN : Packages!SetEnabled(id, value)
                  \/ Packages!Disable(id) \/ Packages!Uninstall(id) \/ Packages!UninstallFails(id)
  PROVE  PackagesIInv'
<1> USE DEF PackagesIInv
<1>1. ASSUME NEW value \in BOOLEAN, Packages!SetEnabled(id, value) PROVE PackagesIInv'
  <2>1. /\ state = "up" /\ enabled' = [enabled EXCEPT ![id] = value] /\ restart' = TRUE
        /\ UNCHANGED <<state, going, releases, removed, plugins, live, runtimes, torn>>
    BY <1>1 DEF Packages!SetEnabled
  <2>2. Packages!FilesKept' <=> Packages!FilesKept
    BY <2>1 DEF Packages!FilesKept, Packages!Held
  <2>. QED
    BY <2>1, <2>2 DEF Packages!TypeOK, PackagesFiniteInv, PackagesActivationInv, PackagesRestartInv
<1>2. CASE Packages!Disable(id)
  <2>1. /\ state = "up" /\ state' = "uninstalling" /\ going' = {id}
        /\ enabled' = [enabled EXCEPT ![id] = FALSE]
        /\ UNCHANGED <<releases, removed, plugins, live, runtimes, restart, torn>>
    BY <1>2 DEF Packages!Disable, Packages!pkgMemory
  <2>2. Packages!FilesKept' <=> Packages!FilesKept
    BY <2>1 DEF Packages!FilesKept, Packages!Held
  <2>3. \A i \in Ids \ {id} : PackagesDue(i)' <=> PackagesDue(i)
    BY <2>1 DEF PackagesDue, Packages!TypeOK
  <2>4. PackagesRestartInv'
    BY <2>1, <2>3 DEF PackagesRestartInv
  <2>. QED
    BY <2>1, <2>2, <2>4 DEF Packages!TypeOK, PackagesFiniteInv, PackagesActivationInv
<1>3. ASSUME NEW n \in 1 .. MaxRetired, Packages!Moved(id, n)
      PROVE  /\ releases' \in [Ids -> SUBSET Versions] /\ PackagesFiniteInv'
             /\ removed' \subseteq [n : 1..MaxRetired, id : Ids, versions : SUBSET Versions]
             /\ \A i \in Ids : \A dir \in 0 .. MaxRetired :
                  \/ Packages!Held(i, dir) \subseteq Packages!Held(i, dir)'
                  \/ i = id /\ dir = 0 /\ Packages!Held(i, dir) \subseteq Packages!Held(i, n)'
  <2> DEFINE batch == [n |-> n, id |-> id, versions |-> releases[id]]
  <2>1. removed' = removed \cup {batch} /\ releases' = [releases EXCEPT ![id] = {}]
    BY <1>3 DEF Packages!Moved
  <2>2. releases' \in [Ids -> SUBSET Versions] /\ \A i \in Ids : releases'[i] = IF i = id THEN {} ELSE releases[i]
    BY <2>1 DEF Packages!TypeOK
  <2>3. PackagesFiniteInv'
    BY <2>1, <2>2, FS_AddElement, FS_EmptySet DEF PackagesFiniteInv
  <2>4. \A i \in Ids : \A dir \in 1 .. MaxRetired : Packages!Held(i, dir) \subseteq Packages!Held(i, dir)'
    BY <2>1 DEF Packages!Held, Packages!InReleases
  <2>5. releases[id] \subseteq Packages!Held(id, n)'
    <3>1. batch.versions = releases[id] /\ batch \in {b \in removed' : b.n = n /\ b.id = id}
      BY <2>1
    <3>2. n # Packages!InReleases
      BY DEF Packages!InReleases
    <3> HIDE DEF batch
    <3>. QED
      BY <3>1, <3>2 DEF Packages!Held
  <2>6. \A i \in Ids : Packages!Held(i, 0) = releases[i] /\ Packages!Held(i, 0)' = releases'[i]
    BY DEF Packages!Held, Packages!InReleases
  <2>7. 0 .. MaxRetired = {0} \cup 1 .. MaxRetired
    BY PackagesIsFiniteSet DEF Packages!PackagesAssumption
  <2>. QED
    BY <2>1, <2>2, <2>3, <2>4, <2>5, <2>6, <2>7 DEF Packages!TypeOK
<1>4. Packages!Batches + 1 \in Nat \ {0}
  BY FS_CardinalityType, PackagesCardinality DEF Packages!Batches, PackagesFiniteInv
<1>5. ASSUME Packages!Moved(id, Packages!Batches + 1) PROVE Packages!Batches + 1 \in 1 .. MaxRetired
  BY <1>4, <1>5, PackagesIsFiniteSet DEF Packages!Moved, Packages!PackagesAssumption
<1>6. ASSUME Packages!Moved(id, Packages!Batches + 1), \A i \in Ids : live'[i].version = live[i].version,
                      \A i \in Ids : live'[i] = Packages!Inactive <=> live[i] = Packages!Inactive
      PROVE  Packages!FilesKept'
  <2>1. SUFFICES ASSUME NEW i \in Ids, live'[i] # Packages!Inactive
                 PROVE  \E dir \in 0 .. MaxRetired : live'[i].version \in Packages!Held(i, dir)'
    BY DEF Packages!FilesKept
  <2>2. PICK dir \in 0 .. MaxRetired : live'[i].version \in Packages!Held(i, dir)
    BY <1>6, <2>1 DEF PackagesActivationInv, Packages!FilesKept
  <2>3. Packages!Batches + 1 \in 0 .. MaxRetired
    BY <1>5, <1>6, PackagesIsFiniteSet DEF Packages!PackagesAssumption
  <2>. QED
    BY <1>3, <1>5, <1>6, <2>2, <2>3
<1>7. CASE Packages!Uninstall(id)
  <2>1. /\ state = "uninstalling" /\ going = {id} /\ state' = "up" /\ going' = {}
        /\ Packages!Moved(id, Packages!Batches + 1)
        /\ live' = [live EXCEPT ![id] = IF live[id] = Packages!Inactive THEN live[id]
                                        ELSE [live[id] EXCEPT !.dir = Packages!Batches + 1]]
        /\ plugins' = [plugins EXCEPT ![id] = Packages!Unknown] /\ restart' = TRUE /\ torn' = torn \ {id}
        /\ UNCHANGED <<enabled, runtimes>>
    BY <1>7 DEF Packages!Uninstall
  <2>2. Packages!Batches + 1 \in 1 .. MaxRetired /\ Packages!Batches + 1 \in 0 .. MaxRetired
    BY <1>5, <2>1, PackagesIsFiniteSet DEF Packages!PackagesAssumption
  <2>3. \A i \in Ids : live[i] \in [version : {0} \cup Versions, dir : 0 .. MaxRetired]
    BY DEF Packages!TypeOK
  <2>4. PICK n \in 1 .. MaxRetired : n = Packages!Batches + 1
    BY <2>2
  <2>5. ASSUME NEW a \in [version : {0} \cup Versions, dir : 0 .. MaxRetired]
        PROVE  LET b == [a EXCEPT !.dir = n]
               IN /\ b \in [version : {0} \cup Versions, dir : 0 .. MaxRetired]
                  /\ b.version = a.version /\ b.dir = n
    BY PackagesIsFiniteSet DEF Packages!PackagesAssumption
  <2>6. \A i \in Ids : live'[i] = IF i = id /\ live[i] # Packages!Inactive THEN [live[i] EXCEPT !.dir = n] ELSE live[i]
    BY <2>1, <2>4 DEF Packages!TypeOK
  <2>7. /\ \A i \in Ids : live'[i] \in [version : {0} \cup Versions, dir : 0 .. MaxRetired]
        /\ \A i \in Ids : live'[i].version = live[i].version
    BY <2>3, <2>5, <2>6
  <2>8. \A i \in Ids : live'[i] = Packages!Inactive <=> live[i] = Packages!Inactive
    <3>1. n # 0 /\ Packages!Inactive.dir = 0
      BY PackagesIsFiniteSet DEF Packages!Inactive, Packages!PackagesAssumption
    <3>2. ASSUME NEW i \in Ids, i = id, live[i] # Packages!Inactive PROVE live'[i] # Packages!Inactive
      <4>1. live'[i].dir = n
        BY <2>3, <2>5, <2>6, <3>2
      <4>. QED
        BY <3>1, <4>1
    <3>. QED
      BY <2>6, <3>2
  <2>9. Packages!TypeOK'
    <3>1. live' \in [Ids -> [version : {0} \cup Versions, dir : 0..MaxRetired]]
      BY <2>1, <2>7 DEF Packages!TypeOK
    <3>2. plugins' \in [Ids -> [version : {0} \cup Versions, failed : BOOLEAN]]
      BY <2>1 DEF Packages!TypeOK, Packages!Unknown
    <3>3. /\ releases' \in [Ids -> SUBSET Versions]
          /\ removed' \subseteq [n : 1..MaxRetired, id : Ids, versions : SUBSET Versions]
      BY <1>3, <2>1, <2>2
    <3>. QED
      BY <2>1, <3>1, <3>2, <3>3 DEF Packages!TypeOK
  <2>10. PackagesFiniteInv'
    BY <1>3, <2>1, <2>2
  <2>11. PackagesActivationInv'
    BY <1>6, <2>1, <2>7, <2>8 DEF PackagesActivationInv
  <2>12. PackagesRestartInv'
    BY <2>1 DEF PackagesRestartInv
  <2>. QED
    BY <2>9, <2>10, <2>11, <2>12
<1>8. CASE Packages!UninstallFails(id)
  <2>1. /\ state = "uninstalling" /\ going = {id} /\ state' = "up" /\ going' = {} /\ torn' = torn \cup {id}
        /\ UNCHANGED <<enabled, plugins, live, runtimes, restart>>
        /\ UNCHANGED <<releases, removed>> \/ Packages!Moved(id, Packages!Batches + 1)
    BY <1>8 DEF Packages!UninstallFails, Packages!pkgMemory
  <2>2. /\ releases' \in [Ids -> SUBSET Versions] /\ PackagesFiniteInv' /\ Packages!FilesKept'
        /\ removed' \subseteq [n : 1..MaxRetired, id : Ids, versions : SUBSET Versions]
    <3>1. CASE UNCHANGED <<releases, removed>>
      <4>1. Packages!FilesKept' <=> Packages!FilesKept
        BY <2>1, <3>1 DEF Packages!FilesKept, Packages!Held
      <4>. QED
        BY <3>1, <4>1 DEF Packages!TypeOK, PackagesFiniteInv, PackagesActivationInv
    <3>2. CASE Packages!Moved(id, Packages!Batches + 1)
      BY <1>3, <1>5, <1>6, <2>1, <3>2
    <3>. QED
      BY <2>1, <3>1, <3>2
  <2>3. Packages!TypeOK'
    BY <2>1, <2>2 DEF Packages!TypeOK
  <2>4. PackagesActivationInv'
    BY <2>1, <2>2 DEF PackagesActivationInv
  <2>5. PackagesRestartInv'
    BY <2>1 DEF PackagesRestartInv, PackagesDue
  <2>. QED
    BY <2>2, <2>3, <2>4, <2>5
<1> HIDE DEF PackagesIInv
<1>. QED
  BY <1>1, <1>2, <1>7, <1>8

LEMMA PackagesInvariance ==
  ASSUME Packages!PackagesAssumption
  PROVE  Packages!Spec => []PackagesIInv
<1>1. Packages!Init => PackagesIInv
  BY PackagesInitInv
<1>2. PackagesIInv /\ [Packages!Next]_(Packages!pkgVars) => PackagesIInv'
  <2>1. SUFFICES ASSUME PackagesIInv, [Packages!Next]_(Packages!pkgVars) PROVE PackagesIInv'
    OBVIOUS
  <2>2. CASE Packages!Next
    BY <2>1, <2>2, PackagesLifeStep, PackagesReleaseStep, PackagesUninstallStep DEF Packages!Next
  <2>3. CASE UNCHANGED Packages!pkgVars
    <3>1. UNCHANGED <<state, going, releases, removed, enabled, plugins, live, runtimes, restart, torn>>
      BY <2>3 DEF Packages!pkgVars, Packages!pkgDisk, Packages!pkgMemory
    <3>2. Packages!TypeOK' /\ PackagesFiniteInv'
      BY <2>1, <3>1 DEF PackagesIInv, Packages!TypeOK, PackagesFiniteInv
    <3>3. (Packages!FilesKept' <=> Packages!FilesKept) /\ \A id \in Ids : PackagesDue(id)' <=> PackagesDue(id)
      BY <3>1 DEF Packages!FilesKept, Packages!Held, PackagesDue
    <3>. QED
      BY <2>1, <3>1, <3>2, <3>3 DEF PackagesIInv, PackagesActivationInv, PackagesRestartInv
  <2>. QED
    BY <2>1, <2>2, <2>3
<1>. QED
  BY <1>1, <1>2, PTL DEF Packages!Spec

\* The packages on disk, what was discovered and what is active keep their types.
THEOREM PackagesTypeCorrect ==
  ASSUME Packages!PackagesAssumption
  PROVE  Packages!Spec => []Packages!TypeOK
<1>1. PackagesIInv => Packages!TypeOK
  BY DEF PackagesIInv
<1>. QED
  BY <1>1, PackagesInvariance, PTL

\* Reload, Uninstall, SetRestartRequired: what was activated keeps its files
\* until the next start, and what that start would change has been told, but
\* for a plugin whose uninstall failed.
THEOREM PackagesStayKept ==
  ASSUME Packages!PackagesAssumption
  PROVE  Packages!Spec => []Packages!PackagesKept
<1>1. PackagesIInv => Packages!PackagesKept
  BY DEF PackagesIInv, PackagesActivationInv, PackagesRestartInv, PackagesDue, Packages!RestartTold,
         Packages!PackagesKept
<1>. QED
  BY <1>1, PackagesInvariance, PTL

-----------------------------------------------------------------------------
(* The host. *)

\* A behaviour of the host is one of each of its components.
LEMMA ProcessingRuns ==
  Spec => Processing!Spec
<1>1. Init => Processing!Init
  BY DEF Init
<1>2. [Next]_vars => [Processing!Next]_(Processing!vars)
  BY DEF Next, vars, Processing!vars, processVars
<1>. QED
  BY <1>1, <1>2, PTL DEF Spec, Processing!Spec

LEMMA HistoryRuns ==
  Spec => History!Spec
<1>1. Init => History!Init
  BY DEF Init
<1>2. [Next]_vars => [History!Next]_(History!historyVars)
  BY DEF Next, vars, History!historyVars, historyVars
<1>. QED
  BY <1>1, <1>2, PTL DEF Spec, History!Spec

LEMMA NetworkRuns ==
  Spec => Network!Spec
<1>1. Init => Network!Init
  BY DEF Init
<1>2. [Next]_vars => [Network!Next]_(Network!streamVars)
  BY DEF Next, vars, Network!streamVars, streamVars
<1>. QED
  BY <1>1, <1>2, PTL DEF Spec, Network!Spec

LEMMA RootRuns ==
  Spec => Root!Spec
<1>1. Init => Root!Init
  BY DEF Init
<1>2. [Next]_vars => [Root!Next]_(Root!rootVars)
  BY DEF Next, vars, Root!rootVars, rootVars, Root!onDisk, Root!store, Root!apply
<1>. QED
  BY <1>1, <1>2, PTL DEF Spec, Root!Spec

LEMMA PackagesRun ==
  Spec => Packages!Spec
<1>1. Init => Packages!Init
  BY DEF Init
<1>2. [Next]_vars => [Packages!Next]_(Packages!pkgVars)
  BY DEF Next, vars, packageVars, Packages!pkgVars, Packages!pkgDisk, Packages!pkgMemory
<1>. QED
  BY <1>1, <1>2, PTL DEF Spec, Packages!Spec

-----------------------------------------------------------------------------

\* Every variable of every component holds values of its type, also those of
\* the components that do not run.
THEOREM HostTypesCorrect == Spec => []TypeOK
<1>1. Init => part \in Parts
  BY DEF Init
<1>2. part \in Parts /\ [Next]_vars => (part \in Parts)'
  BY DEF Next, vars
<1>3. Spec => [](part \in Parts)
  BY <1>1, <1>2, PTL DEF Spec
<1>4. Processing!Spec => []Processing!TypeOK
  BY Processing!TypeCorrect, HostAssumption
<1>5. History!Spec => []History!TypeOK
  BY ExecutionsTypeCorrect, HostAssumption
<1>6. Network!Spec => []Network!TypeOK
  BY NetworkTypeCorrect, HostAssumption
<1>7. Root!Spec => []Root!TypeOK
  BY RootTypeCorrect, HostAssumption
<1>8. Packages!Spec => []Packages!TypeOK
  BY PackagesTypeCorrect, HostAssumption
<1>9. /\ part \in Parts /\ Processing!TypeOK /\ History!TypeOK /\ Network!TypeOK
      /\ Root!TypeOK /\ Packages!TypeOK
      => TypeOK
  BY DEF TypeOK
<1>. QED
  BY <1>3, <1>4, <1>5, <1>6, <1>7, <1>8, <1>9,
     ProcessingRuns, HistoryRuns, NetworkRuns, RootRuns, PackagesRun, PTL

\* plugin_processes.go start, cancelCapture, releaseCapture: the captures of the
\* host's processes stay apart and none is left behind.
THEOREM HostCapturesApart == Spec => []CapturesApart
<1>1. Processing!Spec => []Processing!CapturesApart
  BY Processing!CapturesStayApart, HostAssumption
<1>. QED
  BY <1>1, ProcessingRuns, PTL DEF CapturesApart

\* plugin_processes.go wait, terminate, expire: nothing follows or contradicts
\* the exit callback of a process.
THEOREM HostExitsSettle == Spec => []ExitsSettle
<1>1. Processing!Spec => []Processing!ExitsSettle
  BY Processing!ExitSettles, HostAssumption
<1>. QED
  BY <1>1, ProcessingRuns, PTL DEF ExitsSettle

\* history/owned.go: rows keep their logs and lists are the latest executions.
THEOREM HostHistoryKept == Spec => []HistoryKept
<1>1. History!Spec => []History!HistoryKept
  BY HistoryIsKept, HostAssumption
<1>. QED
  BY <1>1, HistoryRuns, PTL DEF HistoryKept

\* history/owned.go: rows and files implement the ledger.
THEOREM HostLedgerImplemented == Spec => LedgerImplemented
<1>1. History!Spec => History!LedgerImplemented
  BY HistoryImplementsLedger, HostAssumption
<1>. QED
  BY <1>1, HistoryRuns, PTL DEF LedgerImplemented

\* core/plugin_network_streams.go: open connections are those of open records
\* and of an open under way, within the limits.
THEOREM HostConnectionsAreRecorded == Spec => []ConnectionsAreRecorded
<1>1. Network!Spec => []Network!ConnectionsAreRecorded
  BY ConnectionsStayRecorded, HostAssumption
<1>. QED
  BY <1>1, NetworkRuns, PTL DEF ConnectionsAreRecorded

\* config/store.go, root.go: what was told to be saved is in the root of the
\* next start, and memory shows what is on disk.
THEOREM HostRootKept == Spec => []RootKept
<1>1. Root!Spec => []Root!RootKept
  BY RootStaysKept, HostAssumption
<1>. QED
  BY <1>1, RootRuns, PTL DEF RootKept

\* plugins/manager.go: what runs keeps its files, and what a restart would
\* change is told.
THEOREM HostPackagesKept == Spec => []PackagesKept
<1>1. Packages!Spec => []Packages!PackagesKept
  BY PackagesStayKept, HostAssumption
<1>. QED
  BY <1>1, PackagesRun, PTL DEF PackagesKept
=============================================================================
