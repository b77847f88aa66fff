--------------------------- MODULE ExecutionLedger ---------------------------
(***************************************************************************)
(* What the execution history promises a plugin: an execution is opened    *)
(* once, gets one outcome that no later call or restart changes, and is    *)
(* forgotten only after it has one.                                        *)
(***************************************************************************)
CONSTANTS Executions, Outcomes

VARIABLE fate    \* of an execution: "none", "open", an outcome, "forgotten"

Init == fate = [e \in Executions |-> "none"]

Open(e) == fate[e] = "none" /\ fate' = [fate EXCEPT ![e] = "open"]

\* RunPilot's start settles every open execution in one step.
Settle(S) ==
  /\ S # {} /\ \A e \in S : fate[e] = "open"
  /\ \E o \in Outcomes : fate' = [e \in Executions |-> IF e \in S THEN o ELSE fate[e]]

Forget(e) == fate[e] \in Outcomes /\ fate' = [fate EXCEPT ![e] = "forgotten"]

Next ==
  \/ \E e \in Executions : Open(e) \/ Forget(e)
  \/ \E S \in SUBSET Executions : Settle(S)

Spec == Init /\ [][Next]_fate
=============================================================================
