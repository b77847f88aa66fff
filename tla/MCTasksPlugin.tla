---------------------------- MODULE MCTasksPlugin ----------------------------
(* Small instances of TasksPlugin for TLC. *)
EXTENDS TasksPlugin, TLC

CONSTANTS s1, s2, s3, s4

\* Definitions of continuous tasks: never restarted; restarted once at most;
\* restarted without limit and started with the plugin.
MCContinuousDefs ==
  {[mode |-> "never", maxRetries |-> 0, autostart |-> FALSE],
   [mode |-> "on-failure", maxRetries |-> 1, autostart |-> FALSE],
   [mode |-> "always", maxRetries |-> 0, autostart |-> TRUE]}

\* One definition with every feature, for runs whose graph must stay small.
MCOneDef == {[mode |-> "always", maxRetries |-> 0, autostart |-> TRUE]}

MCScheduledDefs == [enabled : BOOLEAN, overlap : {"skip", "allow"}]
MCOneSchedule == {[enabled |-> TRUE, overlap |-> "skip"]}

\* One task at a time is created: a continuous one or a scheduled one. Tasks
\* share only the slots.
OneTask == Cardinality(issued) <= 1

SlotSymmetry == Permutations(Slots)
=============================================================================
