--------------------------- MODULE MCEventDelivery ---------------------------
(* Small instances of EventDelivery for TLC. *)
EXTENDS EventDelivery

CONSTANTS p1, p2, q1, q2

\* Both processes belong to the first plugin; the second one delays loading.
MCOwner == [q \in Processes |-> p1]
=============================================================================
