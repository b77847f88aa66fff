---------------------------- MODULE MCJobScheduler ----------------------------
(* Small instances of JobScheduler for TLC. *)
EXTENDS JobScheduler

CONSTANTS j1, j2, e1, e2, g1, g2, g3, r1, r2, r3
=============================================================================
