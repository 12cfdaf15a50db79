--------------------------- MODULE MCJobScheduler ---------------------------
(* Instances of the scheduler, with the loop beside it, for TLC.  The jobs   *)
(* are not interchanged: with symmetry liveness would not be checked.        *)
EXTENDS JobSchedulerLoop

=============================================================================
