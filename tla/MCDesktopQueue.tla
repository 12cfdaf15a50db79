--------------------------- MODULE MCDesktopQueue ---------------------------
(* Instances of the queue with its table for TLC. *)
EXTENDS QueueTable

=============================================================================
