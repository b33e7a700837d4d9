------------------------- MODULE MCConcurrentMonitor -------------------------
(* Instances of ConcurrentMonitor for TLC: its constants get their values in the .cfg files. *)
EXTENDS ConcurrentMonitor, TLC

==============================================================================
