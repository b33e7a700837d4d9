--------------------------- MODULE MCBoundedQueue ---------------------------
(* Instances of BoundedQueue for TLC: its constants get their values in the .cfg files. *)
EXTENDS BoundedQueue, TLC

=============================================================================
