--------------------------- MODULE MCQueuingMutex ----------------------------
(* Instances of QueuingMutex for TLC: its constants get their values in the .cfg files. *)
EXTENDS QueuingMutex, TLC

==============================================================================
