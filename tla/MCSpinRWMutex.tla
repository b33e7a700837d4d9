---------------------------- MODULE MCSpinRWMutex ----------------------------
(* Instances of SpinRWMutex for TLC: its constants get their values in the .cfg files. *)
EXTENDS SpinRWMutex, TLC

==============================================================================
