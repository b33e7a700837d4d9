----------------------------- MODULE MCTaskDeque -----------------------------
(* Instances of TaskDeque for TLC. *)
EXTENDS TaskDeque, TLC

CONSTANTS w1, w2

\* The second task is mailed to the first worker.
MCAffinity == [t \in 1 .. NumTasks |-> IF t = 2 THEN w1 ELSE NULL]

=============================================================================
