------------------------------- MODULE BytePipe -------------------------------
(***************************************************************************)
(* What pangolin::threadedfilebuf promises to the stream that writes to    *)
(* it: the file receives the bytes that were written, in order, each once, *)
(* a little later; when close() has returned, the file has all of them.    *)
(*                                                                         *)
(* The bytes written since open() are numbered 1, 2, 3, ...                *)
(***************************************************************************)
EXTENDS Naturals, Sequences

VARIABLES
    open,
    sent,       \* how many bytes have been written to the stream
    file        \* the numbers of the bytes in the file, in the file's order

vars == <<open, sent, file>>

Init == ~open /\ sent = 0 /\ file = << >>

Open ==
    /\ ~open
    /\ open' = TRUE
    /\ sent' = 0
    /\ file' = << >>

Write ==
    /\ open
    /\ sent' \in Nat /\ sent' >= sent
    /\ UNCHANGED <<open, file>>

Deliver(k) ==
    /\ open
    /\ file' = file \o [i \in 1 .. k |-> Len(file) + i]
    /\ UNCHANGED <<open, sent>>

Close ==
    /\ open
    /\ Len(file) = sent
    /\ open' = FALSE
    /\ UNCHANGED <<sent, file>>

Next ==
    Open \/ Write \/ (\E k \in 0 .. sent - Len(file) : Deliver(k)) \/ Close

Spec == Init /\ [][Next]_vars

=============================================================================
