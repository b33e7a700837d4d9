------------------------------ MODULE FairMutex ------------------------------
(***************************************************************************)
(* What a fair mutex of the TBB synchronization layer (is_fair_mutex)      *)
(* promises: threads enter one at a time, in the order in which their      *)
(* requests were placed.                                                   *)
(***************************************************************************)
EXTENDS Naturals, Sequences

CONSTANT Threads

VARIABLES
    line,       \* the threads that have asked and not left, in order
    inside      \* TRUE iff the first of them is in its critical section

fairVars == <<line, inside>>

FairInit ==
    /\ line = << >>
    /\ inside = FALSE

InLine(t) == \E i \in 1 .. Len(line) : line[i] = t

Ask(t) ==
    /\ ~InLine(t)
    /\ line' = Append(line, t)
    /\ UNCHANGED inside

Enter(t) ==
    /\ line # << >> /\ Head(line) = t
    /\ ~inside
    /\ inside' = TRUE
    /\ UNCHANGED line

\* Asking and entering at once, when nobody is there.
AskAndEnter(t) ==
    /\ line = << >>
    /\ line' = <<t>>
    /\ inside' = TRUE

Leave(t) ==
    /\ inside /\ Head(line) = t
    /\ line' = Tail(line)
    /\ inside' = FALSE

FairNext == \E t \in Threads : Ask(t) \/ Enter(t) \/ AskAndEnter(t) \/ Leave(t)

FairLockSpec == FairInit /\ [][FairNext]_fairVars

=============================================================================
