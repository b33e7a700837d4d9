------------------------------ MODULE Exchange ------------------------------
(***************************************************************************)
(* What a tbb::concurrent_bounded_queue promises about the items, whatever *)
(* its capacity: an unbounded exchange in which an item goes to the pop    *)
(* that has waited longest, or into the queue, which gives out the one     *)
(* that was offered first.  Items are numbered in the order in which they  *)
(* are offered.  An offer may be withdrawn (its copy failed, or the push   *)
(* was aborted) until a pop has gone away with it; a pop that is aborted   *)
(* leaves no trace.                                                        *)
(***************************************************************************)
EXTENDS Naturals

CONSTANTS Takers, Nothing

VARIABLES
    offers,     \* how many items have been offered
    queue,      \* the items nobody has asked for yet
    waiting,    \* the pops nothing has been found for yet, each with those ahead of it
    hand        \* the item each pop is about to return

vars == <<offers, queue, waiting, hand>>

Init ==
    /\ offers = 0
    /\ queue = {}
    /\ waiting = [c \in {} |-> {}]
    /\ hand = [c \in Takers |-> Nothing]

\* c waits no longer.
Dismiss(c) == waiting' = [d \in DOMAIN waiting \ {c} |-> waiting[d] \ {c}]

Offer ==
    /\ offers' = offers + 1
    /\ \/ /\ DOMAIN waiting = {}
          /\ queue' = queue \cup {offers}
          /\ UNCHANGED <<waiting, hand>>
       \/ \E c \in DOMAIN waiting :
             /\ waiting[c] = {}
             /\ hand' = [hand EXCEPT ![c] = offers]
             /\ Dismiss(c)
             /\ UNCHANGED queue

Take(c) ==
    /\ hand[c] = Nothing /\ c \notin DOMAIN waiting
    /\ \/ /\ queue = {}
          /\ waiting' = [d \in DOMAIN waiting \cup {c} |->
                            IF d = c THEN DOMAIN waiting ELSE waiting[d]]
          /\ UNCHANGED <<queue, hand>>
       \/ \E v \in queue :
             /\ \A w \in queue : v <= w
             /\ hand' = [hand EXCEPT ![c] = v]
             /\ queue' = queue \ {v}
             /\ UNCHANGED waiting
    /\ UNCHANGED offers

\* The pop returns with its item.
Keep(c) ==
    /\ hand[c] # Nothing
    /\ hand' = [hand EXCEPT ![c] = Nothing]
    /\ UNCHANGED <<offers, queue, waiting>>

Withdraw(v) ==
    /\ queue' = queue \ {v}
    /\ hand' = [c \in Takers |-> IF hand[c] = v THEN Nothing ELSE hand[c]]
    /\ UNCHANGED <<offers, waiting>>

GiveBack(c) ==
    /\ \/ /\ c \in DOMAIN waiting
          /\ Dismiss(c)
          /\ UNCHANGED <<queue, hand>>
       \/ /\ hand[c] # Nothing
          /\ queue' = queue \cup {hand[c]}
          /\ hand' = [hand EXCEPT ![c] = Nothing]
          /\ UNCHANGED waiting
    /\ UNCHANGED offers

Next ==
    \/ Offer
    \/ \E c \in Takers : Take(c) \/ Keep(c) \/ GiveBack(c)
    \/ \E v \in 0..(offers - 1) : Withdraw(v)

Spec == Init /\ [][Next]_vars

=============================================================================
