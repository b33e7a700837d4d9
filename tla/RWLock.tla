------------------------------- MODULE RWLock -------------------------------
(***************************************************************************)
(* What a reader-writer lock of the TBB synchronization layer promises,    *)
(* independently of how it is implemented.  spin_rw_mutex and              *)
(* reader_writer_lock make this promise; their modules instantiate this    *)
(* one under a refinement mapping.                                         *)
(*                                                                         *)
(* mode[t] is the kind of lock thread t holds.  kept[t] is TRUE iff t      *)
(* holds the lock for writing and got it by an upgrade that returned true, *)
(* that is, "without releasing and re-acquiring the lock".                 *)
(***************************************************************************)
CONSTANT Threads

VARIABLES mode, kept

lockVars == <<mode, kept>>

Modes == {"none", "read", "write"}

LockTypeOK ==
    /\ mode \in [Threads -> Modes]
    /\ kept \in [Threads -> BOOLEAN]

LockInit ==
    /\ mode = [t \in Threads |-> "none"]
    /\ kept = [t \in Threads |-> FALSE]

SetMode(t, m) == mode' = [mode EXCEPT ![t] = m]

OthersHaveNone(t) == \A u \in Threads \ {t} : mode[u] = "none"

AcquireRead(t) ==
    /\ mode[t] = "none"
    /\ \A u \in Threads : mode[u] # "write"
    /\ SetMode(t, "read")
    /\ UNCHANGED kept

AcquireWrite(t) ==
    /\ mode[t] = "none"
    /\ OthersHaveNone(t)
    /\ SetMode(t, "write")
    /\ UNCHANGED kept

Release(t) ==
    /\ mode[t] # "none"
    /\ SetMode(t, "none")
    /\ kept' = [kept EXCEPT ![t] = FALSE]

\* The upgrade that returns true: nobody held the lock in between.
Upgrade(t) ==
    /\ mode[t] = "read"
    /\ OthersHaveNone(t)
    /\ SetMode(t, "write")
    /\ kept' = [kept EXCEPT ![t] = TRUE]

Downgrade(t) ==
    /\ mode[t] = "write"
    /\ SetMode(t, "read")
    /\ kept' = [kept EXCEPT ![t] = FALSE]

LockNext ==
    \E t \in Threads :
        \/ AcquireRead(t)
        \/ AcquireWrite(t)
        \/ Release(t)
        \/ Upgrade(t)
        \/ Downgrade(t)

LockSpec == LockInit /\ [][LockNext]_lockVars

-----------------------------------------------------------------------------
\* A writer excludes everybody else: no two writers, no writer with a reader.
Exclusion ==
    \A t, u \in Threads :
        (t # u /\ mode[t] = "write") => mode[u] = "none"

=============================================================================
