----------------------------- MODULE SpinRWMutex -----------------------------
(***************************************************************************)
(* tbb::spin_rw_mutex: an unfair, spinning reader-writer lock with writer  *)
(* preference kept in one machine word.                                    *)
(*                                                                         *)
(* Bit 0 of the word says that a writer holds the lock, bit 1 that a       *)
(* writer asks for it, and the bits above count readers.  Each action is   *)
(* one atomic access to that word together with the thread-local decision  *)
(* taken on the value it returned.  A loop iteration that finds nothing to *)
(* do and backs off changes nothing and is a stuttering step.              *)
(***************************************************************************)
EXTENDS Integers, FiniteSets

CONSTANTS
    Threads,    \* the threads that use the lock
    Writers,    \* those whose code asks for write access
    Upgraders,  \* those that call upgrade_to_writer on a scoped_lock
    Unlockers,  \* those that release by unlock(), not by a scoped_lock
    Populations \* the sets of threads that may share one lock

ASSUME ThreadsAssumption ==
    /\ IsFiniteSet(Threads)
    /\ Writers \subseteq Threads
    /\ Upgraders \subseteq Writers
    /\ Unlockers \subseteq Threads

\* The threads of one lock do not mix the two interfaces in the one way it cannot
\* take: an unlock() beside an upgrade (the test of the writer bit in Unlock).
ASSUME PopulationsAssumption ==
    \A users \in Populations :
        users \cap Upgraders = {} \/ users \cap Unlockers = {}

VARIABLES
    state,      \* the lock word
    pc,         \* where each thread is in the lock's code
    snap,       \* the copy of the word that the thread's next CAS compares
    kept        \* what the thread's last internal_upgrade returned

vars == <<state, pc, snap, kept>>

-----------------------------------------------------------------------------
(* The lock word. *)

WRITER == 1
WRITER_PENDING == 2
ONE_READER == 4

HasWriter(w) == w % 2 = 1
HasPending(w) == (w \div WRITER_PENDING) % 2 = 1
ReaderCount(w) == w \div ONE_READER
Busy(w) == HasWriter(w) \/ ReaderCount(w) # 0
OrPending(w) == IF HasPending(w) THEN w ELSE w + WRITER_PENDING
OrWriter(w) == IF HasWriter(w) THEN w ELSE w + WRITER
AndReaders(w) == ONE_READER * ReaderCount(w)

-----------------------------------------------------------------------------
(* Program locations. *)

Away == "away"     \* the thread never uses this lock
Idle == "idle"
Reading == "reading"
Writing == "writing"

WriterLocs == {"w_load", "w_cas", "w_or"}      \* internal_acquire_writer
ReaderLocs == {"r_load", "r_add", "r_undo"}    \* internal_acquire_reader
TryLocs == {"tw_cas", "tr_add", "tr_undo"}     \* internal_try_acquire_*
UpgradeLocs == {"u_cas", "u_wait", "u_sub", "u_release"}  \* internal_upgrade
UnlockLocs == {"xr_mask", "xr_sub", "xw_mask", "xw_sub"}  \* unlock

Locs == {Away, Idle, Reading, Writing} \cup WriterLocs \cup ReaderLocs
            \cup TryLocs \cup UpgradeLocs \cup UnlockLocs

Goto(t, loc) == pc' = [pc EXCEPT ![t] = loc]
Remember(t, w) == snap' = [snap EXCEPT ![t] = w]
Forget(t) == Remember(t, 0)

TypeOK ==
    /\ state \in Nat
    /\ pc \in [Threads -> Locs]
    /\ snap \in [Threads -> Nat]
    /\ kept \in [Threads -> BOOLEAN]

Init ==
    /\ state = 0
    /\ \E users \in Populations :
          pc = [t \in Threads |-> IF t \in users THEN Idle ELSE Away]
    /\ snap = [t \in Threads |-> 0]
    /\ kept = [t \in Threads |-> FALSE]

-----------------------------------------------------------------------------
(* internal_acquire_writer *)

AcquireWriter(t) ==
    /\ pc[t] = Idle
    /\ t \in Writers
    /\ Goto(t, "w_load")
    /\ UNCHANGED <<state, snap, kept>>

\* Two ways a load of the word makes the writer do something.
WriterLoad(t) ==
    /\ pc[t] = "w_load"
    /\ \/ /\ ~Busy(state)
          /\ Remember(t, state)
          /\ Goto(t, "w_cas")
       \/ /\ Busy(state) /\ ~HasPending(state)
          /\ Goto(t, "w_or")
          /\ UNCHANGED snap
    /\ UNCHANGED <<state, kept>>

WriterCAS(t) ==
    /\ pc[t] = "w_cas"
    /\ \/ /\ state = snap[t]
          /\ state' = WRITER
          /\ Goto(t, Writing)
       \/ /\ state # snap[t]
          /\ Goto(t, "w_load")
          /\ UNCHANGED state
    /\ Forget(t)
    /\ UNCHANGED kept

WriterSetPending(t) ==
    /\ pc[t] = "w_or"
    /\ state' = OrPending(state)
    /\ Goto(t, "w_load")
    /\ UNCHANGED <<snap, kept>>

-----------------------------------------------------------------------------
(* internal_acquire_reader *)

AcquireReader(t) ==
    /\ pc[t] = Idle
    /\ Goto(t, "r_load")
    /\ UNCHANGED <<state, snap, kept>>

\* A reader that ignores announced writers.
ReaderLoad_NoPending(t) ==
    /\ pc[t] = "r_load"
    /\ ~HasWriter(state)
    /\ Goto(t, "r_add")
    /\ UNCHANGED <<state, snap, kept>>

ReaderLoad(t) ==
    /\ pc[t] = "r_load"
    /\ ~HasWriter(state) /\ ~HasPending(state)
    /\ Goto(t, "r_add")
    /\ UNCHANGED <<state, snap, kept>>

\* A reader that counts itself in without looking at what it added to.
ReaderAdd_NoRecheck(t) ==
    /\ pc[t] = "r_add"
    /\ state' = state + ONE_READER
    /\ Goto(t, Reading)
    /\ UNCHANGED <<snap, kept>>

ReaderAdd(t) ==
    /\ pc[t] = "r_add"
    /\ state' = state + ONE_READER
    /\ \/ ~HasWriter(state) /\ Goto(t, Reading)
       \/ HasWriter(state) /\ Goto(t, "r_undo")
    /\ UNCHANGED <<snap, kept>>

\* An undo that forgets to take the reader out of the count.
ReaderUndo_NoSub(t) ==
    /\ pc[t] = "r_undo"
    /\ Goto(t, "r_load")
    /\ UNCHANGED <<state, snap, kept>>

ReaderUndo(t) ==
    /\ pc[t] = "r_undo"
    /\ state' = state - ONE_READER
    /\ Goto(t, "r_load")
    /\ UNCHANGED <<snap, kept>>

-----------------------------------------------------------------------------
(* internal_try_acquire_writer and internal_try_acquire_reader.  A try      *)
(* that fails at its first load changes nothing and is a stuttering step.   *)

TryWriter(t) ==
    /\ pc[t] = Idle
    /\ t \in Writers
    /\ ~Busy(state)
    /\ Remember(t, state)
    /\ Goto(t, "tw_cas")
    /\ UNCHANGED <<state, kept>>

TryWriterCAS(t) ==
    /\ pc[t] = "tw_cas"
    /\ \/ /\ state = snap[t]
          /\ state' = WRITER
          /\ Goto(t, Writing)
       \/ /\ state # snap[t]
          /\ Goto(t, Idle)
          /\ UNCHANGED state
    /\ Forget(t)
    /\ UNCHANGED kept

TryReader(t) ==
    /\ pc[t] = Idle
    /\ ~HasWriter(state) /\ ~HasPending(state)
    /\ Goto(t, "tr_add")
    /\ UNCHANGED <<state, snap, kept>>

TryReaderAdd(t) ==
    /\ pc[t] = "tr_add"
    /\ state' = state + ONE_READER
    /\ \/ ~HasWriter(state) /\ Goto(t, Reading)
       \/ HasWriter(state) /\ Goto(t, "tr_undo")
    /\ UNCHANGED <<snap, kept>>

TryReaderUndo(t) ==
    /\ pc[t] = "tr_undo"
    /\ state' = state - ONE_READER
    /\ Goto(t, Idle)
    /\ UNCHANGED <<snap, kept>>

-----------------------------------------------------------------------------
(* Release by a scoped_lock, and downgrade: one atomic instruction each. *)

Return(t, loc) ==
    /\ Goto(t, loc)
    /\ kept' = [kept EXCEPT ![t] = FALSE]
    /\ UNCHANGED snap

\* A release that wipes the whole word, transient readers included.
ReleaseWriter_Clear(t) ==
    /\ pc[t] = Writing
    /\ state' = 0
    /\ Return(t, Idle)

ReleaseReader(t) ==
    /\ pc[t] = Reading
    /\ state' = state - ONE_READER
    /\ Return(t, Idle)

ReleaseWriter(t) ==
    /\ pc[t] = Writing
    /\ state' = AndReaders(state)
    /\ Return(t, Idle)

\* An unlock() that takes every caller for a reader.
Unlock_AsReader(t) ==
    /\ t \in Unlockers
    /\ pc[t] \in {Reading, Writing}
    /\ Goto(t, IF pc[t] = Reading THEN "xr_sub" ELSE "xw_sub")
    /\ UNCHANGED <<state, snap, kept>>

\* unlock() asks the word, not the caller, what kind of lock is held.
Unlock(t) ==
    /\ t \in Unlockers
    /\ \/ /\ pc[t] = Reading
          /\ Goto(t, IF HasWriter(state) THEN "xr_mask" ELSE "xr_sub")
       \/ /\ pc[t] = Writing
          /\ Goto(t, IF HasWriter(state) THEN "xw_mask" ELSE "xw_sub")
    /\ UNCHANGED <<state, snap, kept>>

UnlockMask(t) ==
    /\ pc[t] \in {"xr_mask", "xw_mask"}
    /\ state' = AndReaders(state)
    /\ Return(t, Idle)

UnlockSub(t) ==
    /\ pc[t] \in {"xr_sub", "xw_sub"}
    /\ state' = state - ONE_READER
    /\ Return(t, Idle)

Downgrade(t) ==
    /\ pc[t] = Writing
    /\ state' = state + (ONE_READER - WRITER)
    /\ Return(t, Reading)

-----------------------------------------------------------------------------
(* internal_upgrade *)

\* An upgrade that claims the lock over another upgrade's announcement.
MayClaim_Always(w) == ReaderCount(w) >= 1

\* The condition under which an upgrade may claim the lock where it stands.
MayClaim(w) == ReaderCount(w) = 1 \/ ~HasPending(w)

\* The loop condition, evaluated on a value of the word just obtained.
UpgradeTest(t, w) ==
    \/ MayClaim(w) /\ Remember(t, w) /\ Goto(t, "u_cas")
    \/ ~MayClaim(w) /\ Forget(t) /\ Goto(t, "u_release")

Upgrade(t) ==
    /\ pc[t] = Reading
    /\ t \in Upgraders
    /\ UpgradeTest(t, state)
    /\ UNCHANGED <<state, kept>>

\* An upgrade that claims the lock without turning readers away.
UpgradeCAS_NoPending(t) ==
    /\ pc[t] = "u_cas"
    /\ \/ /\ state = snap[t]
          /\ state' = OrWriter(state)
          /\ Goto(t, "u_wait")
          /\ Forget(t)
       \/ /\ state # snap[t]
          /\ UpgradeTest(t, state)
          /\ UNCHANGED state
    /\ UNCHANGED kept

UpgradeCAS(t) ==
    /\ pc[t] = "u_cas"
    /\ \/ /\ state = snap[t]
          /\ state' = OrWriter(OrPending(state))
          /\ Goto(t, "u_wait")
          /\ Forget(t)
       \/ /\ state # snap[t]
          /\ UpgradeTest(t, state)
          /\ UNCHANGED state
    /\ UNCHANGED kept

\* An upgrade that does not wait for the other readers to leave.
UpgradeWait_NoWait(t) ==
    /\ pc[t] = "u_wait"
    /\ Goto(t, "u_sub")
    /\ UNCHANGED <<state, snap, kept>>

UpgradeWait(t) ==
    /\ pc[t] = "u_wait"
    /\ ReaderCount(state) = 1
    /\ Goto(t, "u_sub")
    /\ UNCHANGED <<state, snap, kept>>

\* An upgrade that leaves its announcement in the word.
UpgradeFinish_KeepPending(t) ==
    /\ pc[t] = "u_sub"
    /\ state' = state - ONE_READER
    /\ Goto(t, Writing)
    /\ kept' = [kept EXCEPT ![t] = TRUE]
    /\ UNCHANGED snap

UpgradeFinish(t) ==
    /\ pc[t] = "u_sub"
    /\ state' = state - (ONE_READER + WRITER_PENDING)
    /\ Goto(t, Writing)
    /\ kept' = [kept EXCEPT ![t] = TRUE]
    /\ UNCHANGED snap

UpgradeRelease(t) ==
    /\ pc[t] = "u_release"
    /\ state' = state - ONE_READER
    /\ Return(t, "w_load")

-----------------------------------------------------------------------------
\* What the lock's own code does next for a thread that is inside it.
Step(t) ==
    \/ WriterLoad(t) \/ WriterCAS(t) \/ WriterSetPending(t)
    \/ ReaderLoad(t) \/ ReaderAdd(t) \/ ReaderUndo(t)
    \/ TryWriterCAS(t) \/ TryReaderAdd(t) \/ TryReaderUndo(t)
    \/ UpgradeCAS(t) \/ UpgradeWait(t) \/ UpgradeFinish(t) \/ UpgradeRelease(t)
    \/ UnlockMask(t) \/ UnlockSub(t)

\* What the code that uses the lock may decide to do.
Call(t) ==
    \/ AcquireWriter(t) \/ AcquireReader(t) \/ TryWriter(t) \/ TryReader(t)
    \/ Upgrade(t) \/ Downgrade(t)

Free(t) == ReleaseReader(t) \/ ReleaseWriter(t) \/ Unlock(t)

Next == \E t \in Threads : Step(t) \/ Call(t) \/ Free(t)

Spec == Init /\ [][Next]_vars

\* Threads inside the lock are scheduled, and critical sections end.  Nobody
\* is obliged to ask for the lock.
Fairness ==
    \A t \in Threads : WF_vars(Step(t)) /\ WF_vars(Free(t))

FairSpec == Spec /\ Fairness

-----------------------------------------------------------------------------
(* Safety. *)

\* Where a thread holds a read lock; where it is in the reader count, which
\* readers about to undo an increment that came too late are too; and where
\* it is the one on whose behalf the writer bit is set.
ReadLocs == {Reading, "xr_mask", "xr_sub"} \cup UpgradeLocs
WriteLocs == {Writing, "xw_mask", "xw_sub"}
CountedLocs == ReadLocs \cup {"r_undo", "tr_undo"}
ClaimLocs == WriteLocs \cup {"u_wait", "u_sub"}

At(locs) == {t \in Threads : pc[t] \in locs}

\* The reader field of the word is exactly the number of threads that have
\* added themselves and not taken themselves out: a transient increment, an
\* upgrade's combined subtraction and a release's mask never lose a reader.
CountExact == ReaderCount(state) = Cardinality(At(CountedLocs))

\* The pending bit, which turns every reader away, is set only while some
\* thread is still on its way to the write lock, so it is never left behind
\* to block readers of a lock nobody wants.
PendingHasOwner ==
    HasPending(state) =>
        \E t \in Threads : pc[t] \in WriterLocs \cup {"u_wait", "u_sub"}

\* The assertions of the source: a counted reader in internal_release_reader
\* and internal_upgrade, both flags in the wait of an upgrade.
SourceAssertions ==
    /\ \A t \in At(ReadLocs) : ReaderCount(state) # 0
    /\ \A t \in Threads : pc[t] = "u_sub" =>
          HasWriter(state) /\ HasPending(state)

-----------------------------------------------------------------------------
(* The inductive invariant: what the bits of the word say about the threads. *)

\* The writer bit is set exactly on behalf of one thread.
WriterBitExact ==
    /\ HasWriter(state) <=> At(ClaimLocs) # {}
    /\ \A t, u \in At(ClaimLocs) : t = u

\* The owner of the bit has waited for every reader but itself.
WriterAlone ==
    \A t \in Threads :
        /\ pc[t] \in WriteLocs => At(ReadLocs) = {}
        /\ pc[t] = "u_sub" => At(ReadLocs) = {t}

\* An upgrade that has claimed the lock has announced itself.
ClaimAnnounced ==
    \A t \in Threads : pc[t] \in {"u_wait", "u_sub"} => HasPending(state)

\* What a thread knows of the word it is about to compare.
SnapshotTested ==
    \A t \in Threads :
        /\ pc[t] \in {"w_cas", "tw_cas"} => ~Busy(snap[t])
        /\ pc[t] = "u_cas" => MayClaim(snap[t])

\* unlock() took the branch that fits what its caller holds.
UnlockRouted ==
    \A t \in Threads : pc[t] \notin {"xr_mask", "xw_sub"}

\* The threads that use the lock keep to one of the two interfaces.
Discipline ==
    \/ \A t \in Upgraders : pc[t] = Away
    \/ \A t \in Unlockers : pc[t] = Away

\* Who may be in an upgrade and who in an unlock().
Roles ==
    \A t \in Threads :
        /\ pc[t] \in UpgradeLocs => t \in Upgraders
        /\ pc[t] \in UnlockLocs => t \in Unlockers

IInv ==
    /\ Discipline
    /\ TypeOK
    /\ CountExact
    /\ WriterBitExact
    /\ WriterAlone
    /\ ClaimAnnounced
    /\ SnapshotTested
    /\ PendingHasOwner
    /\ UnlockRouted
    /\ Roles

-----------------------------------------------------------------------------
(* The abstract lock. *)

ModeAt(loc) ==
    IF loc \in ReadLocs THEN "read"
    ELSE IF loc \in WriteLocs THEN "write" ELSE "none"

mode == [t \in Threads |-> ModeAt(pc[t])]

Lock == INSTANCE RWLock

\* A writer excludes every other holder, whatever mixture of acquires, tries,
\* upgrades and downgrades led there.
Exclusion == Lock!Exclusion

\* Every behaviour of the word is a behaviour of the abstract lock; an
\* internal_upgrade that returns true went from read to write in one step.
RefinesRWLock == Lock!LockSpec

-----------------------------------------------------------------------------
(* Liveness. *)

\* Writer preference: once the pending bit is set, the one writer among any
\* number of readers that come and go for ever gets in.  (Before it is set
\* there is no such promise: a writer that only ever loads a free word, and
\* only ever loses its CAS to a reader, announces nothing.)
WriterPreference ==
    Cardinality({t \in Writers : pc[t] # Away}) = 1 /\ HasPending(state)
        ~> \E t \in Writers : pc[t] = Writing

\* An upgrade that claimed the lock completes even when other readers ask for
\* an upgrade at the same moment: two upgrades never wait for each other.
UpgradeCompletes ==
    \A t \in Threads : pc[t] = "u_wait" ~> pc[t] = Writing

=============================================================================
