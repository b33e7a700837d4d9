-------------------------- MODULE SpinRWMutexProofs --------------------------
(***************************************************************************)
(* tbb::spin_rw_mutex for any finite set of threads: the reader field of   *)
(* the word is exact, a writer excludes every other holder and no pending  *)
(* bit is left behind.                                                     *)
(***************************************************************************)
EXTENDS SpinRWMutex, FiniteSetTheorems, TLAPS

-----------------------------------------------------------------------------
(* The lock word. *)

\* Counting a reader in or out does not touch the two flag bits.
LEMMA AddReader ==
    ASSUME NEW w \in Nat
    PROVE  /\ w + ONE_READER \in Nat
           /\ ReaderCount(w + ONE_READER) = ReaderCount(w) + 1
           /\ HasWriter(w + ONE_READER) <=> HasWriter(w)
           /\ HasPending(w + ONE_READER) <=> HasPending(w)
BY DEF ONE_READER, ReaderCount, HasWriter, HasPending, WRITER_PENDING

LEMMA SubReader ==
    ASSUME NEW w \in Nat, ReaderCount(w) # 0
    PROVE  /\ w - ONE_READER \in Nat
           /\ ReaderCount(w - ONE_READER) = ReaderCount(w) - 1
           /\ HasWriter(w - ONE_READER) <=> HasWriter(w)
           /\ HasPending(w - ONE_READER) <=> HasPending(w)
BY DEF ONE_READER, ReaderCount, HasWriter, HasPending, WRITER_PENDING

\* The flags are set and masked without touching the count.
LEMMA FlagBits ==
    ASSUME NEW w \in Nat
    PROVE  /\ ReaderCount(w) \in Nat
           /\ OrPending(w) \in Nat
           /\ ReaderCount(OrPending(w)) = ReaderCount(w)
           /\ HasWriter(OrPending(w)) <=> HasWriter(w)
           /\ HasPending(OrPending(w))
           /\ OrWriter(w) \in Nat
           /\ ReaderCount(OrWriter(w)) = ReaderCount(w)
           /\ HasPending(OrWriter(w)) <=> HasPending(w)
           /\ HasWriter(OrWriter(w))
           /\ AndReaders(w) \in Nat
           /\ ReaderCount(AndReaders(w)) = ReaderCount(w)
           /\ ~HasWriter(AndReaders(w))
           /\ ~HasPending(AndReaders(w))
<1>1. /\ ReaderCount(w) \in Nat
      /\ OrPending(w) \in Nat
      /\ ReaderCount(OrPending(w)) = ReaderCount(w)
      /\ HasWriter(OrPending(w)) <=> HasWriter(w)
      /\ HasPending(OrPending(w))
    BY DEF ONE_READER, ReaderCount, HasWriter, HasPending, WRITER_PENDING,
           OrPending
<1>2. /\ OrWriter(w) \in Nat
      /\ ReaderCount(OrWriter(w)) = ReaderCount(w)
      /\ HasPending(OrWriter(w)) <=> HasPending(w)
      /\ HasWriter(OrWriter(w))
    BY DEF ONE_READER, ReaderCount, HasWriter, HasPending, WRITER_PENDING,
           OrWriter, WRITER
<1>3. /\ AndReaders(w) \in Nat
      /\ ReaderCount(AndReaders(w)) = ReaderCount(w)
      /\ ~HasWriter(AndReaders(w))
      /\ ~HasPending(AndReaders(w))
    BY DEF ONE_READER, ReaderCount, HasWriter, HasPending, WRITER_PENDING,
           AndReaders
<1> QED BY <1>1, <1>2, <1>3

LEMMA WriterWord ==
    /\ WRITER \in Nat
    /\ ReaderCount(WRITER) = 0
    /\ HasWriter(WRITER)
    /\ ~HasPending(WRITER)
    /\ 0 \in Nat
    /\ ReaderCount(0) = 0
    /\ ~HasWriter(0)
    /\ ~HasPending(0)
BY DEF ONE_READER, ReaderCount, HasWriter, HasPending, WRITER_PENDING, WRITER

\* The combined additions of internal_downgrade and internal_upgrade.
LEMMA DowngradeWord ==
    ASSUME NEW w \in Nat, HasWriter(w)
    PROVE  /\ w + (ONE_READER - WRITER) \in Nat
           /\ ReaderCount(w + (ONE_READER - WRITER)) = ReaderCount(w) + 1
           /\ ~HasWriter(w + (ONE_READER - WRITER))
           /\ HasPending(w + (ONE_READER - WRITER)) <=> HasPending(w)
BY DEF ONE_READER, ReaderCount, HasWriter, HasPending, WRITER_PENDING, WRITER

LEMMA UpgradeWord ==
    ASSUME NEW w \in Nat, HasPending(w), ReaderCount(w) # 0
    PROVE  /\ w - (ONE_READER + WRITER_PENDING) \in Nat
           /\ ReaderCount(w - (ONE_READER + WRITER_PENDING)) = ReaderCount(w) - 1
           /\ HasWriter(w - (ONE_READER + WRITER_PENDING)) <=> HasWriter(w)
           /\ ~HasPending(w - (ONE_READER + WRITER_PENDING))
BY DEF ONE_READER, ReaderCount, HasWriter, HasPending, WRITER_PENDING, WRITER

-----------------------------------------------------------------------------
(* Moving one thread. *)

\* When one thread moves, a set of the form At(locs) changes by at most that
\* thread.
LEMMA AtMove ==
    ASSUME NEW locs, NEW t \in Threads, NEW loc,
           pc \in [Threads -> Locs],
           Goto(t, loc)
    PROVE  /\ loc \in locs => At(locs)' = At(locs) \cup {t}
           /\ loc \notin locs => At(locs)' = At(locs) \ {t}
           /\ pc'[t] = loc
           /\ \A u \in Threads \ {t} : pc'[u] = pc[u]
BY DEF At, Goto

LEMMA AtFinite ==
    ASSUME NEW locs
    PROVE  /\ IsFiniteSet(At(locs))
           /\ Cardinality(At(locs)) \in Nat
           /\ Cardinality(At(locs)) = 0 <=> At(locs) = {}
<1>1. IsFiniteSet(At(locs))
    BY ThreadsAssumption, FS_Subset DEF At
<1> QED
    BY <1>1, FS_CardinalityType, FS_EmptySet

\* The count after a thread has entered, left or stayed.
LEMMA CountMove ==
    ASSUME NEW t \in Threads, NEW loc \in Locs,
           pc \in [Threads -> Locs],
           Goto(t, loc)
    PROVE  /\ (loc \in CountedLocs /\ pc[t] \notin CountedLocs)
                => Cardinality(At(CountedLocs)') = Cardinality(At(CountedLocs)) + 1
           /\ (loc \notin CountedLocs /\ pc[t] \in CountedLocs)
                => Cardinality(At(CountedLocs)') = Cardinality(At(CountedLocs)) - 1
           /\ (loc \in CountedLocs <=> pc[t] \in CountedLocs)
                => Cardinality(At(CountedLocs)') = Cardinality(At(CountedLocs))
<1>1. t \in At(CountedLocs) <=> pc[t] \in CountedLocs
    BY DEF At
<1>2. IsFiniteSet(At(CountedLocs))
    BY AtFinite
<1>3. CASE loc \in CountedLocs
    <2>1. At(CountedLocs)' = At(CountedLocs) \cup {t}
        BY <1>3, AtMove
    <2> QED BY <1>1, <1>2, <1>3, <2>1, FS_AddElement
<1>4. CASE loc \notin CountedLocs
    <2>1. At(CountedLocs)' = At(CountedLocs) \ {t}
        BY <1>4, AtMove
    <2> QED BY <1>1, <1>2, <1>4, <2>1, FS_RemoveElement
<1> QED BY <1>3, <1>4

-----------------------------------------------------------------------------
(* What the invariant says about a thread in the reader count. *)

\* A thread in the count makes the count positive.
LEMMA CountedPositive ==
    ASSUME CountExact, NEW t \in Threads, pc[t] \in CountedLocs
    PROVE  ReaderCount(state) # 0
BY AtFinite DEF CountExact, At

\* If the count is one, a counted thread is the only one.
LEMMA CountOne ==
    ASSUME CountExact, NEW t \in Threads, pc[t] \in CountedLocs,
           ReaderCount(state) = 1
    PROVE  At(CountedLocs) = {t}
<1>1. IsFiniteSet(At(CountedLocs)) /\ t \in At(CountedLocs)
    BY AtFinite DEF At
<1>2. PICK u : At(CountedLocs) = {u}
    BY <1>1, FS_Singleton DEF CountExact
<1> QED BY <1>1, <1>2

\* The upgrade whose CAS is about to succeed finds nobody else claiming the
\* lock: a claim is announced, so the word it tested had one reader, itself.
LEMMA ClaimFree ==
    ASSUME IInv, NEW t \in Threads, pc[t] = "u_cas", state = snap[t]
    PROVE  At(ClaimLocs) = {}
<1> SUFFICES ASSUME NEW u \in At(ClaimLocs) PROVE FALSE
    OBVIOUS
<1>1. u \in Threads /\ u # t /\ pc[u] \in CountedLocs /\ HasPending(state)
    BY DEF IInv, WriterAlone, ClaimAnnounced, At, ClaimLocs, CountedLocs,
           ReadLocs, UpgradeLocs, WriteLocs
<1>2. ReaderCount(state) = 1
    BY <1>1 DEF IInv, SnapshotTested, MayClaim
<1>3. pc[t] \in CountedLocs
    BY DEF CountedLocs, ReadLocs, UpgradeLocs
<1>4. At(CountedLocs) = {t}
    BY <1>2, <1>3, CountOne DEF IInv
<1> QED BY <1>1, <1>4 DEF At

\* A step keeps the count exact if it adds to the reader field what the move of
\* its thread adds to the set of counted threads.
CountChange(from, to) ==
    (IF to \in CountedLocs THEN 1 ELSE 0) - (IF from \in CountedLocs THEN 1 ELSE 0)

LEMMA CountStep ==
    ASSUME CountExact, TypeOK, NEW t \in Threads, NEW loc \in Locs,
           Goto(t, loc),
           ReaderCount(state') = ReaderCount(state) + CountChange(pc[t], loc)
    PROVE  CountExact'
<1>1. /\ Cardinality(At(CountedLocs)) \in Nat
      /\ Cardinality(At(CountedLocs)') = Cardinality(At(CountedLocs))
                                            + CountChange(pc[t], loc)
    <2>1. pc \in [Threads -> Locs]
        BY DEF TypeOK
    <2> QED BY <2>1, CountMove, AtFinite DEF CountChange
<1> QED BY <1>1 DEF CountExact

-----------------------------------------------------------------------------
(* The invariant is inductive. *)

LEMMA InitInv == Init => IInv
<1> SUFFICES ASSUME Init PROVE IInv
    OBVIOUS
<1>1. /\ TypeOK /\ SnapshotTested /\ ClaimAnnounced /\ WriterAlone
      /\ WriterBitExact /\ PendingHasOwner /\ UnlockRouted /\ Roles
    BY WriterWord DEF UnlockRouted, Roles, UpgradeLocs, UnlockLocs, WriteLocs, Init, TypeOK, SnapshotTested, ClaimAnnounced,
       WriterAlone, WriterBitExact, PendingHasOwner, At, Locs, Idle, Reading,
       Writing, ClaimLocs, Away
<1>2. CountExact
    <2>1. At(CountedLocs) = {}
        BY DEF Init, At, CountedLocs, ReadLocs, UpgradeLocs, Idle, Reading,
           Away
    <2> QED BY <2>1, WriterWord, FS_EmptySet DEF Init, CountExact
<1>3. Discipline
    <2>1. PICK users \in Populations :
              pc = [t \in Threads |-> IF t \in users THEN Idle ELSE Away]
        BY DEF Init
    <2>2. \A t \in Threads : t \notin users => pc[t] = Away
        BY <2>1
    <2> QED BY <2>2, PopulationsAssumption, ThreadsAssumption DEF Discipline
<1> QED BY <1>1, <1>2, <1>3 DEF IInv

\* A thread that is away stays away, so the discipline is kept.
LEMMA DisciplineKept ==
    ASSUME TypeOK, Discipline, [Next]_vars
    PROVE  Discipline'
<1> SUFFICES \A u \in Threads : pc[u] = Away => pc'[u] = Away
    BY ThreadsAssumption DEF Discipline
<1>1. ASSUME NEW t \in Threads, Step(t) \/ Call(t) \/ Free(t)
      PROVE  pc[t] # Away /\ \E loc : Goto(t, loc)
    <2> USE DEF Away, Idle, Reading, Writing
    <2>1. CASE Step(t)
        BY <2>1 DEF Step, WriterLoad, WriterCAS, WriterSetPending, ReaderLoad,
           ReaderAdd, ReaderUndo, TryWriterCAS, TryReaderAdd, TryReaderUndo,
           UpgradeCAS, UpgradeTest, UpgradeWait, UpgradeFinish, UpgradeRelease,
           UnlockMask, UnlockSub, Return
    <2>2. CASE Call(t)
        BY <2>2 DEF Call, AcquireWriter, AcquireReader, TryWriter, TryReader,
           Upgrade, UpgradeTest, Downgrade, Return
    <2>3. CASE Free(t)
        BY <2>3 DEF Free, ReleaseReader, ReleaseWriter, Unlock, Return
    <2> QED BY <1>1, <2>1, <2>2, <2>3
<1>2. ASSUME NEW t \in Threads, Step(t) \/ Call(t) \/ Free(t),
             NEW u \in Threads, pc[u] = Away
      PROVE  pc'[u] = Away
    BY <1>1, <1>2 DEF Goto, TypeOK
<1> QED BY <1>2 DEF Next, vars

\* In each case the move of the acting thread and the change of the word give
\* CountExact (steps 3 and 4) and the rest of the invariant (step 5).
LEMMA StepInv == IInv /\ [Next]_vars => IInv'
<1> SUFFICES ASSUME IInv, [Next]_vars PROVE IInv'
    OBVIOUS
<1> DEFINE Parts == /\ TypeOK /\ WriterBitExact /\ WriterAlone /\ ClaimAnnounced
                    /\ SnapshotTested /\ PendingHasOwner /\ UnlockRouted
                    /\ Roles
<1> USE DEF CountedLocs, ReadLocs, ClaimLocs, Locs, Away, UpgradeLocs, WriterLocs,
            ReaderLocs, TryLocs, UnlockLocs, WriteLocs, Idle, Reading, Writing
<1>0. CountExact /\ Parts /\ Discipline
    BY DEF IInv
<1>D. Discipline'
    BY <1>0, DisciplineKept
<1>1. ASSUME NEW t \in Threads, AcquireWriter(t) PROVE IInv'
    <2>1. PICK loc \in {"w_load"} : Goto(t, loc)
        BY <1>1 DEF AcquireWriter
    <2>3. ReaderCount(state') = ReaderCount(state) + CountChange(pc[t], loc)
        BY <1>0, <1>1, <2>1, FlagBits
        DEF AcquireWriter, CountChange, TypeOK, Goto
    <2>4. CountExact'
        BY <1>0, <2>1, <2>3, CountStep
    <2>5. Parts'
        BY <1>0, <1>1, <2>1
        DEF AcquireWriter, At, TypeOK, WriterBitExact, WriterAlone,
            ClaimAnnounced, SnapshotTested, PendingHasOwner, Goto, Forget,
            Remember, Busy, UnlockRouted, Roles
    <2> QED BY <1>D, <2>4, <2>5 DEF IInv
<1>2. ASSUME NEW t \in Threads, WriterLoad(t) PROVE IInv'
    <2>1. PICK loc \in {"w_cas", "w_or"} : Goto(t, loc)
        BY <1>2 DEF WriterLoad
    <2>3. ReaderCount(state') = ReaderCount(state) + CountChange(pc[t], loc)
        BY <1>0, <1>2, <2>1, FlagBits
        DEF WriterLoad, CountChange, TypeOK, Goto
    <2>4. CountExact'
        BY <1>0, <2>1, <2>3, CountStep
    <2>5. Parts'
        BY <1>0, <1>2, <2>1
        DEF WriterLoad, At, TypeOK, WriterBitExact, WriterAlone,
            ClaimAnnounced, SnapshotTested, PendingHasOwner, Goto, Forget,
            Remember, Busy, UnlockRouted, Roles
    <2> QED BY <1>D, <2>4, <2>5 DEF IInv
<1>3. ASSUME NEW t \in Threads, WriterCAS(t) PROVE IInv'
    <2>1. PICK loc \in {Writing, "w_load"} : Goto(t, loc)
        BY <1>3 DEF WriterCAS
    <2>2. state = snap[t] => At(CountedLocs) = {} /\ ReaderCount(state) = 0
        BY <1>0, <1>3, AtFinite DEF WriterCAS, CountExact, SnapshotTested, Busy
    <2>3. ReaderCount(state') = ReaderCount(state) + CountChange(pc[t], loc)
        BY <1>0, <1>3, <2>1, <2>2, WriterWord, FlagBits
        DEF WriterCAS, CountChange, TypeOK, Goto
    <2>4. CountExact'
        BY <1>0, <2>1, <2>3, CountStep
    <2>5. Parts'
        BY <1>0, <1>3, <2>1, <2>2, WriterWord
        DEF WriterCAS, At, TypeOK, WriterBitExact, WriterAlone,
            ClaimAnnounced, SnapshotTested, PendingHasOwner, Goto, Forget,
            Remember, Busy, UnlockRouted, Roles
    <2> QED BY <1>D, <2>4, <2>5 DEF IInv
<1>4. ASSUME NEW t \in Threads, WriterSetPending(t) PROVE IInv'
    <2>1. PICK loc \in {"w_load"} : Goto(t, loc)
        BY <1>4 DEF WriterSetPending
    <2>3. ReaderCount(state') = ReaderCount(state) + CountChange(pc[t], loc)
        BY <1>0, <1>4, <2>1, FlagBits
        DEF WriterSetPending, CountChange, TypeOK, Goto
    <2>4. CountExact'
        BY <1>0, <2>1, <2>3, CountStep
    <2>5. Parts'
        BY <1>0, <1>4, <2>1, FlagBits
        DEF WriterSetPending, At, TypeOK, WriterBitExact, WriterAlone,
            ClaimAnnounced, SnapshotTested, PendingHasOwner, Goto, Forget,
            Remember, Busy, UnlockRouted, Roles
    <2> QED BY <1>D, <2>4, <2>5 DEF IInv
<1>5. ASSUME NEW t \in Threads, AcquireReader(t) PROVE IInv'
    <2>1. PICK loc \in {"r_load"} : Goto(t, loc)
        BY <1>5 DEF AcquireReader
    <2>3. ReaderCount(state') = ReaderCount(state) + CountChange(pc[t], loc)
        BY <1>0, <1>5, <2>1, FlagBits
        DEF AcquireReader, CountChange, TypeOK, Goto
    <2>4. CountExact'
        BY <1>0, <2>1, <2>3, CountStep
    <2>5. Parts'
        BY <1>0, <1>5, <2>1
        DEF AcquireReader, At, TypeOK, WriterBitExact, WriterAlone,
            ClaimAnnounced, SnapshotTested, PendingHasOwner, Goto, Forget,
            Remember, Busy, UnlockRouted, Roles
    <2> QED BY <1>D, <2>4, <2>5 DEF IInv
<1>6. ASSUME NEW t \in Threads, ReaderLoad(t) PROVE IInv'
    <2>1. PICK loc \in {"r_add"} : Goto(t, loc)
        BY <1>6 DEF ReaderLoad
    <2>3. ReaderCount(state') = ReaderCount(state) + CountChange(pc[t], loc)
        BY <1>0, <1>6, <2>1, FlagBits
        DEF ReaderLoad, CountChange, TypeOK, Goto
    <2>4. CountExact'
        BY <1>0, <2>1, <2>3, CountStep
    <2>5. Parts'
        BY <1>0, <1>6, <2>1
        DEF ReaderLoad, At, TypeOK, WriterBitExact, WriterAlone,
            ClaimAnnounced, SnapshotTested, PendingHasOwner, Goto, Forget,
            Remember, Busy, UnlockRouted, Roles
    <2> QED BY <1>D, <2>4, <2>5 DEF IInv
<1>7. ASSUME NEW t \in Threads, ReaderAdd(t) PROVE IInv'
    <2>1. PICK loc \in {Reading, "r_undo"} : Goto(t, loc)
        BY <1>7 DEF ReaderAdd
    <2>3. ReaderCount(state') = ReaderCount(state) + CountChange(pc[t], loc)
        BY <1>0, <1>7, <2>1, AddReader, FlagBits
        DEF ReaderAdd, CountChange, TypeOK, Goto
    <2>4. CountExact'
        BY <1>0, <2>1, <2>3, CountStep
    <2>5. Parts'
        BY <1>0, <1>7, <2>1, AddReader
        DEF ReaderAdd, At, TypeOK, WriterBitExact, WriterAlone,
            ClaimAnnounced, SnapshotTested, PendingHasOwner, Goto, Forget,
            Remember, Busy, UnlockRouted, Roles
    <2> QED BY <1>D, <2>4, <2>5 DEF IInv
<1>8. ASSUME NEW t \in Threads, ReaderUndo(t) PROVE IInv'
    <2>1. PICK loc \in {"r_load"} : Goto(t, loc)
        BY <1>8 DEF ReaderUndo
    <2>2. ReaderCount(state) # 0
        BY <1>0, <1>8, CountedPositive DEF ReaderUndo
    <2>3. ReaderCount(state') = ReaderCount(state) + CountChange(pc[t], loc)
        BY <1>0, <1>8, <2>1, <2>2, SubReader, FlagBits
        DEF ReaderUndo, CountChange, TypeOK, Goto
    <2>4. CountExact'
        BY <1>0, <2>1, <2>3, CountStep
    <2>5. Parts'
        BY <1>0, <1>8, <2>1, <2>2, SubReader
        DEF ReaderUndo, At, TypeOK, WriterBitExact, WriterAlone,
            ClaimAnnounced, SnapshotTested, PendingHasOwner, Goto, Forget,
            Remember, Busy, UnlockRouted, Roles
    <2> QED BY <1>D, <2>4, <2>5 DEF IInv
<1>9. ASSUME NEW t \in Threads, TryWriter(t) PROVE IInv'
    <2>1. PICK loc \in {"tw_cas"} : Goto(t, loc)
        BY <1>9 DEF TryWriter
    <2>3. ReaderCount(state') = ReaderCount(state) + CountChange(pc[t], loc)
        BY <1>0, <1>9, <2>1, FlagBits
        DEF TryWriter, CountChange, TypeOK, Goto
    <2>4. CountExact'
        BY <1>0, <2>1, <2>3, CountStep
    <2>5. Parts'
        BY <1>0, <1>9, <2>1
        DEF TryWriter, At, TypeOK, WriterBitExact, WriterAlone,
            ClaimAnnounced, SnapshotTested, PendingHasOwner, Goto, Forget,
            Remember, Busy, UnlockRouted, Roles
    <2> QED BY <1>D, <2>4, <2>5 DEF IInv
<1>10. ASSUME NEW t \in Threads, TryWriterCAS(t) PROVE IInv'
    <2>1. PICK loc \in {Writing, Idle} : Goto(t, loc)
        BY <1>10 DEF TryWriterCAS
    <2>2. state = snap[t] => At(CountedLocs) = {} /\ ReaderCount(state) = 0
        BY <1>0, <1>10, AtFinite DEF TryWriterCAS, CountExact, SnapshotTested, Busy
    <2>3. ReaderCount(state') = ReaderCount(state) + CountChange(pc[t], loc)
        BY <1>0, <1>10, <2>1, <2>2, WriterWord, FlagBits
        DEF TryWriterCAS, CountChange, TypeOK, Goto
    <2>4. CountExact'
        BY <1>0, <2>1, <2>3, CountStep
    <2>5. Parts'
        BY <1>0, <1>10, <2>1, <2>2, WriterWord
        DEF TryWriterCAS, At, TypeOK, WriterBitExact, WriterAlone,
            ClaimAnnounced, SnapshotTested, PendingHasOwner, Goto, Forget,
            Remember, Busy, UnlockRouted, Roles
    <2> QED BY <1>D, <2>4, <2>5 DEF IInv
<1>11. ASSUME NEW t \in Threads, TryReader(t) PROVE IInv'
    <2>1. PICK loc \in {"tr_add"} : Goto(t, loc)
        BY <1>11 DEF TryReader
    <2>3. ReaderCount(state') = ReaderCount(state) + CountChange(pc[t], loc)
        BY <1>0, <1>11, <2>1, FlagBits
        DEF TryReader, CountChange, TypeOK, Goto
    <2>4. CountExact'
        BY <1>0, <2>1, <2>3, CountStep
    <2>5. Parts'
        BY <1>0, <1>11, <2>1
        DEF TryReader, At, TypeOK, WriterBitExact, WriterAlone,
            ClaimAnnounced, SnapshotTested, PendingHasOwner, Goto, Forget,
            Remember, Busy, UnlockRouted, Roles
    <2> QED BY <1>D, <2>4, <2>5 DEF IInv
<1>12. ASSUME NEW t \in Threads, TryReaderAdd(t) PROVE IInv'
    <2>1. PICK loc \in {Reading, "tr_undo"} : Goto(t, loc)
        BY <1>12 DEF TryReaderAdd
    <2>3. ReaderCount(state') = ReaderCount(state) + CountChange(pc[t], loc)
        BY <1>0, <1>12, <2>1, AddReader, FlagBits
        DEF TryReaderAdd, CountChange, TypeOK, Goto
    <2>4. CountExact'
        BY <1>0, <2>1, <2>3, CountStep
    <2>5. Parts'
        BY <1>0, <1>12, <2>1, AddReader
        DEF TryReaderAdd, At, TypeOK, WriterBitExact, WriterAlone,
            ClaimAnnounced, SnapshotTested, PendingHasOwner, Goto, Forget,
            Remember, Busy, UnlockRouted, Roles
    <2> QED BY <1>D, <2>4, <2>5 DEF IInv
<1>13. ASSUME NEW t \in Threads, TryReaderUndo(t) PROVE IInv'
    <2>1. PICK loc \in {Idle} : Goto(t, loc)
        BY <1>13 DEF TryReaderUndo
    <2>2. ReaderCount(state) # 0
        BY <1>0, <1>13, CountedPositive DEF TryReaderUndo
    <2>3. ReaderCount(state') = ReaderCount(state) + CountChange(pc[t], loc)
        BY <1>0, <1>13, <2>1, <2>2, SubReader, FlagBits
        DEF TryReaderUndo, CountChange, TypeOK, Goto
    <2>4. CountExact'
        BY <1>0, <2>1, <2>3, CountStep
    <2>5. Parts'
        BY <1>0, <1>13, <2>1, <2>2, SubReader
        DEF TryReaderUndo, At, TypeOK, WriterBitExact, WriterAlone,
            ClaimAnnounced, SnapshotTested, PendingHasOwner, Goto, Forget,
            Remember, Busy, UnlockRouted, Roles
    <2> QED BY <1>D, <2>4, <2>5 DEF IInv
<1>14. ASSUME NEW t \in Threads, ReleaseReader(t) PROVE IInv'
    <2>1. PICK loc \in {Idle} : Goto(t, loc)
        BY <1>14 DEF ReleaseReader, Return
    <2>2. ReaderCount(state) # 0
        BY <1>0, <1>14, CountedPositive DEF ReleaseReader
    <2>3. ReaderCount(state') = ReaderCount(state) + CountChange(pc[t], loc)
        BY <1>0, <1>14, <2>1, <2>2, SubReader, FlagBits
        DEF ReleaseReader, Return, CountChange, TypeOK, Goto
    <2>4. CountExact'
        BY <1>0, <2>1, <2>3, CountStep
    <2>5. Parts'
        BY <1>0, <1>14, <2>1, <2>2, SubReader
        DEF ReleaseReader, Return, At, TypeOK, WriterBitExact, WriterAlone,
            ClaimAnnounced, SnapshotTested, PendingHasOwner, Goto, Forget,
            Remember, Busy, UnlockRouted, Roles
    <2> QED BY <1>D, <2>4, <2>5 DEF IInv
<1>15. ASSUME NEW t \in Threads, ReleaseWriter(t) PROVE IInv'
    <2>1. PICK loc \in {Idle} : Goto(t, loc)
        BY <1>15 DEF ReleaseWriter, Return
    <2>3. ReaderCount(state') = ReaderCount(state) + CountChange(pc[t], loc)
        BY <1>0, <1>15, <2>1, FlagBits
        DEF ReleaseWriter, Return, CountChange, TypeOK, Goto
    <2>4. CountExact'
        BY <1>0, <2>1, <2>3, CountStep
    <2>5. Parts'
        BY <1>0, <1>15, <2>1, FlagBits
        DEF ReleaseWriter, Return, At, TypeOK, WriterBitExact, WriterAlone,
            ClaimAnnounced, SnapshotTested, PendingHasOwner, Goto, Forget,
            Remember, Busy, UnlockRouted, Roles
    <2> QED BY <1>D, <2>4, <2>5 DEF IInv
<1>16. ASSUME NEW t \in Threads, Downgrade(t) PROVE IInv'
    <2>1. PICK loc \in {Reading} : Goto(t, loc)
        BY <1>16 DEF Downgrade, Return
    <2>2. HasWriter(state)
        BY <1>0, <1>16 DEF Downgrade, At, WriterBitExact
    <2>3. ReaderCount(state') = ReaderCount(state) + CountChange(pc[t], loc)
        BY <1>0, <1>16, <2>1, <2>2, DowngradeWord, FlagBits
        DEF Downgrade, Return, CountChange, TypeOK, Goto
    <2>4. CountExact'
        BY <1>0, <2>1, <2>3, CountStep
    <2>5. Parts'
        BY <1>0, <1>16, <2>1, <2>2, DowngradeWord
        DEF Downgrade, Return, At, TypeOK, WriterBitExact, WriterAlone,
            ClaimAnnounced, SnapshotTested, PendingHasOwner, Goto, Forget,
            Remember, Busy, UnlockRouted, Roles
    <2> QED BY <1>D, <2>4, <2>5 DEF IInv
<1>17. ASSUME NEW t \in Threads, Upgrade(t) PROVE IInv'
    <2>1. PICK loc \in {"u_cas", "u_release"} : Goto(t, loc)
        BY <1>17 DEF Upgrade, UpgradeTest
    <2>3. ReaderCount(state') = ReaderCount(state) + CountChange(pc[t], loc)
        BY <1>0, <1>17, <2>1, FlagBits
        DEF Upgrade, UpgradeTest, CountChange, TypeOK, Goto
    <2>4. CountExact'
        BY <1>0, <2>1, <2>3, CountStep
    <2>5. Parts'
        BY <1>0, <1>17, <2>1
        DEF Upgrade, UpgradeTest, At, TypeOK, WriterBitExact, WriterAlone,
            ClaimAnnounced, SnapshotTested, PendingHasOwner, Goto, Forget,
            Remember, Busy, UnlockRouted, Roles
    <2> QED BY <1>D, <2>4, <2>5 DEF IInv
<1>18. ASSUME NEW t \in Threads, UpgradeCAS(t) PROVE IInv'
    <2>1. PICK loc \in {"u_cas", "u_release", "u_wait"} : Goto(t, loc)
        BY <1>18 DEF UpgradeCAS, UpgradeTest
    <2>2. state = snap[t] => At(ClaimLocs) = {}
        BY <1>0, <1>18, ClaimFree DEF UpgradeCAS
    <2>3. ReaderCount(state') = ReaderCount(state) + CountChange(pc[t], loc)
        BY <1>0, <1>18, <2>1, <2>2, FlagBits
        DEF UpgradeCAS, UpgradeTest, CountChange, TypeOK, Goto, Forget, Remember
    <2>4. CountExact'
        BY <1>0, <2>1, <2>3, CountStep
    <2>5. Parts'
        BY <1>0, <1>18, <2>1, <2>2, FlagBits
        DEF UpgradeCAS, UpgradeTest, At, TypeOK, WriterBitExact, WriterAlone,
            ClaimAnnounced, SnapshotTested, PendingHasOwner, Goto, Forget,
            Remember, Busy, UnlockRouted, Roles
    <2> QED BY <1>D, <2>4, <2>5 DEF IInv
<1>19. ASSUME NEW t \in Threads, UpgradeWait(t) PROVE IInv'
    <2>1. PICK loc \in {"u_sub"} : Goto(t, loc)
        BY <1>19 DEF UpgradeWait
    <2>2. At(CountedLocs) = {t}
        BY <1>0, <1>19, CountOne DEF UpgradeWait
    <2>3. ReaderCount(state') = ReaderCount(state) + CountChange(pc[t], loc)
        BY <1>0, <1>19, <2>1, <2>2, FlagBits
        DEF UpgradeWait, CountChange, TypeOK, Goto
    <2>4. CountExact'
        BY <1>0, <2>1, <2>3, CountStep
    <2>5. Parts'
        BY <1>0, <1>19, <2>1, <2>2
        DEF UpgradeWait, At, TypeOK, WriterBitExact, WriterAlone,
            ClaimAnnounced, SnapshotTested, PendingHasOwner, Goto, Forget,
            Remember, Busy, UnlockRouted, Roles
    <2> QED BY <1>D, <2>4, <2>5 DEF IInv
<1>20. ASSUME NEW t \in Threads, UpgradeFinish(t) PROVE IInv'
    <2>1. PICK loc \in {Writing} : Goto(t, loc)
        BY <1>20 DEF UpgradeFinish
    <2>2. ReaderCount(state) # 0 /\ HasPending(state)
        BY <1>0, <1>20, CountedPositive DEF UpgradeFinish, ClaimAnnounced
    <2>3. ReaderCount(state') = ReaderCount(state) + CountChange(pc[t], loc)
        BY <1>0, <1>20, <2>1, <2>2, UpgradeWord, FlagBits
        DEF UpgradeFinish, CountChange, TypeOK, Goto
    <2>4. CountExact'
        BY <1>0, <2>1, <2>3, CountStep
    <2>5. Parts'
        BY <1>0, <1>20, <2>1, <2>2, UpgradeWord
        DEF UpgradeFinish, At, TypeOK, WriterBitExact, WriterAlone,
            ClaimAnnounced, SnapshotTested, PendingHasOwner, Goto, Forget,
            Remember, Busy, UnlockRouted, Roles
    <2> QED BY <1>D, <2>4, <2>5 DEF IInv
<1>21. ASSUME NEW t \in Threads, UpgradeRelease(t) PROVE IInv'
    <2>1. PICK loc \in {"w_load"} : Goto(t, loc)
        BY <1>21 DEF UpgradeRelease, Return
    <2>2. ReaderCount(state) # 0
        BY <1>0, <1>21, CountedPositive DEF UpgradeRelease
    <2>3. ReaderCount(state') = ReaderCount(state) + CountChange(pc[t], loc)
        BY <1>0, <1>21, <2>1, <2>2, SubReader, FlagBits
        DEF UpgradeRelease, Return, CountChange, TypeOK, Goto
    <2>4. CountExact'
        BY <1>0, <2>1, <2>3, CountStep
    <2>5. Parts'
        BY <1>0, <1>21, <2>1, <2>2, SubReader
        DEF UpgradeRelease, Return, At, TypeOK, WriterBitExact, WriterAlone,
            ClaimAnnounced, SnapshotTested, PendingHasOwner, Goto, Forget,
            Remember, Busy, UnlockRouted, Roles
    <2> QED BY <1>D, <2>4, <2>5 DEF IInv
<1>22. ASSUME NEW t \in Threads, Unlock(t) PROVE IInv'
    <2>2. HasWriter(state) <=> pc[t] = Writing
        BY <1>0, <1>22 DEF Unlock, WriterBitExact, WriterAlone, Roles, Discipline, At
    <2>1. PICK loc \in {"xr_sub", "xw_mask"} :
              Goto(t, loc) /\ (loc = "xw_mask" <=> pc[t] = Writing)
        BY <1>22, <2>2 DEF Unlock
    <2>3. ReaderCount(state') = ReaderCount(state) + CountChange(pc[t], loc)
        BY <1>0, <1>22, <2>1, FlagBits
        DEF Unlock, CountChange, TypeOK, Goto
    <2>4. CountExact'
        BY <1>0, <2>1, <2>3, CountStep
    <2>5. Parts'
        BY <1>0, <1>22, <2>1
        DEF Unlock, At, TypeOK, WriterBitExact, WriterAlone,
            ClaimAnnounced, SnapshotTested, PendingHasOwner, Goto,
            UnlockRouted, Roles
    <2> QED BY <1>D, <2>4, <2>5 DEF IInv
<1>23. ASSUME NEW t \in Threads, UnlockMask(t) PROVE IInv'
    <2>1. PICK loc \in {Idle} : Goto(t, loc)
        BY <1>23 DEF UnlockMask, Return
    <2>2. pc[t] = "xw_mask"
        BY <1>0, <1>23 DEF UnlockMask, UnlockRouted
    <2>3. ReaderCount(state') = ReaderCount(state) + CountChange(pc[t], loc)
        BY <1>0, <1>23, <2>1, <2>2, FlagBits
        DEF UnlockMask, Return, CountChange, TypeOK, Goto
    <2>4. CountExact'
        BY <1>0, <2>1, <2>3, CountStep
    <2>5. Parts'
        BY <1>0, <1>23, <2>1, <2>2, FlagBits
        DEF UnlockMask, Return, At, TypeOK, WriterBitExact, WriterAlone,
            ClaimAnnounced, SnapshotTested, PendingHasOwner, Goto, Forget,
            Remember, Busy, UnlockRouted, Roles
    <2> QED BY <1>D, <2>4, <2>5 DEF IInv
<1>24. ASSUME NEW t \in Threads, UnlockSub(t) PROVE IInv'
    <2>1. PICK loc \in {Idle} : Goto(t, loc)
        BY <1>24 DEF UnlockSub, Return
    <2>2. pc[t] = "xr_sub" /\ ReaderCount(state) # 0
        BY <1>0, <1>24, CountedPositive DEF UnlockSub, UnlockRouted
    <2>3. ReaderCount(state') = ReaderCount(state) + CountChange(pc[t], loc)
        BY <1>0, <1>24, <2>1, <2>2, SubReader, FlagBits
        DEF UnlockSub, Return, CountChange, TypeOK, Goto
    <2>4. CountExact'
        BY <1>0, <2>1, <2>3, CountStep
    <2>5. Parts'
        BY <1>0, <1>24, <2>1, <2>2, SubReader
        DEF UnlockSub, Return, At, TypeOK, WriterBitExact, WriterAlone,
            ClaimAnnounced, SnapshotTested, PendingHasOwner, Goto, Forget,
            Remember, Busy, UnlockRouted, Roles
    <2> QED BY <1>D, <2>4, <2>5 DEF IInv
<1>25. CASE UNCHANGED vars
    BY <1>0, <1>D, <1>25 DEF vars, IInv, CountExact, At, TypeOK, WriterBitExact,
       WriterAlone, ClaimAnnounced, SnapshotTested, PendingHasOwner,
       UnlockRouted, Roles
<1> QED
    BY <1>1, <1>2, <1>3, <1>4, <1>5, <1>6, <1>7, <1>8, <1>9, <1>10, <1>11,
       <1>12, <1>13, <1>14, <1>15, <1>16, <1>17, <1>18, <1>19, <1>20,
       <1>21, <1>22, <1>23, <1>24, <1>25
    DEF Next, Step, Call, Free

\* In every reachable state of every behaviour, for any finite set of threads
\* and any populations that keep the discipline, the word says exactly what the threads have done to it.
THEOREM Invariant == Spec => []IInv
<1>1. Init => IInv
    BY InitInv
<1>2. IInv /\ [Next]_vars => IInv'
    BY StepInv
<1> QED BY <1>1, <1>2, PTL DEF Spec

\* The reader field is the number of counted threads: no mixture of transient
\* increments, combined additions and masks of spin_rw_mutex.cpp loses one.
THEOREM CountIsExact == Spec => []CountExact
<1>1. IInv => CountExact
    BY DEF IInv
<1> QED BY <1>1, Invariant, PTL

\* internal_acquire_writer and internal_upgrade leave no pending bit behind.
THEOREM PendingIsOwned == Spec => []PendingHasOwner
<1>1. IInv => PendingHasOwner
    BY DEF IInv
<1> QED BY <1>1, Invariant, PTL

\* The assertions of spin_rw_mutex.cpp never fire.
THEOREM AssertionsHold == Spec => []SourceAssertions
<1>1. IInv => SourceAssertions
    <2> SUFFICES ASSUME IInv PROVE SourceAssertions
        OBVIOUS
    <2>1. ASSUME NEW t \in At(ReadLocs) PROVE ReaderCount(state) # 0
        BY <2>1, CountedPositive DEF IInv, At, CountedLocs
    <2>2. ASSUME NEW t \in Threads, pc[t] = "u_sub"
          PROVE HasWriter(state) /\ HasPending(state)
        BY <2>2 DEF IInv, WriterBitExact, ClaimAnnounced, At, ClaimLocs
    <2> QED BY <2>1, <2>2 DEF SourceAssertions
<1> QED BY <1>1, Invariant, PTL

-----------------------------------------------------------------------------
(* The lock word implements the abstract reader-writer lock. *)

\* No reader holds the lock and none claims it while the writer bit is clear
\* and the count is zero.
LEMMA WordFree ==
    ASSUME IInv, ~Busy(state), NEW u \in Threads
    PROVE  mode[u] = "none"
<1>1. At(CountedLocs) = {} /\ At(ClaimLocs) = {}
    BY AtFinite DEF IInv, Busy, CountExact, WriterBitExact
<1> QED BY <1>1 DEF At, mode, ModeAt, CountedLocs, ClaimLocs

\* What a writer, or an upgrade about to return true, knows of the others.
LEMMA OwnerAlone ==
    ASSUME IInv, NEW t \in Threads, pc[t] \in WriteLocs \cup {"u_sub"},
           NEW u \in Threads, u # t
    PROVE  mode[u] = "none"
<1>1. u \notin At(ReadLocs) /\ pc[u] \notin WriteLocs
    BY DEF IInv, WriterAlone, WriterBitExact, At, ClaimLocs
<1> QED BY <1>1 DEF At, mode, ModeAt

\* A writer excludes every other holder of the lock.
THEOREM ExclusionHolds == Spec => []Exclusion
<1>1. IInv => Exclusion
    <2> SUFFICES ASSUME IInv, NEW t \in Threads, NEW u \in Threads, t # u,
                        mode[t] = "write"
                 PROVE  mode[u] = "none"
        BY DEF Exclusion, Lock!Exclusion
    <2>1. pc[t] \in WriteLocs
        BY DEF mode, ModeAt
    <2> QED BY <2>1, OwnerAlone
<1> QED BY <1>1, Invariant, PTL

\* Every step of the word is a step of the abstract lock, or leaves what the
\* threads hold alone; and an internal_upgrade that returned true gave nobody
\* else the lock in between.
LEMMA StepRefines ==
    IInv /\ [Next]_vars => [Lock!LockNext]_(Lock!lockVars)
<1> SUFFICES ASSUME IInv, [Next]_vars
             PROVE  [Lock!LockNext]_(Lock!lockVars)
    OBVIOUS
<1> USE DEF Lock!lockVars
<1>1. /\ pc \in [Threads -> Locs]
      /\ kept \in [Threads -> BOOLEAN]
    BY DEF IInv, TypeOK
<1>2. ASSUME NEW t \in Threads, NEW loc, Goto(t, loc)
      PROVE  /\ mode[t] = ModeAt(pc[t])
             /\ mode' = [mode EXCEPT ![t] = ModeAt(loc)]
    BY <1>1, <1>2 DEF mode, Goto
<1>3. ASSUME NEW t \in Threads, NEW loc, Goto(t, loc),
             ModeAt(loc) = ModeAt(pc[t]), kept' = kept
      PROVE  UNCHANGED Lock!lockVars
    BY <1>2, <1>3 DEF mode
<1> USE DEF ModeAt, ReadLocs, UpgradeLocs, WriteLocs, Reading, Writing, Idle
<1>4. ASSUME NEW t \in Threads, Step(t) PROVE [Lock!LockNext]_(Lock!lockVars)
    <2>1. CASE WriterLoad(t) \/ WriterSetPending(t)
        <3>1. PICK loc \in {"w_cas", "w_or", "w_load"} : Goto(t, loc)
            BY <2>1 DEF WriterLoad, WriterSetPending
        <3> QED BY <2>1, <3>1, <1>3 DEF WriterLoad, WriterSetPending
    <2>2. CASE WriterCAS(t) \/ TryWriterCAS(t)
        <3>1. CASE state = snap[t]
            <4>1. Goto(t, Writing) /\ kept' = kept /\ mode[t] = "none"
                BY <2>2, <3>1, <1>2 DEF WriterCAS, TryWriterCAS
            <4>2. \A u \in Threads : mode[u] = "none"
                BY <2>2, <3>1, WordFree
                DEF WriterCAS, TryWriterCAS, IInv, SnapshotTested
            <4>3. Lock!AcquireWrite(t)
                BY <4>1, <4>2, <1>2
                DEF Lock!AcquireWrite, Lock!OthersHaveNone, Lock!SetMode
            <4> QED BY <4>3 DEF Lock!LockNext
        <3>2. CASE state # snap[t]
            <4>1. PICK loc \in {"w_load", Idle} : Goto(t, loc)
                BY <2>2, <3>2 DEF WriterCAS, TryWriterCAS
            <4> QED BY <2>2, <4>1, <1>3 DEF WriterCAS, TryWriterCAS
        <3> QED BY <3>1, <3>2
    <2>3. CASE ReaderAdd(t) \/ TryReaderAdd(t)
        <3>1. CASE ~HasWriter(state)
            <4>1. Goto(t, Reading) /\ kept' = kept /\ mode[t] = "none"
                BY <2>3, <3>1, <1>2 DEF ReaderAdd, TryReaderAdd
            <4>2. \A u \in Threads : mode[u] # "write"
                BY <3>1 DEF IInv, WriterBitExact, At, ClaimLocs, mode
            <4>3. Lock!AcquireRead(t)
                BY <4>1, <4>2, <1>2 DEF Lock!AcquireRead, Lock!SetMode
            <4> QED BY <4>3 DEF Lock!LockNext
        <3>2. CASE HasWriter(state)
            <4>1. PICK loc \in {"r_undo", "tr_undo"} : Goto(t, loc)
                BY <2>3, <3>2 DEF ReaderAdd, TryReaderAdd
            <4> QED BY <2>3, <4>1, <1>3 DEF ReaderAdd, TryReaderAdd
        <3> QED BY <3>1, <3>2
    <2>4. CASE ReaderLoad(t) \/ ReaderUndo(t) \/ TryReaderUndo(t)
        <3>1. PICK loc \in {"r_add", "r_load", Idle} : Goto(t, loc)
            BY <2>4 DEF ReaderLoad, ReaderUndo, TryReaderUndo
        <3> QED BY <2>4, <3>1, <1>3 DEF ReaderLoad, ReaderUndo, TryReaderUndo
    <2>5. CASE UpgradeCAS(t) \/ UpgradeWait(t)
        <3>1. PICK loc \in UpgradeLocs : Goto(t, loc)
            BY <2>5 DEF UpgradeCAS, UpgradeTest, UpgradeWait
        <3> QED BY <2>5, <3>1, <1>3 DEF UpgradeCAS, UpgradeWait
    <2>6. CASE UpgradeFinish(t)
        <3>1. mode[t] = "read" /\ mode' = [mode EXCEPT ![t] = "write"]
            BY <2>6, <1>2 DEF UpgradeFinish
        <3>2. \A u \in Threads \ {t} : mode[u] = "none"
            BY <2>6, OwnerAlone DEF UpgradeFinish
        <3>3. Lock!Upgrade(t)
            BY <2>6, <3>1, <3>2
            DEF UpgradeFinish, Lock!Upgrade, Lock!OthersHaveNone, Lock!SetMode
        <3> QED BY <3>3 DEF Lock!LockNext
    <2>7. CASE UpgradeRelease(t) \/ UnlockMask(t) \/ UnlockSub(t)
        <3>1. Lock!Release(t)
            BY <2>7, <1>2 DEF UpgradeRelease, UnlockMask, UnlockSub, Return,
               Lock!Release, Lock!SetMode
        <3> QED BY <3>1 DEF Lock!LockNext
    <2> QED BY <1>4, <2>1, <2>2, <2>3, <2>4, <2>5, <2>6, <2>7 DEF Step
<1>5. ASSUME NEW t \in Threads, Call(t) PROVE [Lock!LockNext]_(Lock!lockVars)
    <2>1. CASE Downgrade(t)
        <3>1. Lock!Downgrade(t)
            BY <2>1, <1>2 DEF Downgrade, Return, Lock!Downgrade, Lock!SetMode
        <3> QED BY <3>1 DEF Lock!LockNext
    <2>2. CASE ~Downgrade(t)
        <3>1. PICK loc \in {"w_load", "r_load", "tw_cas", "tr_add", "u_cas",
                            "u_release"} : Goto(t, loc)
            BY <1>5, <2>2 DEF Call, AcquireWriter, AcquireReader, TryWriter,
               TryReader, Upgrade, UpgradeTest
        <3> QED
            BY <1>5, <2>2, <3>1, <1>3 DEF Call, AcquireWriter, AcquireReader,
               TryWriter, TryReader, Upgrade, UpgradeTest, Goto
    <2> QED BY <2>1, <2>2
<1>6. ASSUME NEW t \in Threads, Free(t) PROVE [Lock!LockNext]_(Lock!lockVars)
    <2>1. CASE ReleaseReader(t) \/ ReleaseWriter(t)
        <3>1. Lock!Release(t)
            BY <2>1, <1>2 DEF ReleaseReader, ReleaseWriter, Return,
               Lock!Release, Lock!SetMode
        <3> QED BY <3>1 DEF Lock!LockNext
    <2>2. CASE Unlock(t)
        <3>1. PICK loc \in {"xr_mask", "xr_sub", "xw_mask", "xw_sub"} :
                  Goto(t, loc) /\ ModeAt(loc) = ModeAt(pc[t])
            BY <2>2 DEF Unlock
        <3> QED BY <2>2, <3>1, <1>3 DEF Unlock
    <2> QED BY <1>6, <2>1, <2>2 DEF Free
<1>7. CASE UNCHANGED vars
    BY <1>7 DEF vars, mode
<1> QED BY <1>4, <1>5, <1>6, <1>7 DEF Next

\* spin_rw_mutex implements the reader-writer lock of RWLock, the promise of
\* upgrade_to_writer included.
THEOREM Refinement == Spec => RefinesRWLock
<1>1. Init => Lock!LockInit
    BY DEF Init, Lock!LockInit, mode, ModeAt, ReadLocs, UpgradeLocs, WriteLocs,
       Idle, Reading, Writing, Away
<1>2. IInv /\ [Next]_vars => [Lock!LockNext]_(Lock!lockVars)
    BY StepRefines
<1> QED BY <1>1, <1>2, Invariant, PTL DEF Spec, RefinesRWLock, Lock!LockSpec

=============================================================================
