------------------------ MODULE ReaderWriterLockProofs ------------------------
EXTENDS ReaderWriterLock, FiniteSetTheorems, TLAPS

LEMMA NotNull == \A t \in Threads : t # NULL
BY RolesAssumption

LEMMA LocsAre ==
    /\ {"idle", "reading", "writing", "tr_undo", "end_read"} \subseteq Locs
    /\ {"w_swap", "w_cas", "w_link", "w_first", "w_spin"} \subseteq Locs
    /\ {"f_head", "f_cas", "f_wait", "f_free"} \subseteq Locs
    /\ {"s_head", "s_cas", "s_or1", "s_w2wait", "s_or2", "s_rcwait", "s_active"} \subseteq Locs
    /\ {"e_clear", "e_next", "e_give", "e_and", "e_head", "e_cas", "e_wait"} \subseteq Locs
    /\ "e_free" \in Locs
    /\ {"r_push", "r_or", "r_spin", "r_count", "r_wake"} \subseteq Locs
    /\ {"b_add", "b_win1", "b_win2", "b_or2", "b_pop", "b_wake"} \subseteq Locs
BY DEF Locs, StartWriteLocs, SetNextLocs, EndWriteLocs, StartReadLocs, UnblockLocs

LEMMA Typed ==
    TypeOK =>
        /\ {reader_head, writer_head, writer_tail, my_current_writer} \subseteq Threads \cup {NULL}
        /\ \A t \in Threads : /\ {wnext[t], rnext[t], node[t]} \subseteq Threads \cup {NULL}
                              /\ below[t] \subseteq Threads
BY DEF TypeOK, Nodes

-----------------------------------------------------------------------------
(* How a step moves the threads. *)

OthersStay(t) ==
    \A u \in Threads : u # t => pc'[u] = pc[u] /\ node'[u] = node[u] /\ back'[u] = back[u]

Moves(t, loc) ==
    /\ pc'[t] = loc /\ node'[t] = node[t] /\ back'[t] = back[t]
    /\ OthersStay(t)

Jumps(t, loc, n, ret) ==
    /\ pc'[t] = loc /\ node'[t] = n /\ back'[t] = ret
    /\ OthersStay(t)

\* Thread u is to the others what it was.
Same(u) ==
    /\ pc'[u] = pc[u] /\ node'[u] = node[u] /\ back'[u] = back[u]
    /\ Queued(u)' <=> Queued(u)
    /\ InCharge(u)' <=> InCharge(u)
    /\ Passing(u)' <=> Passing(u)
    /\ Linked(u)' <=> Linked(u)
    /\ Stacked(u)' <=> Stacked(u)
    /\ Counted(u)' <=> Counted(u)
    /\ Holding(u)' <=> Holding(u)
    /\ Flagged(u)' <=> Flagged(u)
    /\ Opening(u)' <=> Opening(u)

LEMMA Unmoved ==
    ASSUME NEW u \in Threads, pc'[u] = pc[u], node'[u] = node[u], back'[u] = back[u],
           wstatus'[u] = wstatus[u], rstatus'[u] = rstatus[u]
    PROVE  Same(u)
BY DEF Same, Queued, InCharge, Passing, Linked, Stacked, Counted, Holding, Flagged, Opening

\* What the places in the code say of the parts a thread plays.
LEMMA Parts ==
    \A u \in Threads :
        /\ pc[u] \in SetNextLocs \cup {"w_first", "f_head", "f_cas", "f_wait", "writing",
                "e_clear", "e_next", "e_give", "e_and", "e_head", "e_cas", "e_wait"} => InCharge(u)
        /\ pc[u] = "w_spin" /\ wstatus[u] = "active" => InCharge(u)
        /\ pc[u] \in UnblockLocs /\ back[u] = "e_head" => InCharge(u)
        /\ pc[u] \in {"w_swap", "w_cas", "e_give"} => ~ Queued(u)
        /\ Holding(u) \/ pc[u] = "s_rcwait" => Flagged(u)
        /\ Flagged(u) \/ Passing(u) => InCharge(u)
        /\ pc[u] \in {"b_win1", "b_win2", "b_or2", "b_pop", "b_wake"} => Counted(u)
        /\ pc[u] \in {"r_or", "b_add", "b_win1", "b_win2", "b_or2", "b_pop"} => Opening(u)
        /\ Stacked(u) /\ rstatus[u] = "waiting" =>
              \/ pc[u] \in {"r_spin", "r_count", "r_wake"}
              \/ Opening(u)
              \/ pc[u] = "b_wake" /\ back[u] = "r_spin"
BY DEF InCharge, Queued, Passing, Holding, Flagged, Counted, Opening, Stacked,
    SetNextLocs, UnblockLocs

-----------------------------------------------------------------------------
(* The count. *)

AllCounted == {t \in Threads : Counted(t)}
Waking == {t \in Threads : pc[t] = "r_wake"}

LEMMA CountIs ==
    /\ IsFiniteSet(AllCounted) /\ IsFiniteSet(Waking)
    /\ Cardinality(AllCounted) \in Nat /\ Cardinality(Waking) \in Nat
    /\ CountExact <=> word.rc = Cardinality(AllCounted) + Cardinality(Waking)
    /\ CountExact' <=> word'.rc = Cardinality(AllCounted') + Cardinality(Waking')
<1>1. AllCounted \subseteq Threads /\ Waking \subseteq Threads
    BY DEF AllCounted, Waking
<1>2. At({"r_wake"}) = Waking
    BY DEF At, Waking
<1>3. At({"r_wake"})' = Waking'
    BY DEF At, Waking
<1>4. IsFiniteSet(AllCounted) /\ IsFiniteSet(Waking)
    BY <1>1, FS_Subset, RolesAssumption
<1>5. Cardinality(AllCounted) \in Nat /\ Cardinality(Waking) \in Nat
    BY <1>4, FS_CardinalityType
<1>6. CountExact <=> word.rc = Cardinality(AllCounted) + Cardinality(Waking)
    BY <1>2 DEF CountExact, AllCounted
<1>7. CountExact' <=> word'.rc = Cardinality(AllCounted') + Cardinality(Waking')
    BY <1>3 DEF CountExact, AllCounted
<1> QED BY <1>4, <1>5, <1>6, <1>7

LEMMA Join ==
    ASSUME NEW S, IsFiniteSet(S), NEW t, t \notin S
    PROVE  Cardinality(S \cup {t}) = Cardinality(S) + 1
BY FS_AddElement

LEMMA Leave ==
    ASSUME NEW S, IsFiniteSet(S), NEW t \in S
    PROVE  Cardinality(S \ {t}) = Cardinality(S) - 1
BY FS_RemoveElement

\* Who is counted stays counted.
LEMMA CountStays ==
    ASSUME CountExact, word'.rc = word.rc,
           \A u \in Threads : /\ Counted(u)' <=> Counted(u)
                              /\ pc'[u] = "r_wake" <=> pc[u] = "r_wake"
    PROVE  CountExact'
<1>1. AllCounted' = AllCounted /\ Waking' = Waking
    BY DEF AllCounted, Waking
<1> QED BY <1>1, CountIs

\* One thread counts itself in.
LEMMA CountJoins ==
    ASSUME CountExact, word'.rc = word.rc + 1, NEW t \in Threads, ~ Counted(t), Counted(t)',
           \A u \in Threads : u # t => (Counted(u)' <=> Counted(u)),
           \A u \in Threads : pc'[u] = "r_wake" <=> pc[u] = "r_wake"
    PROVE  CountExact'
<1>1. AllCounted' = AllCounted \cup {t} /\ t \notin AllCounted /\ Waking' = Waking
    BY DEF AllCounted, Waking
<1>2. Cardinality(AllCounted') = Cardinality(AllCounted) + 1
    BY <1>1, CountIs, Join
<1> QED BY <1>1, <1>2, CountIs

\* One thread takes itself out.
LEMMA CountLeaves ==
    ASSUME CountExact, word'.rc = word.rc - 1, NEW t \in Threads, Counted(t), ~ Counted(t)',
           \A u \in Threads : u # t => (Counted(u)' <=> Counted(u)),
           \A u \in Threads : pc'[u] = "r_wake" <=> pc[u] = "r_wake"
    PROVE  CountExact'
<1>1. AllCounted' = AllCounted \ {t} /\ t \in AllCounted /\ Waking' = Waking
    BY DEF AllCounted, Waking
<1>2. Cardinality(AllCounted') = Cardinality(AllCounted) - 1
    BY <1>1, CountIs, Leave
<1> QED BY <1>1, <1>2, CountIs

\* Whoever wakes a group hands its place in the count to the one it wakes.
LEMMA CountPasses ==
    ASSUME CountExact, word'.rc = word.rc, NEW t \in Threads, NEW s \in Threads, s # t,
           Counted(t), ~ Counted(t)', ~ Counted(s), Counted(s)',
           \A u \in Threads : u # t /\ u # s => (Counted(u)' <=> Counted(u)),
           \A u \in Threads : pc'[u] = "r_wake" <=> pc[u] = "r_wake"
    PROVE  CountExact'
<1> DEFINE C == AllCounted \cup {s}
<1>1. AllCounted' = C \ {t} /\ t \in C /\ s \notin AllCounted /\ Waking' = Waking
    BY DEF AllCounted, Waking
<1>2. Cardinality(C) = Cardinality(AllCounted) + 1 /\ IsFiniteSet(C)
    BY <1>1, CountIs, Join, FS_AddElement
<1>3. Cardinality(AllCounted') = Cardinality(C) - 1
    BY <1>1, <1>2, Leave
<1> HIDE DEF C
<1> QED BY <1>1, <1>2, <1>3, CountIs

\* A reader counts the one it is about to wake.
LEMMA CountAhead ==
    ASSUME CountExact, word'.rc = word.rc + 1, NEW t \in Threads,
           pc[t] # "r_wake", pc'[t] = "r_wake",
           \A u \in Threads : u # t => pc'[u] = pc[u],
           \A u \in Threads : Counted(u)' <=> Counted(u)
    PROVE  CountExact'
<1>1. Waking' = Waking \cup {t} /\ t \notin Waking /\ AllCounted' = AllCounted
    BY DEF AllCounted, Waking
<1>2. Cardinality(Waking') = Cardinality(Waking) + 1
    BY <1>1, CountIs, Join
<1> QED BY <1>1, <1>2, CountIs

\* It wakes the one that it has counted.
LEMMA CountWakes ==
    ASSUME CountExact, word'.rc = word.rc, NEW t \in Threads, NEW s \in Threads,
           pc[t] = "r_wake", pc'[t] # "r_wake", ~ Counted(s), Counted(s)',
           \A u \in Threads : u # t => (pc'[u] = "r_wake" <=> pc[u] = "r_wake"),
           \A u \in Threads : u # s => (Counted(u)' <=> Counted(u))
    PROVE  CountExact'
<1>1. /\ Waking' = Waking \ {t} /\ t \in Waking
      /\ AllCounted' = AllCounted \cup {s} /\ s \notin AllCounted
    BY DEF AllCounted, Waking
<1>2. Cardinality(Waking') = Cardinality(Waking) - 1
    BY <1>1, CountIs, Leave
<1>3. Cardinality(AllCounted') = Cardinality(AllCounted) + 1
    BY <1>1, CountIs, Join
<1> QED BY <1>1, <1>2, <1>3, CountIs

\* With somebody counted, the count is not zero.
LEMMA CountPositive ==
    ASSUME CountExact, NEW t \in Threads, Counted(t)
    PROVE  word.rc > 0
<1>1. t \in AllCounted
    BY DEF AllCounted
<1>2. Cardinality(AllCounted) # 0
    BY <1>1, CountIs, FS_EmptySet
<1> QED BY <1>2, CountIs

LEMMA CountZero ==
    ASSUME CountExact, word.rc = 0
    PROVE  \A t \in Threads : ~ Counted(t)
BY CountPositive

-----------------------------------------------------------------------------
(* Each step keeps the invariant: first what the step does, then whom it leaves *)
(* as they were, what it makes of the thread that takes it, and the parts.      *)

(* lock, try_lock and start_write *)

LEMMA LockKeeps ==
    ASSUME IInv, NEW t \in Threads, Lock(t)
    PROVE  IInv'
<1>1. /\ pc[t] = "idle" /\ my_current_writer # t /\ Moves(t, "w_swap") /\ wnext'[t] = NULL
      /\ (\A u \in Threads : u # t => wnext'[u] = wnext[u]) /\ wstatus'[t] = "waiting"
      /\ (\A u \in Threads : u # t => wstatus'[u] = wstatus[u])
      /\ UNCHANGED <<word, reader_head, writer_head, writer_tail, my_current_writer>>
      /\ UNCHANGED <<rnext, rstatus, below>>
    BY NotNull DEF IInv, TypeOK, Local, Lock, NewWriteNode, Goto, heads, wnodes, rnodes, Moves,
        OthersStay
<1>2. TypeOK'
    BY LocsAre, NotNull DEF IInv, TypeOK, Nodes, Statuses, Lock, NewWriteNode, Goto, heads,
        wnodes, rnodes
<1>3. \A u \in Threads : u # t => Same(u)
    BY <1>1, Unmoved DEF Moves, OthersStay
<1>4. /\ ~ Queued(t) /\ ~ Queued(t)' /\ ~ InCharge(t) /\ ~ InCharge(t)' /\ ~ Passing(t)
      /\ ~ Passing(t)' /\ ~ Linked(t) /\ ~ Linked(t)' /\ ~ Stacked(t) /\ ~ Stacked(t)'
      /\ ~ Counted(t) /\ ~ Counted(t)' /\ ~ Holding(t) /\ ~ Holding(t)' /\ ~ Flagged(t)
      /\ ~ Flagged(t)' /\ ~ Opening(t) /\ ~ Opening(t)'
    BY <1>1 DEF Moves, Jumps, Queued, InCharge, Passing, Linked, Stacked, Counted, Holding,
        Flagged, Opening, SetNextLocs, UnblockLocs
<1>5. Local'
    BY NotNull, Typed, <1>1, <1>3, <1>4 DEF IInv, Local, Same, Moves, OthersStay, WritersInLine,
        Passing, Linked, SetNextLocs, UnblockLocs, EndWriteLocs
<1>6. WritersInLine'
    BY NotNull, Typed, <1>1, <1>3, <1>4 DEF IInv, WritersInLine, Same, Moves, OthersStay
<1>7. HeadExact'
    BY NotNull, Typed, <1>1, <1>3, <1>4 DEF IInv, HeadExact, Same, Moves, OthersStay,
        SetNextLocs, UnblockLocs
<1>8. FlagsExact'
    BY NotNull, Typed, <1>1, <1>3, <1>4 DEF IInv, FlagsExact, Same, Moves, OthersStay
<1>9. ReadersAnnounced'
    BY NotNull, Typed, <1>1, <1>3, <1>4 DEF IInv, ReadersAnnounced, Same, Moves, OthersStay
<1>10. GroupsApart'
    BY NotNull, Typed, <1>1, <1>3, <1>4 DEF IInv, GroupsApart, Same, Moves, OthersStay, Chains,
        Apart, Tops, Top
<1>11. CountExact'
    BY <1>1, <1>3, <1>4, CountStays DEF IInv, Same, Moves, OthersStay
<1> QED BY <1>2, <1>5, <1>6, <1>7, <1>8, <1>9, <1>10, <1>11 DEF IInv

LEMMA TryLockKeeps ==
    ASSUME IInv, NEW t \in Threads, TryLock(t)
    PROVE  IInv'
<1>1. /\ pc[t] = "idle" /\ my_current_writer # t /\ Moves(t, "w_cas") /\ wnext'[t] = NULL
      /\ (\A u \in Threads : u # t => wnext'[u] = wnext[u])
      /\ wstatus'[t] = "waiting_nonblocking"
      /\ (\A u \in Threads : u # t => wstatus'[u] = wstatus[u])
      /\ UNCHANGED <<word, reader_head, writer_head, writer_tail, my_current_writer>>
      /\ UNCHANGED <<rnext, rstatus, below>>
    BY NotNull DEF IInv, TypeOK, Local, TryLock, NewWriteNode, Goto, heads, wnodes, rnodes,
        Moves, OthersStay
<1>2. TypeOK'
    BY LocsAre, NotNull DEF IInv, TypeOK, Nodes, Statuses, TryLock, NewWriteNode, Goto, heads,
        wnodes, rnodes
<1>3. \A u \in Threads : u # t => Same(u)
    BY <1>1, Unmoved DEF Moves, OthersStay
<1>4. /\ ~ Queued(t) /\ ~ Queued(t)' /\ ~ InCharge(t) /\ ~ InCharge(t)' /\ ~ Passing(t)
      /\ ~ Passing(t)' /\ ~ Linked(t) /\ ~ Linked(t)' /\ ~ Stacked(t) /\ ~ Stacked(t)'
      /\ ~ Counted(t) /\ ~ Counted(t)' /\ ~ Holding(t) /\ ~ Holding(t)' /\ ~ Flagged(t)
      /\ ~ Flagged(t)' /\ ~ Opening(t) /\ ~ Opening(t)'
    BY <1>1 DEF Moves, Jumps, Queued, InCharge, Passing, Linked, Stacked, Counted, Holding,
        Flagged, Opening, SetNextLocs, UnblockLocs
<1>5. Local'
    BY NotNull, Typed, <1>1, <1>3, <1>4 DEF IInv, Local, Same, Moves, OthersStay, WritersInLine,
        Passing, Linked, SetNextLocs, UnblockLocs, EndWriteLocs
<1>6. WritersInLine'
    BY NotNull, Typed, <1>1, <1>3, <1>4 DEF IInv, WritersInLine, Same, Moves, OthersStay
<1>7. HeadExact'
    BY NotNull, Typed, <1>1, <1>3, <1>4 DEF IInv, HeadExact, Same, Moves, OthersStay,
        SetNextLocs, UnblockLocs
<1>8. FlagsExact'
    BY NotNull, Typed, <1>1, <1>3, <1>4 DEF IInv, FlagsExact, Same, Moves, OthersStay
<1>9. ReadersAnnounced'
    BY NotNull, Typed, <1>1, <1>3, <1>4 DEF IInv, ReadersAnnounced, Same, Moves, OthersStay
<1>10. GroupsApart'
    BY NotNull, Typed, <1>1, <1>3, <1>4 DEF IInv, GroupsApart, Same, Moves, OthersStay, Chains,
        Apart, Tops, Top
<1>11. CountExact'
    BY <1>1, <1>3, <1>4, CountStays DEF IInv, Same, Moves, OthersStay
<1> QED BY <1>2, <1>5, <1>6, <1>7, <1>8, <1>9, <1>10, <1>11 DEF IInv

LEMMA SwapTailFirstKeeps ==
    ASSUME IInv, NEW t \in Threads, SwapTail(t), writer_tail = NULL
    PROVE  IInv'
<1>1. /\ pc[t] = "w_swap" /\ wstatus[t] = "waiting" /\ writer_tail = NULL /\ wnext[t] = NULL
      /\ Jumps(t, "s_head", t, "w_first") /\ writer_tail' = t
      /\ UNCHANGED <<word, reader_head, writer_head, my_current_writer, wnext>>
      /\ UNCHANGED <<wstatus, rnext, rstatus, below>>
    BY NotNull DEF IInv, TypeOK, Local, SwapTail, CallSetNext, Jump, heads, wnodes, rnodes,
        Jumps, OthersStay
<1>2. TypeOK'
    BY LocsAre, NotNull DEF IInv, TypeOK, Nodes, Statuses, SwapTail, CallSetNext, Jump, heads,
        wnodes, rnodes
<1>3. \A u \in Threads : u # t => Same(u)
    BY <1>1, Unmoved DEF Jumps, OthersStay
<1>4. /\ ~ Queued(t) /\ Queued(t)' /\ ~ InCharge(t) /\ InCharge(t)' /\ ~ Passing(t)
      /\ ~ Passing(t)' /\ ~ Linked(t) /\ ~ Linked(t)' /\ ~ Stacked(t) /\ ~ Stacked(t)'
      /\ ~ Counted(t) /\ ~ Counted(t)' /\ ~ Holding(t) /\ ~ Holding(t)' /\ ~ Flagged(t)
      /\ ~ Flagged(t)' /\ ~ Opening(t) /\ ~ Opening(t)'
    BY <1>1 DEF Moves, Jumps, Queued, InCharge, Passing, Linked, Stacked, Counted, Holding,
        Flagged, Opening, SetNextLocs, UnblockLocs
<1>5. Local'
    BY NotNull, Typed, <1>1, <1>3, <1>4 DEF IInv, Local, Same, Jumps, OthersStay, WritersInLine,
        Passing, Linked, SetNextLocs, UnblockLocs, EndWriteLocs
<1>6. WritersInLine'
    BY NotNull, Typed, <1>1, <1>3, <1>4 DEF IInv, WritersInLine, Same, Jumps, OthersStay
<1>7. HeadExact'
    BY NotNull, Typed, <1>1, <1>3, <1>4, Parts DEF IInv, HeadExact, Same, Jumps, OthersStay,
        SetNextLocs, UnblockLocs, WritersInLine
<1>8. FlagsExact'
    BY NotNull, Typed, <1>1, <1>3, <1>4 DEF IInv, FlagsExact, Same, Jumps, OthersStay
<1>9. ReadersAnnounced'
    BY NotNull, Typed, <1>1, <1>3, <1>4 DEF IInv, ReadersAnnounced, Same, Jumps, OthersStay
<1>10. GroupsApart'
    BY NotNull, Typed, <1>1, <1>3, <1>4 DEF IInv, GroupsApart, Same, Jumps, OthersStay, Chains,
        Apart, Tops, Top
<1>11. CountExact'
    BY <1>1, <1>3, <1>4, CountStays DEF IInv, Same, Jumps, OthersStay
<1> QED BY <1>2, <1>5, <1>6, <1>7, <1>8, <1>9, <1>10, <1>11 DEF IInv

LEMMA SwapTailBehindKeeps ==
    ASSUME IInv, NEW t \in Threads, SwapTail(t), writer_tail # NULL
    PROVE  IInv'
<1>1. /\ pc[t] = "w_swap" /\ wstatus[t] = "waiting" /\ writer_tail # NULL
      /\ writer_tail \in Threads /\ wnext[t] = NULL /\ Jumps(t, "w_link", writer_tail, "idle")
      /\ writer_tail' = t
      /\ UNCHANGED <<word, reader_head, writer_head, my_current_writer, wnext>>
      /\ UNCHANGED <<wstatus, rnext, rstatus, below>>
    BY NotNull DEF IInv, TypeOK, Local, SwapTail, Jump, Nodes, heads, wnodes, rnodes, Jumps,
        OthersStay
<1>2. TypeOK'
    BY LocsAre, NotNull DEF IInv, TypeOK, Nodes, Statuses, SwapTail, Jump, Nodes, heads, wnodes,
        rnodes
<1>3. \A u \in Threads : u # t => Same(u)
    BY <1>1, Unmoved DEF Jumps, OthersStay
<1>4. /\ ~ Queued(t) /\ Queued(t)' /\ ~ InCharge(t) /\ ~ InCharge(t)' /\ ~ Passing(t)
      /\ ~ Passing(t)' /\ ~ Linked(t) /\ ~ Linked(t)' /\ ~ Stacked(t) /\ ~ Stacked(t)'
      /\ ~ Counted(t) /\ ~ Counted(t)' /\ ~ Holding(t) /\ ~ Holding(t)' /\ ~ Flagged(t)
      /\ ~ Flagged(t)' /\ ~ Opening(t) /\ ~ Opening(t)'
    BY <1>1 DEF Moves, Jumps, Queued, InCharge, Passing, Linked, Stacked, Counted, Holding,
        Flagged, Opening, SetNextLocs, UnblockLocs
<1>5. Local'
    BY NotNull, Typed, <1>1, <1>3, <1>4 DEF IInv, Local, Same, Jumps, OthersStay, WritersInLine,
        Passing, Linked, SetNextLocs, UnblockLocs, EndWriteLocs
<1>6. WritersInLine'
    BY NotNull, Typed, <1>1, <1>3, <1>4 DEF IInv, WritersInLine, Same, Jumps, OthersStay
<1>7. HeadExact'
    BY NotNull, Typed, <1>1, <1>3, <1>4 DEF IInv, HeadExact, Same, Jumps, OthersStay,
        SetNextLocs, UnblockLocs
<1>8. FlagsExact'
    BY NotNull, Typed, <1>1, <1>3, <1>4 DEF IInv, FlagsExact, Same, Jumps, OthersStay
<1>9. ReadersAnnounced'
    BY NotNull, Typed, <1>1, <1>3, <1>4 DEF IInv, ReadersAnnounced, Same, Jumps, OthersStay
<1>10. GroupsApart'
    BY NotNull, Typed, <1>1, <1>3, <1>4 DEF IInv, GroupsApart, Same, Jumps, OthersStay, Chains,
        Apart, Tops, Top
<1>11. CountExact'
    BY <1>1, <1>3, <1>4, CountStays DEF IInv, Same, Jumps, OthersStay
<1> QED BY <1>2, <1>5, <1>6, <1>7, <1>8, <1>9, <1>10, <1>11 DEF IInv

LEMMA TryTailFirstKeeps ==
    ASSUME IInv, NEW t \in Threads, TryTail(t), writer_tail = NULL
    PROVE  IInv'
<1>1. /\ pc[t] = "w_cas" /\ wstatus[t] = "waiting_nonblocking" /\ writer_tail = NULL
      /\ wnext[t] = NULL /\ Jumps(t, "s_head", t, "w_first") /\ writer_tail' = t
      /\ UNCHANGED <<word, reader_head, writer_head, my_current_writer, wnext>>
      /\ UNCHANGED <<wstatus, rnext, rstatus, below>>
    BY NotNull DEF IInv, TypeOK, Local, TryTail, CallSetNext, Jump, heads, wnodes, rnodes,
        Jumps, OthersStay
<1>2. TypeOK'
    BY LocsAre, NotNull DEF IInv, TypeOK, Nodes, Statuses, TryTail, CallSetNext, Jump, heads,
        wnodes, rnodes
<1>3. \A u \in Threads : u # t => Same(u)
    BY <1>1, Unmoved DEF Jumps, OthersStay
<1>4. /\ ~ Queued(t) /\ Queued(t)' /\ ~ InCharge(t) /\ InCharge(t)' /\ ~ Passing(t)
      /\ ~ Passing(t)' /\ ~ Linked(t) /\ ~ Linked(t)' /\ ~ Stacked(t) /\ ~ Stacked(t)'
      /\ ~ Counted(t) /\ ~ Counted(t)' /\ ~ Holding(t) /\ ~ Holding(t)' /\ ~ Flagged(t)
      /\ ~ Flagged(t)' /\ ~ Opening(t) /\ ~ Opening(t)'
    BY <1>1 DEF Moves, Jumps, Queued, InCharge, Passing, Linked, Stacked, Counted, Holding,
        Flagged, Opening, SetNextLocs, UnblockLocs
<1>5. Local'
    BY NotNull, Typed, <1>1, <1>3, <1>4 DEF IInv, Local, Same, Jumps, OthersStay, WritersInLine,
        Passing, Linked, SetNextLocs, UnblockLocs, EndWriteLocs
<1>6. WritersInLine'
    BY NotNull, Typed, <1>1, <1>3, <1>4 DEF IInv, WritersInLine, Same, Jumps, OthersStay
<1>7. HeadExact'
    BY NotNull, Typed, <1>1, <1>3, <1>4, Parts DEF IInv, HeadExact, Same, Jumps, OthersStay,
        SetNextLocs, UnblockLocs, WritersInLine
<1>8. FlagsExact'
    BY NotNull, Typed, <1>1, <1>3, <1>4 DEF IInv, FlagsExact, Same, Jumps, OthersStay
<1>9. ReadersAnnounced'
    BY NotNull, Typed, <1>1, <1>3, <1>4 DEF IInv, ReadersAnnounced, Same, Jumps, OthersStay
<1>10. GroupsApart'
    BY NotNull, Typed, <1>1, <1>3, <1>4 DEF IInv, GroupsApart, Same, Jumps, OthersStay, Chains,
        Apart, Tops, Top
<1>11. CountExact'
    BY <1>1, <1>3, <1>4, CountStays DEF IInv, Same, Jumps, OthersStay
<1> QED BY <1>2, <1>5, <1>6, <1>7, <1>8, <1>9, <1>10, <1>11 DEF IInv

LEMMA TryTailFailsKeeps ==
    ASSUME IInv, NEW t \in Threads, TryTail(t), writer_tail # NULL
    PROVE  IInv'
<1>1. /\ pc[t] = "w_cas" /\ wstatus[t] = "waiting_nonblocking" /\ Moves(t, "idle")
      /\ wnext'[t] = NULL /\ (\A u \in Threads : u # t => wnext'[u] = wnext[u])
      /\ wstatus'[t] = "invalid" /\ (\A u \in Threads : u # t => wstatus'[u] = wstatus[u])
      /\ UNCHANGED <<word, reader_head, writer_head, writer_tail, my_current_writer>>
      /\ UNCHANGED <<rnext, rstatus, below>>
    BY NotNull DEF IInv, TypeOK, Local, TryTail, FreeWriteNode, Goto, heads, wnodes, rnodes,
        Moves, OthersStay
<1>2. TypeOK'
    BY LocsAre, NotNull DEF IInv, TypeOK, Nodes, Statuses, TryTail, FreeWriteNode, Goto, heads,
        wnodes, rnodes
<1>3. \A u \in Threads : u # t => Same(u)
    BY <1>1, Unmoved DEF Moves, OthersStay
<1>4. /\ ~ Queued(t) /\ ~ Queued(t)' /\ ~ InCharge(t) /\ ~ InCharge(t)' /\ ~ Passing(t)
      /\ ~ Passing(t)' /\ ~ Linked(t) /\ ~ Linked(t)' /\ ~ Stacked(t) /\ ~ Stacked(t)'
      /\ ~ Counted(t) /\ ~ Counted(t)' /\ ~ Holding(t) /\ ~ Holding(t)' /\ ~ Flagged(t)
      /\ ~ Flagged(t)' /\ ~ Opening(t) /\ ~ Opening(t)'
    BY <1>1 DEF Moves, Jumps, Queued, InCharge, Passing, Linked, Stacked, Counted, Holding,
        Flagged, Opening, SetNextLocs, UnblockLocs
<1>5. Local'
    BY NotNull, Typed, <1>1, <1>3, <1>4 DEF IInv, Local, Same, Moves, OthersStay, WritersInLine,
        Passing, Linked, SetNextLocs, UnblockLocs, EndWriteLocs
<1>6. WritersInLine'
    BY NotNull, Typed, <1>1, <1>3, <1>4 DEF IInv, WritersInLine, Same, Moves, OthersStay
<1>7. HeadExact'
    BY NotNull, Typed, <1>1, <1>3, <1>4 DEF IInv, HeadExact, Same, Moves, OthersStay,
        SetNextLocs, UnblockLocs
<1>8. FlagsExact'
    BY NotNull, Typed, <1>1, <1>3, <1>4 DEF IInv, FlagsExact, Same, Moves, OthersStay
<1>9. ReadersAnnounced'
    BY NotNull, Typed, <1>1, <1>3, <1>4 DEF IInv, ReadersAnnounced, Same, Moves, OthersStay
<1>10. GroupsApart'
    BY NotNull, Typed, <1>1, <1>3, <1>4 DEF IInv, GroupsApart, Same, Moves, OthersStay, Chains,
        Apart, Tops, Top
<1>11. CountExact'
    BY <1>1, <1>3, <1>4, CountStays DEF IInv, Same, Moves, OthersStay
<1> QED BY <1>2, <1>5, <1>6, <1>7, <1>8, <1>9, <1>10, <1>11 DEF IInv

LEMMA LinkWriterKeeps ==
    ASSUME IInv, NEW t \in Threads, LinkWriter(t)
    PROVE  IInv'
<1>1. /\ pc[t] = "w_link" /\ wstatus[t] = "waiting" /\ node[t] \in Threads \ {t}
      /\ Queued(node[t]) /\ wnext[node[t]] = NULL /\ Jumps(t, "w_spin", NULL, "idle")
      /\ wnext'[node[t]] = t /\ (\A u \in Threads : u # node[t] => wnext'[u] = wnext[u])
      /\ UNCHANGED <<word, reader_head, writer_head, writer_tail, my_current_writer>>
      /\ UNCHANGED <<wstatus, rnext, rstatus, below>>
    BY NotNull DEF IInv, TypeOK, Local, WritersInLine, LinkWriter, Finish, Jump, heads, wnodes,
        rnodes, Jumps, OthersStay
<1>2. TypeOK'
    BY LocsAre, NotNull DEF IInv, TypeOK, Nodes, Statuses, LinkWriter, Finish, Jump, heads,
        wnodes, rnodes
<1>3. \A u \in Threads : u # t => Same(u)
    BY <1>1, Unmoved DEF Jumps, OthersStay
<1>4. /\ Queued(t) /\ Queued(t)' /\ ~ InCharge(t) /\ ~ InCharge(t)' /\ ~ Passing(t)
      /\ ~ Passing(t)' /\ ~ Linked(t) /\ Linked(t)' /\ ~ Stacked(t) /\ ~ Stacked(t)'
      /\ ~ Counted(t) /\ ~ Counted(t)' /\ ~ Holding(t) /\ ~ Holding(t)' /\ ~ Flagged(t)
      /\ ~ Flagged(t)' /\ ~ Opening(t) /\ ~ Opening(t)'
    BY <1>1 DEF Moves, Jumps, Queued, InCharge, Passing, Linked, Stacked, Counted, Holding,
        Flagged, Opening, SetNextLocs, UnblockLocs
<1>5. Local'
    BY NotNull, Typed, <1>1, <1>3, <1>4, Parts DEF IInv, Local, Same, Jumps, OthersStay,
        WritersInLine, Passing, Linked, SetNextLocs, UnblockLocs, EndWriteLocs
<1>6. WritersInLine'
    BY NotNull, Typed, <1>1, <1>3, <1>4 DEF IInv, WritersInLine, Same, Jumps, OthersStay
<1>7. HeadExact'
    BY NotNull, Typed, <1>1, <1>3, <1>4, Parts DEF IInv, HeadExact, Same, Jumps, OthersStay,
        SetNextLocs, UnblockLocs, WritersInLine
<1>8. FlagsExact'
    BY NotNull, Typed, <1>1, <1>3, <1>4 DEF IInv, FlagsExact, Same, Jumps, OthersStay
<1>9. ReadersAnnounced'
    BY NotNull, Typed, <1>1, <1>3, <1>4 DEF IInv, ReadersAnnounced, Same, Jumps, OthersStay
<1>10. GroupsApart'
    BY NotNull, Typed, <1>1, <1>3, <1>4 DEF IInv, GroupsApart, Same, Jumps, OthersStay, Chains,
        Apart, Tops, Top
<1>11. CountExact'
    BY <1>1, <1>3, <1>4, CountStays DEF IInv, Same, Jumps, OthersStay
<1> QED BY <1>2, <1>5, <1>6, <1>7, <1>8, <1>9, <1>10, <1>11 DEF IInv

-----------------------------------------------------------------------------
(* The first writer, the writer that spins, and leaving the queue. *)

LEMMA FirstActiveKeeps ==
    ASSUME IInv, NEW t \in Threads, FirstWriter(t), wstatus[t] # "waiting_nonblocking"
    PROVE  IInv'
<1>1. /\ pc[t] = "w_first" /\ wstatus[t] = "active" /\ Moves(t, "w_spin")
      /\ UNCHANGED <<word, reader_head, writer_head, writer_tail, my_current_writer>>
      /\ UNCHANGED <<wnext, wstatus, rnext, rstatus, below>>
    BY NotNull DEF IInv, TypeOK, Local, FirstWriter, Goto, heads, wnodes, rnodes, Moves,
        OthersStay
<1>2. TypeOK'
    BY LocsAre, NotNull DEF IInv, TypeOK, Nodes, Statuses, FirstWriter, Goto, heads, wnodes,
        rnodes
<1>3. \A u \in Threads : u # t => Same(u)
    BY <1>1, Unmoved DEF Moves, OthersStay
<1>4. /\ Queued(t) /\ Queued(t)' /\ InCharge(t) /\ InCharge(t)' /\ ~ Passing(t) /\ ~ Passing(t)'
      /\ ~ Linked(t) /\ ~ Linked(t)' /\ ~ Stacked(t) /\ ~ Stacked(t)' /\ ~ Counted(t)
      /\ ~ Counted(t)' /\ Holding(t) /\ Holding(t)' /\ Flagged(t) /\ Flagged(t)' /\ ~ Opening(t)
      /\ ~ Opening(t)'
    BY <1>1 DEF Moves, Jumps, Queued, InCharge, Passing, Linked, Stacked, Counted, Holding,
        Flagged, Opening, SetNextLocs, UnblockLocs
<1>5. Local'
    BY NotNull, Typed, <1>1, <1>3, <1>4 DEF IInv, Local, Same, Moves, OthersStay, WritersInLine,
        Passing, Linked, SetNextLocs, UnblockLocs, EndWriteLocs
<1>6. WritersInLine'
    BY NotNull, Typed, <1>1, <1>3, <1>4 DEF IInv, WritersInLine, Same, Moves, OthersStay
<1>7. HeadExact'
    BY NotNull, Typed, <1>1, <1>3, <1>4 DEF IInv, HeadExact, Same, Moves, OthersStay,
        SetNextLocs, UnblockLocs
<1>8. FlagsExact'
    BY NotNull, Typed, <1>1, <1>3, <1>4 DEF IInv, FlagsExact, Same, Moves, OthersStay
<1>9. ReadersAnnounced'
    BY NotNull, Typed, <1>1, <1>3, <1>4 DEF IInv, ReadersAnnounced, Same, Moves, OthersStay
<1>10. GroupsApart'
    BY NotNull, Typed, <1>1, <1>3, <1>4 DEF IInv, GroupsApart, Same, Moves, OthersStay, Chains,
        Apart, Tops, Top
<1>11. CountExact'
    BY <1>1, <1>3, <1>4, CountStays DEF IInv, Same, Moves, OthersStay
<1> QED BY <1>2, <1>5, <1>6, <1>7, <1>8, <1>9, <1>10, <1>11 DEF IInv

LEMMA FirstFailsKeeps ==
    ASSUME IInv, NEW t \in Threads, FirstWriter(t),
           wstatus[t] = "waiting_nonblocking" /\ wnext[t] = NULL
    PROVE  IInv'
<1>1. /\ pc[t] = "w_first" /\ wstatus[t] = "waiting_nonblocking" /\ wnext[t] = NULL
      /\ Moves(t, "f_head")
      /\ UNCHANGED <<word, reader_head, writer_head, writer_tail, my_current_writer>>
      /\ UNCHANGED <<wnext, wstatus, rnext, rstatus, below>>
    BY NotNull DEF IInv, TypeOK, Local, FirstWriter, Goto, heads, wnodes, rnodes, Moves,
        OthersStay
<1>2. TypeOK'
    BY LocsAre, NotNull DEF IInv, TypeOK, Nodes, Statuses, FirstWriter, Goto, heads, wnodes,
        rnodes
<1>3. \A u \in Threads : u # t => Same(u)
    BY <1>1, Unmoved DEF Moves, OthersStay
<1>4. /\ Queued(t) /\ Queued(t)' /\ InCharge(t) /\ InCharge(t)' /\ ~ Passing(t) /\ ~ Passing(t)'
      /\ ~ Linked(t) /\ ~ Linked(t)' /\ ~ Stacked(t) /\ ~ Stacked(t)' /\ ~ Counted(t)
      /\ ~ Counted(t)' /\ ~ Holding(t) /\ ~ Holding(t)' /\ ~ Flagged(t) /\ ~ Flagged(t)'
      /\ ~ Opening(t) /\ ~ Opening(t)'
    BY <1>1 DEF Moves, Jumps, Queued, InCharge, Passing, Linked, Stacked, Counted, Holding,
        Flagged, Opening, SetNextLocs, UnblockLocs
<1>5. Local'
    BY NotNull, Typed, <1>1, <1>3, <1>4 DEF IInv, Local, Same, Moves, OthersStay, WritersInLine,
        Passing, Linked, SetNextLocs, UnblockLocs, EndWriteLocs
<1>6. WritersInLine'
    BY NotNull, Typed, <1>1, <1>3, <1>4 DEF IInv, WritersInLine, Same, Moves, OthersStay
<1>7. HeadExact'
    BY NotNull, Typed, <1>1, <1>3, <1>4 DEF IInv, HeadExact, Same, Moves, OthersStay,
        SetNextLocs, UnblockLocs
<1>8. FlagsExact'
    BY NotNull, Typed, <1>1, <1>3, <1>4 DEF IInv, FlagsExact, Same, Moves, OthersStay
<1>9. ReadersAnnounced'
    BY NotNull, Typed, <1>1, <1>3, <1>4 DEF IInv, ReadersAnnounced, Same, Moves, OthersStay
<1>10. GroupsApart'
    BY NotNull, Typed, <1>1, <1>3, <1>4 DEF IInv, GroupsApart, Same, Moves, OthersStay, Chains,
        Apart, Tops, Top
<1>11. CountExact'
    BY <1>1, <1>3, <1>4, CountStays DEF IInv, Same, Moves, OthersStay
<1> QED BY <1>2, <1>5, <1>6, <1>7, <1>8, <1>9, <1>10, <1>11 DEF IInv

LEMMA FirstPassesKeeps ==
    ASSUME IInv, NEW t \in Threads, FirstWriter(t),
           wstatus[t] = "waiting_nonblocking" /\ wnext[t] # NULL
    PROVE  IInv'
<1>1. /\ pc[t] = "w_first" /\ wstatus[t] = "waiting_nonblocking" /\ wnext[t] # NULL
      /\ Jumps(t, "s_head", wnext[t], "f_free")
      /\ UNCHANGED <<word, reader_head, writer_head, writer_tail, my_current_writer>>
      /\ UNCHANGED <<wnext, wstatus, rnext, rstatus, below>>
    BY NotNull DEF IInv, TypeOK, Local, FirstWriter, CallSetNext, Jump, heads, wnodes, rnodes,
        Jumps, OthersStay
<1>2. TypeOK'
    BY LocsAre, NotNull DEF IInv, TypeOK, Nodes, Statuses, FirstWriter, CallSetNext, Jump,
        heads, wnodes, rnodes
<1>3. \A u \in Threads : u # t => Same(u)
    BY <1>1, Unmoved DEF Jumps, OthersStay
<1>4. /\ Queued(t) /\ ~ Queued(t)' /\ InCharge(t) /\ InCharge(t)' /\ ~ Passing(t) /\ Passing(t)'
      /\ ~ Linked(t) /\ ~ Linked(t)' /\ ~ Stacked(t) /\ ~ Stacked(t)' /\ ~ Counted(t)
      /\ ~ Counted(t)' /\ ~ Holding(t) /\ ~ Holding(t)' /\ ~ Flagged(t) /\ ~ Flagged(t)'
      /\ ~ Opening(t) /\ ~ Opening(t)'
    BY <1>1 DEF Moves, Jumps, Queued, InCharge, Passing, Linked, Stacked, Counted, Holding,
        Flagged, Opening, SetNextLocs, UnblockLocs
<1>5. Local'
    BY NotNull, Typed, <1>1, <1>3, <1>4 DEF IInv, Local, Same, Jumps, OthersStay, WritersInLine,
        Passing, Linked, SetNextLocs, UnblockLocs, EndWriteLocs
<1>6. WritersInLine'
    BY NotNull, Typed, <1>1, <1>3, <1>4 DEF IInv, WritersInLine, Same, Jumps, OthersStay
<1>7. HeadExact'
    BY NotNull, Typed, <1>1, <1>3, <1>4 DEF IInv, HeadExact, Same, Jumps, OthersStay,
        SetNextLocs, UnblockLocs
<1>8. FlagsExact'
    BY NotNull, Typed, <1>1, <1>3, <1>4 DEF IInv, FlagsExact, Same, Jumps, OthersStay
<1>9. ReadersAnnounced'
    BY NotNull, Typed, <1>1, <1>3, <1>4 DEF IInv, ReadersAnnounced, Same, Jumps, OthersStay
<1>10. GroupsApart'
    BY NotNull, Typed, <1>1, <1>3, <1>4 DEF IInv, GroupsApart, Same, Jumps, OthersStay, Chains,
        Apart, Tops, Top
<1>11. CountExact'
    BY <1>1, <1>3, <1>4, CountStays DEF IInv, Same, Jumps, OthersStay
<1> QED BY <1>2, <1>5, <1>6, <1>7, <1>8, <1>9, <1>10, <1>11 DEF IInv

LEMMA SpinWriterKeeps ==
    ASSUME IInv, NEW t \in Threads, SpinWriter(t)
    PROVE  IInv'
<1>1. /\ pc[t] = "w_spin" /\ wstatus[t] = "active" /\ Moves(t, "writing")
      /\ my_current_writer' = t
      /\ UNCHANGED <<word, reader_head, writer_head, writer_tail, wnext>>
      /\ UNCHANGED <<wstatus, rnext, rstatus, below>>
    BY NotNull DEF IInv, TypeOK, Local, SpinWriter, Goto, heads, wnodes, rnodes, Moves,
        OthersStay
<1>2. TypeOK'
    BY LocsAre, NotNull DEF IInv, TypeOK, Nodes, Statuses, SpinWriter, Goto, heads, wnodes,
        rnodes
<1>3. \A u \in Threads : u # t => Same(u)
    BY <1>1, Unmoved DEF Moves, OthersStay
<1>4. /\ Queued(t) /\ Queued(t)' /\ InCharge(t) /\ InCharge(t)' /\ ~ Passing(t) /\ ~ Passing(t)'
      /\ ~ Linked(t) /\ ~ Linked(t)' /\ ~ Stacked(t) /\ ~ Stacked(t)' /\ ~ Counted(t)
      /\ ~ Counted(t)' /\ Holding(t) /\ Holding(t)' /\ Flagged(t) /\ Flagged(t)' /\ ~ Opening(t)
      /\ ~ Opening(t)'
    BY <1>1 DEF Moves, Jumps, Queued, InCharge, Passing, Linked, Stacked, Counted, Holding,
        Flagged, Opening, SetNextLocs, UnblockLocs
<1>5. Local'
    BY NotNull, Typed, <1>1, <1>3, <1>4 DEF IInv, Local, Same, Moves, OthersStay, WritersInLine,
        Passing, Linked, SetNextLocs, UnblockLocs, EndWriteLocs
<1>6. WritersInLine'
    BY NotNull, Typed, <1>1, <1>3, <1>4 DEF IInv, WritersInLine, Same, Moves, OthersStay
<1>7. HeadExact'
    BY NotNull, Typed, <1>1, <1>3, <1>4 DEF IInv, HeadExact, Same, Moves, OthersStay,
        SetNextLocs, UnblockLocs
<1>8. FlagsExact'
    BY NotNull, Typed, <1>1, <1>3, <1>4 DEF IInv, FlagsExact, Same, Moves, OthersStay
<1>9. ReadersAnnounced'
    BY NotNull, Typed, <1>1, <1>3, <1>4 DEF IInv, ReadersAnnounced, Same, Moves, OthersStay
<1>10. GroupsApart'
    BY NotNull, Typed, <1>1, <1>3, <1>4 DEF IInv, GroupsApart, Same, Moves, OthersStay, Chains,
        Apart, Tops, Top
<1>11. CountExact'
    BY <1>1, <1>3, <1>4, CountStays DEF IInv, Same, Moves, OthersStay
<1> QED BY <1>2, <1>5, <1>6, <1>7, <1>8, <1>9, <1>10, <1>11 DEF IInv

LEMMA FailHeadKeeps ==
    ASSUME IInv, NEW t \in Threads, ClearHead(t, "f_head", "f_cas")
    PROVE  IInv'
<1>1. /\ pc[t] = "f_head" /\ wstatus[t] = "waiting_nonblocking" /\ Moves(t, "f_cas")
      /\ writer_head' = NULL
      /\ UNCHANGED <<word, reader_head, writer_tail, my_current_writer, wnext>>
      /\ UNCHANGED <<wstatus, rnext, rstatus, below>>
    BY NotNull DEF IInv, TypeOK, Local, ClearHead, Goto, heads, wnodes, rnodes, Moves,
        OthersStay
<1>2. TypeOK'
    BY LocsAre, NotNull DEF IInv, TypeOK, Nodes, Statuses, ClearHead, Goto, heads, wnodes,
        rnodes
<1>3. \A u \in Threads : u # t => Same(u)
    BY <1>1, Unmoved DEF Moves, OthersStay
<1>4. /\ Queued(t) /\ Queued(t)' /\ InCharge(t) /\ InCharge(t)' /\ ~ Passing(t) /\ ~ Passing(t)'
      /\ ~ Linked(t) /\ ~ Linked(t)' /\ ~ Stacked(t) /\ ~ Stacked(t)' /\ ~ Counted(t)
      /\ ~ Counted(t)' /\ ~ Holding(t) /\ ~ Holding(t)' /\ ~ Flagged(t) /\ ~ Flagged(t)'
      /\ ~ Opening(t) /\ ~ Opening(t)'
    BY <1>1 DEF Moves, Jumps, Queued, InCharge, Passing, Linked, Stacked, Counted, Holding,
        Flagged, Opening, SetNextLocs, UnblockLocs
<1>5. Local'
    BY NotNull, Typed, <1>1, <1>3, <1>4 DEF IInv, Local, Same, Moves, OthersStay, WritersInLine,
        Passing, Linked, SetNextLocs, UnblockLocs, EndWriteLocs
<1>6. WritersInLine'
    BY NotNull, Typed, <1>1, <1>3, <1>4 DEF IInv, WritersInLine, Same, Moves, OthersStay
<1>7. HeadExact'
    BY NotNull, Typed, <1>1, <1>3, <1>4, Parts DEF IInv, HeadExact, Same, Moves, OthersStay,
        SetNextLocs, UnblockLocs, WritersInLine
<1>8. FlagsExact'
    BY NotNull, Typed, <1>1, <1>3, <1>4 DEF IInv, FlagsExact, Same, Moves, OthersStay
<1>9. ReadersAnnounced'
    BY NotNull, Typed, <1>1, <1>3, <1>4 DEF IInv, ReadersAnnounced, Same, Moves, OthersStay
<1>10. GroupsApart'
    BY NotNull, Typed, <1>1, <1>3, <1>4 DEF IInv, GroupsApart, Same, Moves, OthersStay, Chains,
        Apart, Tops, Top
<1>11. CountExact'
    BY <1>1, <1>3, <1>4, CountStays DEF IInv, Same, Moves, OthersStay
<1> QED BY <1>2, <1>5, <1>6, <1>7, <1>8, <1>9, <1>10, <1>11 DEF IInv

LEMMA EndHeadKeeps ==
    ASSUME IInv, NEW t \in Threads, ClearHead(t, "e_head", "e_cas")
    PROVE  IInv'
<1>1. /\ pc[t] = "e_head" /\ wstatus[t] = "active" /\ Moves(t, "e_cas") /\ writer_head' = NULL
      /\ UNCHANGED <<word, reader_head, writer_tail, my_current_writer, wnext>>
      /\ UNCHANGED <<wstatus, rnext, rstatus, below>>
    BY NotNull DEF IInv, TypeOK, Local, EndWriteLocs, ClearHead, Goto, heads, wnodes, rnodes,
        Moves, OthersStay
<1>2. TypeOK'
    BY LocsAre, NotNull DEF IInv, TypeOK, Nodes, Statuses, ClearHead, Goto, heads, wnodes,
        rnodes
<1>3. \A u \in Threads : u # t => Same(u)
    BY <1>1, Unmoved DEF Moves, OthersStay
<1>4. /\ Queued(t) /\ Queued(t)' /\ InCharge(t) /\ InCharge(t)' /\ ~ Passing(t) /\ ~ Passing(t)'
      /\ ~ Linked(t) /\ ~ Linked(t)' /\ ~ Stacked(t) /\ ~ Stacked(t)' /\ ~ Counted(t)
      /\ ~ Counted(t)' /\ ~ Holding(t) /\ ~ Holding(t)' /\ ~ Flagged(t) /\ ~ Flagged(t)'
      /\ ~ Opening(t) /\ ~ Opening(t)'
    BY <1>1 DEF Moves, Jumps, Queued, InCharge, Passing, Linked, Stacked, Counted, Holding,
        Flagged, Opening, SetNextLocs, UnblockLocs
<1>5. Local'
    BY NotNull, Typed, <1>1, <1>3, <1>4 DEF IInv, Local, Same, Moves, OthersStay, WritersInLine,
        Passing, Linked, SetNextLocs, UnblockLocs, EndWriteLocs
<1>6. WritersInLine'
    BY NotNull, Typed, <1>1, <1>3, <1>4 DEF IInv, WritersInLine, Same, Moves, OthersStay
<1>7. HeadExact'
    BY NotNull, Typed, <1>1, <1>3, <1>4, Parts DEF IInv, HeadExact, Same, Moves, OthersStay,
        SetNextLocs, UnblockLocs, WritersInLine
<1>8. FlagsExact'
    BY NotNull, Typed, <1>1, <1>3, <1>4 DEF IInv, FlagsExact, Same, Moves, OthersStay
<1>9. ReadersAnnounced'
    BY NotNull, Typed, <1>1, <1>3, <1>4 DEF IInv, ReadersAnnounced, Same, Moves, OthersStay
<1>10. GroupsApart'
    BY NotNull, Typed, <1>1, <1>3, <1>4 DEF IInv, GroupsApart, Same, Moves, OthersStay, Chains,
        Apart, Tops, Top
<1>11. CountExact'
    BY <1>1, <1>3, <1>4, CountStays DEF IInv, Same, Moves, OthersStay
<1> QED BY <1>2, <1>5, <1>6, <1>7, <1>8, <1>9, <1>10, <1>11 DEF IInv

LEMMA FailTailLastKeeps ==
    ASSUME IInv, NEW t \in Threads, ClearTail(t, "f_cas", "f_wait", "f_free"), writer_tail = t
    PROVE  IInv'
<1>1. /\ pc[t] = "f_cas" /\ wstatus[t] = "waiting_nonblocking" /\ writer_tail = t
      /\ Moves(t, "f_free") /\ writer_tail' = NULL
      /\ UNCHANGED <<word, reader_head, writer_head, my_current_writer, wnext>>
      /\ UNCHANGED <<wstatus, rnext, rstatus, below>>
    BY NotNull DEF IInv, TypeOK, Local, ClearTail, Goto, heads, wnodes, rnodes, Moves,
        OthersStay
<1>2. TypeOK'
    BY LocsAre, NotNull DEF IInv, TypeOK, Nodes, Statuses, ClearTail, Goto, heads, wnodes,
        rnodes
<1>3. \A u \in Threads : u # t => Same(u)
    BY <1>1, Unmoved DEF Moves, OthersStay
<1>4. /\ Queued(t) /\ ~ Queued(t)' /\ InCharge(t) /\ ~ InCharge(t)' /\ ~ Passing(t)
      /\ ~ Passing(t)' /\ ~ Linked(t) /\ ~ Linked(t)' /\ ~ Stacked(t) /\ ~ Stacked(t)'
      /\ ~ Counted(t) /\ ~ Counted(t)' /\ ~ Holding(t) /\ ~ Holding(t)' /\ ~ Flagged(t)
      /\ ~ Flagged(t)' /\ ~ Opening(t) /\ ~ Opening(t)'
    BY <1>1 DEF Moves, Jumps, Queued, InCharge, Passing, Linked, Stacked, Counted, Holding,
        Flagged, Opening, SetNextLocs, UnblockLocs
<1>5. Local'
    BY NotNull, Typed, <1>1, <1>3, <1>4 DEF IInv, Local, Same, Moves, OthersStay, WritersInLine,
        Passing, Linked, SetNextLocs, UnblockLocs, EndWriteLocs
<1>6. WritersInLine'
    BY NotNull, Typed, <1>1, <1>3, <1>4 DEF IInv, WritersInLine, Same, Moves, OthersStay
<1>7. HeadExact'
    BY NotNull, Typed, <1>1, <1>3, <1>4 DEF IInv, HeadExact, Same, Moves, OthersStay,
        SetNextLocs, UnblockLocs
<1>8. FlagsExact'
    BY NotNull, Typed, <1>1, <1>3, <1>4 DEF IInv, FlagsExact, Same, Moves, OthersStay
<1>9. ReadersAnnounced'
    BY NotNull, Typed, <1>1, <1>3, <1>4 DEF IInv, ReadersAnnounced, Same, Moves, OthersStay
<1>10. GroupsApart'
    BY NotNull, Typed, <1>1, <1>3, <1>4 DEF IInv, GroupsApart, Same, Moves, OthersStay, Chains,
        Apart, Tops, Top
<1>11. CountExact'
    BY <1>1, <1>3, <1>4, CountStays DEF IInv, Same, Moves, OthersStay
<1> QED BY <1>2, <1>5, <1>6, <1>7, <1>8, <1>9, <1>10, <1>11 DEF IInv

LEMMA FailTailWaitsKeeps ==
    ASSUME IInv, NEW t \in Threads, ClearTail(t, "f_cas", "f_wait", "f_free"), writer_tail # t
    PROVE  IInv'
<1>1. /\ pc[t] = "f_cas" /\ wstatus[t] = "waiting_nonblocking" /\ Moves(t, "f_wait")
      /\ UNCHANGED <<word, reader_head, writer_head, writer_tail, my_current_writer>>
      /\ UNCHANGED <<wnext, wstatus, rnext, rstatus, below>>
    BY NotNull DEF IInv, TypeOK, Local, ClearTail, Goto, heads, wnodes, rnodes, Moves,
        OthersStay
<1>2. TypeOK'
    BY LocsAre, NotNull DEF IInv, TypeOK, Nodes, Statuses, ClearTail, Goto, heads, wnodes,
        rnodes
<1>3. \A u \in Threads : u # t => Same(u)
    BY <1>1, Unmoved DEF Moves, OthersStay
<1>4. /\ Queued(t) /\ Queued(t)' /\ InCharge(t) /\ InCharge(t)' /\ ~ Passing(t) /\ ~ Passing(t)'
      /\ ~ Linked(t) /\ ~ Linked(t)' /\ ~ Stacked(t) /\ ~ Stacked(t)' /\ ~ Counted(t)
      /\ ~ Counted(t)' /\ ~ Holding(t) /\ ~ Holding(t)' /\ ~ Flagged(t) /\ ~ Flagged(t)'
      /\ ~ Opening(t) /\ ~ Opening(t)'
    BY <1>1 DEF Moves, Jumps, Queued, InCharge, Passing, Linked, Stacked, Counted, Holding,
        Flagged, Opening, SetNextLocs, UnblockLocs
<1>5. Local'
    BY NotNull, Typed, <1>1, <1>3, <1>4 DEF IInv, Local, Same, Moves, OthersStay, WritersInLine,
        Passing, Linked, SetNextLocs, UnblockLocs, EndWriteLocs
<1>6. WritersInLine'
    BY NotNull, Typed, <1>1, <1>3, <1>4 DEF IInv, WritersInLine, Same, Moves, OthersStay
<1>7. HeadExact'
    BY NotNull, Typed, <1>1, <1>3, <1>4 DEF IInv, HeadExact, Same, Moves, OthersStay,
        SetNextLocs, UnblockLocs
<1>8. FlagsExact'
    BY NotNull, Typed, <1>1, <1>3, <1>4 DEF IInv, FlagsExact, Same, Moves, OthersStay
<1>9. ReadersAnnounced'
    BY NotNull, Typed, <1>1, <1>3, <1>4 DEF IInv, ReadersAnnounced, Same, Moves, OthersStay
<1>10. GroupsApart'
    BY NotNull, Typed, <1>1, <1>3, <1>4 DEF IInv, GroupsApart, Same, Moves, OthersStay, Chains,
        Apart, Tops, Top
<1>11. CountExact'
    BY <1>1, <1>3, <1>4, CountStays DEF IInv, Same, Moves, OthersStay
<1> QED BY <1>2, <1>5, <1>6, <1>7, <1>8, <1>9, <1>10, <1>11 DEF IInv

LEMMA EndTailLastKeeps ==
    ASSUME IInv, NEW t \in Threads, ClearTail(t, "e_cas", "e_wait", "e_free"), writer_tail = t
    PROVE  IInv'
<1>1. /\ pc[t] = "e_cas" /\ wstatus[t] = "active" /\ writer_tail = t /\ Moves(t, "e_free")
      /\ writer_tail' = NULL
      /\ UNCHANGED <<word, reader_head, writer_head, my_current_writer, wnext>>
      /\ UNCHANGED <<wstatus, rnext, rstatus, below>>
    BY NotNull DEF IInv, TypeOK, Local, EndWriteLocs, ClearTail, Goto, heads, wnodes, rnodes,
        Moves, OthersStay
<1>2. TypeOK'
    BY LocsAre, NotNull DEF IInv, TypeOK, Nodes, Statuses, ClearTail, Goto, heads, wnodes,
        rnodes
<1>3. \A u \in Threads : u # t => Same(u)
    BY <1>1, Unmoved DEF Moves, OthersStay
<1>4. /\ Queued(t) /\ ~ Queued(t)' /\ InCharge(t) /\ ~ InCharge(t)' /\ ~ Passing(t)
      /\ ~ Passing(t)' /\ ~ Linked(t) /\ ~ Linked(t)' /\ ~ Stacked(t) /\ ~ Stacked(t)'
      /\ ~ Counted(t) /\ ~ Counted(t)' /\ ~ Holding(t) /\ ~ Holding(t)' /\ ~ Flagged(t)
      /\ ~ Flagged(t)' /\ ~ Opening(t) /\ ~ Opening(t)'
    BY <1>1 DEF Moves, Jumps, Queued, InCharge, Passing, Linked, Stacked, Counted, Holding,
        Flagged, Opening, SetNextLocs, UnblockLocs
<1>5. Local'
    BY NotNull, Typed, <1>1, <1>3, <1>4 DEF IInv, Local, Same, Moves, OthersStay, WritersInLine,
        Passing, Linked, SetNextLocs, UnblockLocs, EndWriteLocs
<1>6. WritersInLine'
    BY NotNull, Typed, <1>1, <1>3, <1>4 DEF IInv, WritersInLine, Same, Moves, OthersStay
<1>7. HeadExact'
    BY NotNull, Typed, <1>1, <1>3, <1>4 DEF IInv, HeadExact, Same, Moves, OthersStay,
        SetNextLocs, UnblockLocs
<1>8. FlagsExact'
    BY NotNull, Typed, <1>1, <1>3, <1>4 DEF IInv, FlagsExact, Same, Moves, OthersStay
<1>9. ReadersAnnounced'
    BY NotNull, Typed, <1>1, <1>3, <1>4 DEF IInv, ReadersAnnounced, Same, Moves, OthersStay
<1>10. GroupsApart'
    BY NotNull, Typed, <1>1, <1>3, <1>4 DEF IInv, GroupsApart, Same, Moves, OthersStay, Chains,
        Apart, Tops, Top
<1>11. CountExact'
    BY <1>1, <1>3, <1>4, CountStays DEF IInv, Same, Moves, OthersStay
<1> QED BY <1>2, <1>5, <1>6, <1>7, <1>8, <1>9, <1>10, <1>11 DEF IInv

LEMMA EndTailWaitsKeeps ==
    ASSUME IInv, NEW t \in Threads, ClearTail(t, "e_cas", "e_wait", "e_free"), writer_tail # t
    PROVE  IInv'
<1>1. /\ pc[t] = "e_cas" /\ wstatus[t] = "active" /\ Moves(t, "e_wait")
      /\ UNCHANGED <<word, reader_head, writer_head, writer_tail, my_current_writer>>
      /\ UNCHANGED <<wnext, wstatus, rnext, rstatus, below>>
    BY NotNull DEF IInv, TypeOK, Local, EndWriteLocs, ClearTail, Goto, heads, wnodes, rnodes,
        Moves, OthersStay
<1>2. TypeOK'
    BY LocsAre, NotNull DEF IInv, TypeOK, Nodes, Statuses, ClearTail, Goto, heads, wnodes,
        rnodes
<1>3. \A u \in Threads : u # t => Same(u)
    BY <1>1, Unmoved DEF Moves, OthersStay
<1>4. /\ Queued(t) /\ Queued(t)' /\ InCharge(t) /\ InCharge(t)' /\ ~ Passing(t) /\ ~ Passing(t)'
      /\ ~ Linked(t) /\ ~ Linked(t)' /\ ~ Stacked(t) /\ ~ Stacked(t)' /\ ~ Counted(t)
      /\ ~ Counted(t)' /\ ~ Holding(t) /\ ~ Holding(t)' /\ ~ Flagged(t) /\ ~ Flagged(t)'
      /\ ~ Opening(t) /\ ~ Opening(t)'
    BY <1>1 DEF Moves, Jumps, Queued, InCharge, Passing, Linked, Stacked, Counted, Holding,
        Flagged, Opening, SetNextLocs, UnblockLocs
<1>5. Local'
    BY NotNull, Typed, <1>1, <1>3, <1>4 DEF IInv, Local, Same, Moves, OthersStay, WritersInLine,
        Passing, Linked, SetNextLocs, UnblockLocs, EndWriteLocs
<1>6. WritersInLine'
    BY NotNull, Typed, <1>1, <1>3, <1>4 DEF IInv, WritersInLine, Same, Moves, OthersStay
<1>7. HeadExact'
    BY NotNull, Typed, <1>1, <1>3, <1>4 DEF IInv, HeadExact, Same, Moves, OthersStay,
        SetNextLocs, UnblockLocs
<1>8. FlagsExact'
    BY NotNull, Typed, <1>1, <1>3, <1>4 DEF IInv, FlagsExact, Same, Moves, OthersStay
<1>9. ReadersAnnounced'
    BY NotNull, Typed, <1>1, <1>3, <1>4 DEF IInv, ReadersAnnounced, Same, Moves, OthersStay
<1>10. GroupsApart'
    BY NotNull, Typed, <1>1, <1>3, <1>4 DEF IInv, GroupsApart, Same, Moves, OthersStay, Chains,
        Apart, Tops, Top
<1>11. CountExact'
    BY <1>1, <1>3, <1>4, CountStays DEF IInv, Same, Moves, OthersStay
<1> QED BY <1>2, <1>5, <1>6, <1>7, <1>8, <1>9, <1>10, <1>11 DEF IInv

LEMMA FailNextKeeps ==
    ASSUME IInv, NEW t \in Threads, AwaitNext(t, "f_wait", "f_free")
    PROVE  IInv'
<1>1. /\ pc[t] = "f_wait" /\ wstatus[t] = "waiting_nonblocking" /\ wnext[t] # NULL
      /\ Jumps(t, "s_head", wnext[t], "f_free")
      /\ UNCHANGED <<word, reader_head, writer_head, writer_tail, my_current_writer>>
      /\ UNCHANGED <<wnext, wstatus, rnext, rstatus, below>>
    BY NotNull DEF IInv, TypeOK, Local, AwaitNext, CallSetNext, Jump, heads, wnodes, rnodes,
        Jumps, OthersStay
<1>2. TypeOK'
    BY LocsAre, NotNull DEF IInv, TypeOK, Nodes, Statuses, AwaitNext, CallSetNext, Jump, heads,
        wnodes, rnodes
<1>3. \A u \in Threads : u # t => Same(u)
    BY <1>1, Unmoved DEF Jumps, OthersStay
<1>4. /\ Queued(t) /\ ~ Queued(t)' /\ InCharge(t) /\ InCharge(t)' /\ ~ Passing(t) /\ Passing(t)'
      /\ ~ Linked(t) /\ ~ Linked(t)' /\ ~ Stacked(t) /\ ~ Stacked(t)' /\ ~ Counted(t)
      /\ ~ Counted(t)' /\ ~ Holding(t) /\ ~ Holding(t)' /\ ~ Flagged(t) /\ ~ Flagged(t)'
      /\ ~ Opening(t) /\ ~ Opening(t)'
    BY <1>1 DEF Moves, Jumps, Queued, InCharge, Passing, Linked, Stacked, Counted, Holding,
        Flagged, Opening, SetNextLocs, UnblockLocs
<1>5. Local'
    BY NotNull, Typed, <1>1, <1>3, <1>4 DEF IInv, Local, Same, Jumps, OthersStay, WritersInLine,
        Passing, Linked, SetNextLocs, UnblockLocs, EndWriteLocs
<1>6. WritersInLine'
    BY NotNull, Typed, <1>1, <1>3, <1>4 DEF IInv, WritersInLine, Same, Jumps, OthersStay
<1>7. HeadExact'
    BY NotNull, Typed, <1>1, <1>3, <1>4 DEF IInv, HeadExact, Same, Jumps, OthersStay,
        SetNextLocs, UnblockLocs
<1>8. FlagsExact'
    BY NotNull, Typed, <1>1, <1>3, <1>4 DEF IInv, FlagsExact, Same, Jumps, OthersStay
<1>9. ReadersAnnounced'
    BY NotNull, Typed, <1>1, <1>3, <1>4 DEF IInv, ReadersAnnounced, Same, Jumps, OthersStay
<1>10. GroupsApart'
    BY NotNull, Typed, <1>1, <1>3, <1>4 DEF IInv, GroupsApart, Same, Jumps, OthersStay, Chains,
        Apart, Tops, Top
<1>11. CountExact'
    BY <1>1, <1>3, <1>4, CountStays DEF IInv, Same, Jumps, OthersStay
<1> QED BY <1>2, <1>5, <1>6, <1>7, <1>8, <1>9, <1>10, <1>11 DEF IInv

LEMMA EndNextKeeps ==
    ASSUME IInv, NEW t \in Threads, AwaitNext(t, "e_wait", "e_free")
    PROVE  IInv'
<1>1. /\ pc[t] = "e_wait" /\ wstatus[t] = "active" /\ wnext[t] # NULL
      /\ Jumps(t, "s_head", wnext[t], "e_free")
      /\ UNCHANGED <<word, reader_head, writer_head, writer_tail, my_current_writer>>
      /\ UNCHANGED <<wnext, wstatus, rnext, rstatus, below>>
    BY NotNull DEF IInv, TypeOK, Local, EndWriteLocs, AwaitNext, CallSetNext, Jump, heads,
        wnodes, rnodes, Jumps, OthersStay
<1>2. TypeOK'
    BY LocsAre, NotNull DEF IInv, TypeOK, Nodes, Statuses, AwaitNext, CallSetNext, Jump, heads,
        wnodes, rnodes
<1>3. \A u \in Threads : u # t => Same(u)
    BY <1>1, Unmoved DEF Jumps, OthersStay
<1>4. /\ Queued(t) /\ ~ Queued(t)' /\ InCharge(t) /\ InCharge(t)' /\ ~ Passing(t) /\ Passing(t)'
      /\ ~ Linked(t) /\ ~ Linked(t)' /\ ~ Stacked(t) /\ ~ Stacked(t)' /\ ~ Counted(t)
      /\ ~ Counted(t)' /\ ~ Holding(t) /\ ~ Holding(t)' /\ ~ Flagged(t) /\ ~ Flagged(t)'
      /\ ~ Opening(t) /\ ~ Opening(t)'
    BY <1>1 DEF Moves, Jumps, Queued, InCharge, Passing, Linked, Stacked, Counted, Holding,
        Flagged, Opening, SetNextLocs, UnblockLocs
<1>5. Local'
    BY NotNull, Typed, <1>1, <1>3, <1>4 DEF IInv, Local, Same, Jumps, OthersStay, WritersInLine,
        Passing, Linked, SetNextLocs, UnblockLocs, EndWriteLocs
<1>6. WritersInLine'
    BY NotNull, Typed, <1>1, <1>3, <1>4 DEF IInv, WritersInLine, Same, Jumps, OthersStay
<1>7. HeadExact'
    BY NotNull, Typed, <1>1, <1>3, <1>4 DEF IInv, HeadExact, Same, Jumps, OthersStay,
        SetNextLocs, UnblockLocs
<1>8. FlagsExact'
    BY NotNull, Typed, <1>1, <1>3, <1>4 DEF IInv, FlagsExact, Same, Jumps, OthersStay
<1>9. ReadersAnnounced'
    BY NotNull, Typed, <1>1, <1>3, <1>4 DEF IInv, ReadersAnnounced, Same, Jumps, OthersStay
<1>10. GroupsApart'
    BY NotNull, Typed, <1>1, <1>3, <1>4 DEF IInv, GroupsApart, Same, Jumps, OthersStay, Chains,
        Apart, Tops, Top
<1>11. CountExact'
    BY <1>1, <1>3, <1>4, CountStays DEF IInv, Same, Jumps, OthersStay
<1> QED BY <1>2, <1>5, <1>6, <1>7, <1>8, <1>9, <1>10, <1>11 DEF IInv

LEMMA FailFreeKeeps ==
    ASSUME IInv, NEW t \in Threads, DeleteNode(t, "f_free")
    PROVE  IInv'
<1>1. /\ pc[t] = "f_free" /\ Moves(t, "idle") /\ wnext'[t] = NULL
      /\ (\A u \in Threads : u # t => wnext'[u] = wnext[u]) /\ wstatus'[t] = "invalid"
      /\ (\A u \in Threads : u # t => wstatus'[u] = wstatus[u])
      /\ UNCHANGED <<word, reader_head, writer_head, writer_tail, my_current_writer>>
      /\ UNCHANGED <<rnext, rstatus, below>>
    BY NotNull DEF IInv, TypeOK, Local, DeleteNode, FreeWriteNode, Goto, heads, wnodes, rnodes,
        Moves, OthersStay
<1>2. TypeOK'
    BY LocsAre, NotNull DEF IInv, TypeOK, Nodes, Statuses, DeleteNode, FreeWriteNode, Goto,
        heads, wnodes, rnodes
<1>3. \A u \in Threads : u # t => Same(u)
    BY <1>1, Unmoved DEF Moves, OthersStay
<1>4. /\ ~ Queued(t) /\ ~ Queued(t)' /\ ~ InCharge(t) /\ ~ InCharge(t)' /\ ~ Passing(t)
      /\ ~ Passing(t)' /\ ~ Linked(t) /\ ~ Linked(t)' /\ ~ Stacked(t) /\ ~ Stacked(t)'
      /\ ~ Counted(t) /\ ~ Counted(t)' /\ ~ Holding(t) /\ ~ Holding(t)' /\ ~ Flagged(t)
      /\ ~ Flagged(t)' /\ ~ Opening(t) /\ ~ Opening(t)'
    BY <1>1 DEF Moves, Jumps, Queued, InCharge, Passing, Linked, Stacked, Counted, Holding,
        Flagged, Opening, SetNextLocs, UnblockLocs
<1>5. Local'
    BY NotNull, Typed, <1>1, <1>3, <1>4 DEF IInv, Local, Same, Moves, OthersStay, WritersInLine,
        Passing, Linked, SetNextLocs, UnblockLocs, EndWriteLocs
<1>6. WritersInLine'
    BY NotNull, Typed, <1>1, <1>3, <1>4 DEF IInv, WritersInLine, Same, Moves, OthersStay
<1>7. HeadExact'
    BY NotNull, Typed, <1>1, <1>3, <1>4 DEF IInv, HeadExact, Same, Moves, OthersStay,
        SetNextLocs, UnblockLocs
<1>8. FlagsExact'
    BY NotNull, Typed, <1>1, <1>3, <1>4 DEF IInv, FlagsExact, Same, Moves, OthersStay
<1>9. ReadersAnnounced'
    BY NotNull, Typed, <1>1, <1>3, <1>4 DEF IInv, ReadersAnnounced, Same, Moves, OthersStay
<1>10. GroupsApart'
    BY NotNull, Typed, <1>1, <1>3, <1>4 DEF IInv, GroupsApart, Same, Moves, OthersStay, Chains,
        Apart, Tops, Top
<1>11. CountExact'
    BY <1>1, <1>3, <1>4, CountStays DEF IInv, Same, Moves, OthersStay
<1> QED BY <1>2, <1>5, <1>6, <1>7, <1>8, <1>9, <1>10, <1>11 DEF IInv

LEMMA EndFreeKeeps ==
    ASSUME IInv, NEW t \in Threads, DeleteNode(t, "e_free")
    PROVE  IInv'
<1>1. /\ pc[t] = "e_free" /\ Moves(t, "idle") /\ wnext'[t] = NULL
      /\ (\A u \in Threads : u # t => wnext'[u] = wnext[u]) /\ wstatus'[t] = "invalid"
      /\ (\A u \in Threads : u # t => wstatus'[u] = wstatus[u])
      /\ UNCHANGED <<word, reader_head, writer_head, writer_tail, my_current_writer>>
      /\ UNCHANGED <<rnext, rstatus, below>>
    BY NotNull DEF IInv, TypeOK, Local, EndWriteLocs, DeleteNode, FreeWriteNode, Goto, heads,
        wnodes, rnodes, Moves, OthersStay
<1>2. TypeOK'
    BY LocsAre, NotNull DEF IInv, TypeOK, Nodes, Statuses, DeleteNode, FreeWriteNode, Goto,
        heads, wnodes, rnodes
<1>3. \A u \in Threads : u # t => Same(u)
    BY <1>1, Unmoved DEF Moves, OthersStay
<1>4. /\ ~ Queued(t) /\ ~ Queued(t)' /\ ~ InCharge(t) /\ ~ InCharge(t)' /\ ~ Passing(t)
      /\ ~ Passing(t)' /\ ~ Linked(t) /\ ~ Linked(t)' /\ ~ Stacked(t) /\ ~ Stacked(t)'
      /\ ~ Counted(t) /\ ~ Counted(t)' /\ ~ Holding(t) /\ ~ Holding(t)' /\ ~ Flagged(t)
      /\ ~ Flagged(t)' /\ ~ Opening(t) /\ ~ Opening(t)'
    BY <1>1 DEF Moves, Jumps, Queued, InCharge, Passing, Linked, Stacked, Counted, Holding,
        Flagged, Opening, SetNextLocs, UnblockLocs
<1>5. Local'
    BY NotNull, Typed, <1>1, <1>3, <1>4 DEF IInv, Local, Same, Moves, OthersStay, WritersInLine,
        Passing, Linked, SetNextLocs, UnblockLocs, EndWriteLocs
<1>6. WritersInLine'
    BY NotNull, Typed, <1>1, <1>3, <1>4 DEF IInv, WritersInLine, Same, Moves, OthersStay
<1>7. HeadExact'
    BY NotNull, Typed, <1>1, <1>3, <1>4 DEF IInv, HeadExact, Same, Moves, OthersStay,
        SetNextLocs, UnblockLocs
<1>8. FlagsExact'
    BY NotNull, Typed, <1>1, <1>3, <1>4 DEF IInv, FlagsExact, Same, Moves, OthersStay
<1>9. ReadersAnnounced'
    BY NotNull, Typed, <1>1, <1>3, <1>4 DEF IInv, ReadersAnnounced, Same, Moves, OthersStay
<1>10. GroupsApart'
    BY NotNull, Typed, <1>1, <1>3, <1>4 DEF IInv, GroupsApart, Same, Moves, OthersStay, Chains,
        Apart, Tops, Top
<1>11. CountExact'
    BY <1>1, <1>3, <1>4, CountStays DEF IInv, Same, Moves, OthersStay
<1> QED BY <1>2, <1>5, <1>6, <1>7, <1>8, <1>9, <1>10, <1>11 DEF IInv

-----------------------------------------------------------------------------
(* set_next_writer *)

LEMMA SetHeadTryKeeps ==
    ASSUME IInv, NEW t \in Threads, SetHead(t), wstatus[node[t]] = "waiting_nonblocking"
    PROVE  IInv'
<1>1. /\ pc[t] = "s_head" /\ back[t] = "w_first" /\ wstatus[t] = "waiting_nonblocking"
      /\ node[t] = t /\ Moves(t, "s_cas") /\ writer_head' = node[t]
      /\ UNCHANGED <<word, reader_head, writer_tail, my_current_writer, wnext>>
      /\ UNCHANGED <<wstatus, rnext, rstatus, below>>
    BY NotNull DEF IInv, TypeOK, Local, SetNextLocs, WritersInLine, Passing, Linked, SetHead,
        Goto, heads, wnodes, rnodes, Moves, OthersStay
<1>2. TypeOK'
    BY LocsAre, NotNull DEF IInv, TypeOK, Nodes, Statuses, SetHead, Goto, heads, wnodes, rnodes
<1>3. \A u \in Threads : u # t => Same(u)
    BY <1>1, Unmoved DEF Moves, OthersStay
<1>4. /\ Queued(t) /\ Queued(t)' /\ InCharge(t) /\ InCharge(t)' /\ ~ Passing(t) /\ ~ Passing(t)'
      /\ ~ Linked(t) /\ ~ Linked(t)' /\ ~ Stacked(t) /\ ~ Stacked(t)' /\ ~ Counted(t)
      /\ ~ Counted(t)' /\ ~ Holding(t) /\ ~ Holding(t)' /\ ~ Flagged(t) /\ ~ Flagged(t)'
      /\ ~ Opening(t) /\ ~ Opening(t)'
    BY <1>1 DEF Moves, Jumps, Queued, InCharge, Passing, Linked, Stacked, Counted, Holding,
        Flagged, Opening, SetNextLocs, UnblockLocs
<1>5. Local'
    BY NotNull, Typed, <1>1, <1>3, <1>4 DEF IInv, Local, Same, Moves, OthersStay, WritersInLine,
        Passing, Linked, SetNextLocs, UnblockLocs, EndWriteLocs
<1>6. WritersInLine'
    BY NotNull, Typed, <1>1, <1>3, <1>4 DEF IInv, WritersInLine, Same, Moves, OthersStay
<1>7. HeadExact'
    BY NotNull, Typed, <1>1, <1>3, <1>4, Parts DEF IInv, HeadExact, Same, Moves, OthersStay,
        SetNextLocs, UnblockLocs, WritersInLine
<1>8. FlagsExact'
    BY NotNull, Typed, <1>1, <1>3, <1>4 DEF IInv, FlagsExact, Same, Moves, OthersStay
<1>9. ReadersAnnounced'
    BY NotNull, Typed, <1>1, <1>3, <1>4 DEF IInv, ReadersAnnounced, Same, Moves, OthersStay
<1>10. GroupsApart'
    BY NotNull, Typed, <1>1, <1>3, <1>4 DEF IInv, GroupsApart, Same, Moves, OthersStay, Chains,
        Apart, Tops, Top
<1>11. CountExact'
    BY <1>1, <1>3, <1>4, CountStays DEF IInv, Same, Moves, OthersStay
<1> QED BY <1>2, <1>5, <1>6, <1>7, <1>8, <1>9, <1>10, <1>11 DEF IInv

LEMMA SetHeadKeeps ==
    ASSUME IInv, NEW t \in Threads, SetHead(t), wstatus[node[t]] # "waiting_nonblocking"
    PROVE  IInv'
<1>1. /\ pc[t] = "s_head" /\ wstatus[node[t]] = "waiting" /\ Moves(t, "s_or1")
      /\ writer_head' = node[t]
      /\ UNCHANGED <<word, reader_head, writer_tail, my_current_writer, wnext>>
      /\ UNCHANGED <<wstatus, rnext, rstatus, below>>
    BY NotNull DEF IInv, TypeOK, Local, SetNextLocs, WritersInLine, Passing, Linked, SetHead,
        Goto, heads, wnodes, rnodes, Moves, OthersStay
<1>2. TypeOK'
    BY LocsAre, NotNull DEF IInv, TypeOK, Nodes, Statuses, SetHead, Goto, heads, wnodes, rnodes
<1>3. \A u \in Threads : u # t => Same(u)
    BY <1>1, Unmoved DEF Moves, OthersStay
<1>4. /\ (Queued(t)' <=> Queued(t)) /\ InCharge(t) /\ InCharge(t)'
      /\ (Passing(t)' <=> Passing(t)) /\ ~ Linked(t) /\ ~ Linked(t)' /\ ~ Stacked(t)
      /\ ~ Stacked(t)' /\ ~ Counted(t) /\ ~ Counted(t)' /\ ~ Holding(t) /\ ~ Holding(t)'
      /\ ~ Flagged(t) /\ ~ Flagged(t)' /\ ~ Opening(t) /\ ~ Opening(t)'
    BY <1>1 DEF Moves, Jumps, Queued, InCharge, Passing, Linked, Stacked, Counted, Holding,
        Flagged, Opening, SetNextLocs, UnblockLocs
<1>5. Local'
    BY NotNull, Typed, <1>1, <1>3, <1>4 DEF IInv, Local, Same, Moves, OthersStay, WritersInLine,
        Passing, Linked, SetNextLocs, UnblockLocs, EndWriteLocs
<1>6. WritersInLine'
    BY NotNull, Typed, <1>1, <1>3, <1>4 DEF IInv, WritersInLine, Same, Moves, OthersStay
<1>7. HeadExact'
    BY NotNull, Typed, <1>1, <1>3, <1>4, Parts DEF IInv, HeadExact, Same, Moves, OthersStay,
        SetNextLocs, UnblockLocs, WritersInLine
<1>8. FlagsExact'
    BY NotNull, Typed, <1>1, <1>3, <1>4 DEF IInv, FlagsExact, Same, Moves, OthersStay
<1>9. ReadersAnnounced'
    BY NotNull, Typed, <1>1, <1>3, <1>4 DEF IInv, ReadersAnnounced, Same, Moves, OthersStay
<1>10. GroupsApart'
    BY NotNull, Typed, <1>1, <1>3, <1>4 DEF IInv, GroupsApart, Same, Moves, OthersStay, Chains,
        Apart, Tops, Top
<1>11. CountExact'
    BY <1>1, <1>3, <1>4, CountStays DEF IInv, Same, Moves, OthersStay
<1> QED BY <1>2, <1>5, <1>6, <1>7, <1>8, <1>9, <1>10, <1>11 DEF IInv

LEMMA SetByTryWinsKeeps ==
    ASSUME IInv, NEW t \in Threads, SetByTry(t), word = Free
    PROVE  IInv'
<1>0. /\ pc[t] = "s_cas" /\ Goto(t, "s_active")
      /\ word' = [w1 |-> TRUE, w2 |-> TRUE, rf |-> FALSE, rc |-> 0]
      /\ UNCHANGED <<heads, wnodes, rnodes>>
    BY  DEF IInv, TypeOK, SetByTry, Free
<1>1. /\ pc[t] = "s_cas" /\ back[t] = "w_first" /\ wstatus[t] = "waiting_nonblocking"
      /\ ~ word.w1 /\ ~ word.w2 /\ ~ word.rf /\ word.rc = 0 /\ Moves(t, "s_active") /\ word'.w1
      /\ word'.w2 /\ ~ word'.rf /\ word'.rc = 0
      /\ UNCHANGED <<reader_head, writer_head, writer_tail, my_current_writer, wnext>>
      /\ UNCHANGED <<wstatus, rnext, rstatus, below>>
    BY NotNull, <1>0 DEF IInv, TypeOK, Local, SetNextLocs, Goto, Free, heads, wnodes, rnodes,
        Moves, OthersStay
<1>2. TypeOK'
    BY LocsAre, NotNull, <1>0 DEF IInv, TypeOK, Nodes, Statuses, Goto, Free, heads, wnodes,
        rnodes
<1>3. \A u \in Threads : u # t => Same(u)
    BY <1>1, Unmoved DEF Moves, OthersStay
<1>4. /\ Queued(t) /\ Queued(t)' /\ InCharge(t) /\ InCharge(t)' /\ ~ Passing(t) /\ ~ Passing(t)'
      /\ ~ Linked(t) /\ ~ Linked(t)' /\ ~ Stacked(t) /\ ~ Stacked(t)' /\ ~ Counted(t)
      /\ ~ Counted(t)' /\ ~ Holding(t) /\ Holding(t)' /\ ~ Flagged(t) /\ Flagged(t)'
      /\ ~ Opening(t) /\ ~ Opening(t)'
    BY <1>1 DEF Moves, Jumps, Queued, InCharge, Passing, Linked, Stacked, Counted, Holding,
        Flagged, Opening, SetNextLocs, UnblockLocs
<1>5. Local'
    BY NotNull, Typed, <1>1, <1>3, <1>4 DEF IInv, Local, Same, Moves, OthersStay, WritersInLine,
        Passing, Linked, SetNextLocs, UnblockLocs, EndWriteLocs
<1>6. WritersInLine'
    BY NotNull, Typed, <1>1, <1>3, <1>4 DEF IInv, WritersInLine, Same, Moves, OthersStay
<1>7. HeadExact'
    BY NotNull, Typed, <1>1, <1>3, <1>4 DEF IInv, HeadExact, Same, Moves, OthersStay,
        SetNextLocs, UnblockLocs
<1>8. FlagsExact'
    BY NotNull, Typed, <1>1, <1>3, <1>4, Parts, CountZero DEF IInv, FlagsExact, Same, Moves,
        OthersStay, ReadersAnnounced
<1>9. ReadersAnnounced'
    BY NotNull, Typed, <1>1, <1>3, <1>4 DEF IInv, ReadersAnnounced, Same, Moves, OthersStay
<1>10. GroupsApart'
    BY NotNull, Typed, <1>1, <1>3, <1>4 DEF IInv, GroupsApart, Same, Moves, OthersStay, Chains,
        Apart, Tops, Top
<1>11. CountExact'
    BY <1>1, <1>3, <1>4, CountStays DEF IInv, Same, Moves, OthersStay
<1> QED BY <1>2, <1>5, <1>6, <1>7, <1>8, <1>9, <1>10, <1>11 DEF IInv

LEMMA SetByTryFailsKeeps ==
    ASSUME IInv, NEW t \in Threads, SetByTry(t), word # Free
    PROVE  IInv'
<1>1. /\ pc[t] = "s_cas" /\ back[t] = "w_first" /\ wstatus[t] = "waiting_nonblocking"
      /\ node[t] = t /\ Jumps(t, "w_first", NULL, "idle")
      /\ UNCHANGED <<word, reader_head, writer_head, writer_tail, my_current_writer>>
      /\ UNCHANGED <<wnext, wstatus, rnext, rstatus, below>>
    BY NotNull DEF IInv, TypeOK, Local, SetNextLocs, SetByTry, Jump, ReturnFrom, Finish, heads,
        wnodes, rnodes, Jumps, OthersStay
<1>2. TypeOK'
    BY LocsAre, NotNull DEF IInv, TypeOK, Nodes, Statuses, SetByTry, Jump, ReturnFrom, Finish,
        heads, wnodes, rnodes
<1>3. \A u \in Threads : u # t => Same(u)
    BY <1>1, Unmoved DEF Jumps, OthersStay
<1>4. /\ Queued(t) /\ Queued(t)' /\ InCharge(t) /\ InCharge(t)' /\ ~ Passing(t) /\ ~ Passing(t)'
      /\ ~ Linked(t) /\ ~ Linked(t)' /\ ~ Stacked(t) /\ ~ Stacked(t)' /\ ~ Counted(t)
      /\ ~ Counted(t)' /\ ~ Holding(t) /\ ~ Holding(t)' /\ ~ Flagged(t) /\ ~ Flagged(t)'
      /\ ~ Opening(t) /\ ~ Opening(t)'
    BY <1>1 DEF Moves, Jumps, Queued, InCharge, Passing, Linked, Stacked, Counted, Holding,
        Flagged, Opening, SetNextLocs, UnblockLocs
<1>5. Local'
    BY NotNull, Typed, <1>1, <1>3, <1>4 DEF IInv, Local, Same, Jumps, OthersStay, WritersInLine,
        Passing, Linked, SetNextLocs, UnblockLocs, EndWriteLocs
<1>6. WritersInLine'
    BY NotNull, Typed, <1>1, <1>3, <1>4 DEF IInv, WritersInLine, Same, Jumps, OthersStay
<1>7. HeadExact'
    BY NotNull, Typed, <1>1, <1>3, <1>4 DEF IInv, HeadExact, Same, Jumps, OthersStay,
        SetNextLocs, UnblockLocs
<1>8. FlagsExact'
    BY NotNull, Typed, <1>1, <1>3, <1>4 DEF IInv, FlagsExact, Same, Jumps, OthersStay
<1>9. ReadersAnnounced'
    BY NotNull, Typed, <1>1, <1>3, <1>4 DEF IInv, ReadersAnnounced, Same, Jumps, OthersStay
<1>10. GroupsApart'
    BY NotNull, Typed, <1>1, <1>3, <1>4 DEF IInv, GroupsApart, Same, Jumps, OthersStay, Chains,
        Apart, Tops, Top
<1>11. CountExact'
    BY <1>1, <1>3, <1>4, CountStays DEF IInv, Same, Jumps, OthersStay
<1> QED BY <1>2, <1>5, <1>6, <1>7, <1>8, <1>9, <1>10, <1>11 DEF IInv

LEMMA SetFlag1WaitsKeeps ==
    ASSUME IInv, NEW t \in Threads, SetFlag1(t), word.rf
    PROVE  IInv'
<1>0. /\ pc[t] = "s_or1" /\ Goto(t, "s_w2wait")
      /\ word' = [w1 |-> TRUE, w2 |-> word.w2, rf |-> word.rf, rc |-> word.rc]
      /\ UNCHANGED <<heads, wnodes, rnodes>>
    BY  DEF IInv, TypeOK, SetFlag1
<1>1. /\ pc[t] = "s_or1" /\ wstatus[node[t]] = "waiting" /\ word.rf /\ Moves(t, "s_w2wait")
      /\ word'.w1 = TRUE /\ word'.w2 = word.w2 /\ word'.rf = word.rf /\ word'.rc = word.rc
      /\ UNCHANGED <<reader_head, writer_head, writer_tail, my_current_writer, wnext>>
      /\ UNCHANGED <<wstatus, rnext, rstatus, below>>
    BY NotNull, <1>0 DEF IInv, TypeOK, Local, SetNextLocs, Goto, heads, wnodes, rnodes, Moves,
        OthersStay
<1>2. TypeOK'
    BY LocsAre, NotNull, <1>0 DEF IInv, TypeOK, Nodes, Statuses, Goto, heads, wnodes, rnodes
<1>3. \A u \in Threads : u # t => Same(u)
    BY <1>1, Unmoved DEF Moves, OthersStay
<1>4. /\ (Queued(t)' <=> Queued(t)) /\ InCharge(t) /\ InCharge(t)'
      /\ (Passing(t)' <=> Passing(t)) /\ ~ Linked(t) /\ ~ Linked(t)' /\ ~ Stacked(t)
      /\ ~ Stacked(t)' /\ ~ Counted(t) /\ ~ Counted(t)' /\ ~ Holding(t) /\ ~ Holding(t)'
      /\ ~ Flagged(t) /\ Flagged(t)' /\ ~ Opening(t) /\ ~ Opening(t)'
    BY <1>1 DEF Moves, Jumps, Queued, InCharge, Passing, Linked, Stacked, Counted, Holding,
        Flagged, Opening, SetNextLocs, UnblockLocs
<1>5. Local'
    BY NotNull, Typed, <1>1, <1>3, <1>4 DEF IInv, Local, Same, Moves, OthersStay, WritersInLine,
        Passing, Linked, SetNextLocs, UnblockLocs, EndWriteLocs
<1>6. WritersInLine'
    BY NotNull, Typed, <1>1, <1>3, <1>4 DEF IInv, WritersInLine, Same, Moves, OthersStay
<1>7. HeadExact'
    BY NotNull, Typed, <1>1, <1>3, <1>4 DEF IInv, HeadExact, Same, Moves, OthersStay,
        SetNextLocs, UnblockLocs
<1>8. FlagsExact'
    BY NotNull, Typed, <1>1, <1>3, <1>4 DEF IInv, FlagsExact, Same, Moves, OthersStay
<1>9. ReadersAnnounced'
    BY NotNull, Typed, <1>1, <1>3, <1>4 DEF IInv, ReadersAnnounced, Same, Moves, OthersStay
<1>10. GroupsApart'
    BY NotNull, Typed, <1>1, <1>3, <1>4 DEF IInv, GroupsApart, Same, Moves, OthersStay, Chains,
        Apart, Tops, Top
<1>11. CountExact'
    BY <1>1, <1>3, <1>4, CountStays DEF IInv, Same, Moves, OthersStay
<1> QED BY <1>2, <1>5, <1>6, <1>7, <1>8, <1>9, <1>10, <1>11 DEF IInv

LEMMA SetFlag1Keeps ==
    ASSUME IInv, NEW t \in Threads, SetFlag1(t), ~ word.rf
    PROVE  IInv'
<1>1. /\ pc[t] = "s_or1" /\ wstatus[node[t]] = "waiting" /\ ~ word.rf /\ Moves(t, "s_or2")
      /\ word'.w1 = TRUE /\ word'.w2 = word.w2 /\ word'.rf = word.rf /\ word'.rc = word.rc
      /\ UNCHANGED <<reader_head, writer_head, writer_tail, my_current_writer, wnext>>
      /\ UNCHANGED <<wstatus, rnext, rstatus, below>>
    BY NotNull DEF IInv, TypeOK, Local, SetNextLocs, SetFlag1, Goto, heads, wnodes, rnodes,
        Moves, OthersStay
<1>2. TypeOK'
    BY LocsAre, NotNull DEF IInv, TypeOK, Nodes, Statuses, SetFlag1, Goto, heads, wnodes, rnodes
<1>3. \A u \in Threads : u # t => Same(u)
    BY <1>1, Unmoved DEF Moves, OthersStay
<1>4. /\ (Queued(t)' <=> Queued(t)) /\ InCharge(t) /\ InCharge(t)'
      /\ (Passing(t)' <=> Passing(t)) /\ ~ Linked(t) /\ ~ Linked(t)' /\ ~ Stacked(t)
      /\ ~ Stacked(t)' /\ ~ Counted(t) /\ ~ Counted(t)' /\ ~ Holding(t) /\ ~ Holding(t)'
      /\ ~ Flagged(t) /\ Flagged(t)' /\ ~ Opening(t) /\ ~ Opening(t)'
    BY <1>1 DEF Moves, Jumps, Queued, InCharge, Passing, Linked, Stacked, Counted, Holding,
        Flagged, Opening, SetNextLocs, UnblockLocs
<1>5. Local'
    BY NotNull, Typed, <1>1, <1>3, <1>4 DEF IInv, Local, Same, Moves, OthersStay, WritersInLine,
        Passing, Linked, SetNextLocs, UnblockLocs, EndWriteLocs
<1>6. WritersInLine'
    BY NotNull, Typed, <1>1, <1>3, <1>4 DEF IInv, WritersInLine, Same, Moves, OthersStay
<1>7. HeadExact'
    BY NotNull, Typed, <1>1, <1>3, <1>4 DEF IInv, HeadExact, Same, Moves, OthersStay,
        SetNextLocs, UnblockLocs
<1>8. FlagsExact'
    BY NotNull, Typed, <1>1, <1>3, <1>4, Parts DEF IInv, FlagsExact, Same, Moves, OthersStay,
        ReadersAnnounced
<1>9. ReadersAnnounced'
    BY NotNull, Typed, <1>1, <1>3, <1>4 DEF IInv, ReadersAnnounced, Same, Moves, OthersStay
<1>10. GroupsApart'
    BY NotNull, Typed, <1>1, <1>3, <1>4 DEF IInv, GroupsApart, Same, Moves, OthersStay, Chains,
        Apart, Tops, Top
<1>11. CountExact'
    BY <1>1, <1>3, <1>4, CountStays DEF IInv, Same, Moves, OthersStay
<1> QED BY <1>2, <1>5, <1>6, <1>7, <1>8, <1>9, <1>10, <1>11 DEF IInv

LEMMA AwaitFlag2Keeps ==
    ASSUME IInv, NEW t \in Threads, AwaitFlag2(t)
    PROVE  IInv'
<1>1. /\ pc[t] = "s_w2wait" /\ wstatus[node[t]] = "waiting" /\ word.w2 /\ Moves(t, "s_rcwait")
      /\ UNCHANGED <<word, reader_head, writer_head, writer_tail, my_current_writer>>
      /\ UNCHANGED <<wnext, wstatus, rnext, rstatus, below>>
    BY NotNull DEF IInv, TypeOK, Local, SetNextLocs, AwaitFlag2, Goto, heads, wnodes, rnodes,
        Moves, OthersStay
<1>2. TypeOK'
    BY LocsAre, NotNull DEF IInv, TypeOK, Nodes, Statuses, AwaitFlag2, Goto, heads, wnodes,
        rnodes
<1>3. \A u \in Threads : u # t => Same(u)
    BY <1>1, Unmoved DEF Moves, OthersStay
<1>4. /\ (Queued(t)' <=> Queued(t)) /\ InCharge(t) /\ InCharge(t)'
      /\ (Passing(t)' <=> Passing(t)) /\ ~ Linked(t) /\ ~ Linked(t)' /\ ~ Stacked(t)
      /\ ~ Stacked(t)' /\ ~ Counted(t) /\ ~ Counted(t)' /\ ~ Holding(t) /\ ~ Holding(t)'
      /\ Flagged(t) /\ Flagged(t)' /\ ~ Opening(t) /\ ~ Opening(t)'
    BY <1>1 DEF Moves, Jumps, Queued, InCharge, Passing, Linked, Stacked, Counted, Holding,
        Flagged, Opening, SetNextLocs, UnblockLocs
<1>5. Local'
    BY NotNull, Typed, <1>1, <1>3, <1>4 DEF IInv, Local, Same, Moves, OthersStay, WritersInLine,
        Passing, Linked, SetNextLocs, UnblockLocs, EndWriteLocs
<1>6. WritersInLine'
    BY NotNull, Typed, <1>1, <1>3, <1>4 DEF IInv, WritersInLine, Same, Moves, OthersStay
<1>7. HeadExact'
    BY NotNull, Typed, <1>1, <1>3, <1>4 DEF IInv, HeadExact, Same, Moves, OthersStay,
        SetNextLocs, UnblockLocs
<1>8. FlagsExact'
    BY NotNull, Typed, <1>1, <1>3, <1>4 DEF IInv, FlagsExact, Same, Moves, OthersStay
<1>9. ReadersAnnounced'
    BY NotNull, Typed, <1>1, <1>3, <1>4 DEF IInv, ReadersAnnounced, Same, Moves, OthersStay
<1>10. GroupsApart'
    BY NotNull, Typed, <1>1, <1>3, <1>4 DEF IInv, GroupsApart, Same, Moves, OthersStay, Chains,
        Apart, Tops, Top
<1>11. CountExact'
    BY <1>1, <1>3, <1>4, CountStays DEF IInv, Same, Moves, OthersStay
<1> QED BY <1>2, <1>5, <1>6, <1>7, <1>8, <1>9, <1>10, <1>11 DEF IInv

LEMMA SetFlag2Keeps ==
    ASSUME IInv, NEW t \in Threads, SetFlag2(t)
    PROVE  IInv'
<1>1. /\ pc[t] = "s_or2" /\ wstatus[node[t]] = "waiting" /\ Moves(t, "s_rcwait")
      /\ word'.w1 = word.w1 /\ word'.w2 = TRUE /\ word'.rf = word.rf /\ word'.rc = word.rc
      /\ UNCHANGED <<reader_head, writer_head, writer_tail, my_current_writer, wnext>>
      /\ UNCHANGED <<wstatus, rnext, rstatus, below>>
    BY NotNull DEF IInv, TypeOK, Local, SetNextLocs, SetFlag2, Goto, heads, wnodes, rnodes,
        Moves, OthersStay
<1>2. TypeOK'
    BY LocsAre, NotNull DEF IInv, TypeOK, Nodes, Statuses, SetFlag2, Goto, heads, wnodes, rnodes
<1>3. \A u \in Threads : u # t => Same(u)
    BY <1>1, Unmoved DEF Moves, OthersStay
<1>4. /\ (Queued(t)' <=> Queued(t)) /\ InCharge(t) /\ InCharge(t)'
      /\ (Passing(t)' <=> Passing(t)) /\ ~ Linked(t) /\ ~ Linked(t)' /\ ~ Stacked(t)
      /\ ~ Stacked(t)' /\ ~ Counted(t) /\ ~ Counted(t)' /\ ~ Holding(t) /\ ~ Holding(t)'
      /\ Flagged(t) /\ Flagged(t)' /\ ~ Opening(t) /\ ~ Opening(t)'
    BY <1>1 DEF Moves, Jumps, Queued, InCharge, Passing, Linked, Stacked, Counted, Holding,
        Flagged, Opening, SetNextLocs, UnblockLocs
<1>5. Local'
    BY NotNull, Typed, <1>1, <1>3, <1>4 DEF IInv, Local, Same, Moves, OthersStay, WritersInLine,
        Passing, Linked, SetNextLocs, UnblockLocs, EndWriteLocs
<1>6. WritersInLine'
    BY NotNull, Typed, <1>1, <1>3, <1>4 DEF IInv, WritersInLine, Same, Moves, OthersStay
<1>7. HeadExact'
    BY NotNull, Typed, <1>1, <1>3, <1>4 DEF IInv, HeadExact, Same, Moves, OthersStay,
        SetNextLocs, UnblockLocs
<1>8. FlagsExact'
    BY NotNull, Typed, <1>1, <1>3, <1>4 DEF IInv, FlagsExact, Same, Moves, OthersStay
<1>9. ReadersAnnounced'
    BY NotNull, Typed, <1>1, <1>3, <1>4 DEF IInv, ReadersAnnounced, Same, Moves, OthersStay
<1>10. GroupsApart'
    BY NotNull, Typed, <1>1, <1>3, <1>4 DEF IInv, GroupsApart, Same, Moves, OthersStay, Chains,
        Apart, Tops, Top
<1>11. CountExact'
    BY <1>1, <1>3, <1>4, CountStays DEF IInv, Same, Moves, OthersStay
<1> QED BY <1>2, <1>5, <1>6, <1>7, <1>8, <1>9, <1>10, <1>11 DEF IInv

LEMMA AwaitReadersKeeps ==
    ASSUME IInv, NEW t \in Threads, AwaitReaders(t)
    PROVE  IInv'
<1>1. /\ pc[t] = "s_rcwait" /\ wstatus[node[t]] = "waiting" /\ word.rc = 0
      /\ Moves(t, "s_active")
      /\ UNCHANGED <<word, reader_head, writer_head, writer_tail, my_current_writer>>
      /\ UNCHANGED <<wnext, wstatus, rnext, rstatus, below>>
    BY NotNull DEF IInv, TypeOK, Local, SetNextLocs, AwaitReaders, Goto, heads, wnodes, rnodes,
        Moves, OthersStay
<1>2. TypeOK'
    BY LocsAre, NotNull DEF IInv, TypeOK, Nodes, Statuses, AwaitReaders, Goto, heads, wnodes,
        rnodes
<1>3. \A u \in Threads : u # t => Same(u)
    BY <1>1, Unmoved DEF Moves, OthersStay
<1>4. /\ (Queued(t)' <=> Queued(t)) /\ InCharge(t) /\ InCharge(t)'
      /\ (Passing(t)' <=> Passing(t)) /\ ~ Linked(t) /\ ~ Linked(t)' /\ ~ Stacked(t)
      /\ ~ Stacked(t)' /\ ~ Counted(t) /\ ~ Counted(t)' /\ ~ Holding(t) /\ Holding(t)'
      /\ Flagged(t) /\ Flagged(t)' /\ ~ Opening(t) /\ ~ Opening(t)'
    BY <1>1 DEF Moves, Jumps, Queued, InCharge, Passing, Linked, Stacked, Counted, Holding,
        Flagged, Opening, SetNextLocs, UnblockLocs
<1>5. Local'
    BY NotNull, Typed, <1>1, <1>3, <1>4 DEF IInv, Local, Same, Moves, OthersStay, WritersInLine,
        Passing, Linked, SetNextLocs, UnblockLocs, EndWriteLocs
<1>6. WritersInLine'
    BY NotNull, Typed, <1>1, <1>3, <1>4 DEF IInv, WritersInLine, Same, Moves, OthersStay
<1>7. HeadExact'
    BY NotNull, Typed, <1>1, <1>3, <1>4 DEF IInv, HeadExact, Same, Moves, OthersStay,
        SetNextLocs, UnblockLocs
<1>8. FlagsExact'
    BY NotNull, Typed, <1>1, <1>3, <1>4, CountZero DEF IInv, FlagsExact, Same, Moves, OthersStay
<1>9. ReadersAnnounced'
    BY NotNull, Typed, <1>1, <1>3, <1>4 DEF IInv, ReadersAnnounced, Same, Moves, OthersStay
<1>10. GroupsApart'
    BY NotNull, Typed, <1>1, <1>3, <1>4 DEF IInv, GroupsApart, Same, Moves, OthersStay, Chains,
        Apart, Tops, Top
<1>11. CountExact'
    BY <1>1, <1>3, <1>4, CountStays DEF IInv, Same, Moves, OthersStay
<1> QED BY <1>2, <1>5, <1>6, <1>7, <1>8, <1>9, <1>10, <1>11 DEF IInv

LEMMA ActivateSelfKeeps ==
    ASSUME IInv, NEW t \in Threads, Activate(t), back[t] = "w_first"
    PROVE  IInv'
<1>1. /\ pc[t] = "s_active" /\ back[t] = "w_first" /\ node[t] = t
      /\ Jumps(t, "w_first", NULL, "idle") /\ wstatus'[t] = "active"
      /\ (\A u \in Threads : u # t => wstatus'[u] = wstatus[u])
      /\ UNCHANGED <<word, reader_head, writer_head, writer_tail, my_current_writer>>
      /\ UNCHANGED <<wnext, rnext, rstatus, below>>
    BY NotNull DEF IInv, TypeOK, Local, SetNextLocs, Activate, Jump, ReturnFrom, Finish, heads,
        wnodes, rnodes, Jumps, OthersStay
<1>2. TypeOK'
    BY LocsAre, NotNull DEF IInv, TypeOK, Nodes, Statuses, Activate, Jump, ReturnFrom, Finish,
        heads, wnodes, rnodes
<1>3. \A u \in Threads : u # t => Same(u)
    BY <1>1, Unmoved DEF Jumps, OthersStay
<1>4. /\ Queued(t) /\ Queued(t)' /\ InCharge(t) /\ InCharge(t)' /\ ~ Passing(t) /\ ~ Passing(t)'
      /\ ~ Linked(t) /\ ~ Linked(t)' /\ ~ Stacked(t) /\ ~ Stacked(t)' /\ ~ Counted(t)
      /\ ~ Counted(t)' /\ Holding(t) /\ Holding(t)' /\ Flagged(t) /\ Flagged(t)' /\ ~ Opening(t)
      /\ ~ Opening(t)'
    BY <1>1 DEF Moves, Jumps, Queued, InCharge, Passing, Linked, Stacked, Counted, Holding,
        Flagged, Opening, SetNextLocs, UnblockLocs
<1>5. Local'
    BY NotNull, Typed, <1>1, <1>3, <1>4 DEF IInv, Local, Same, Jumps, OthersStay, WritersInLine,
        Passing, Linked, SetNextLocs, UnblockLocs, EndWriteLocs
<1>6. WritersInLine'
    BY NotNull, Typed, <1>1, <1>3, <1>4 DEF IInv, WritersInLine, Same, Jumps, OthersStay
<1>7. HeadExact'
    BY NotNull, Typed, <1>1, <1>3, <1>4 DEF IInv, HeadExact, Same, Jumps, OthersStay,
        SetNextLocs, UnblockLocs
<1>8. FlagsExact'
    BY NotNull, Typed, <1>1, <1>3, <1>4 DEF IInv, FlagsExact, Same, Jumps, OthersStay
<1>9. ReadersAnnounced'
    BY NotNull, Typed, <1>1, <1>3, <1>4 DEF IInv, ReadersAnnounced, Same, Jumps, OthersStay
<1>10. GroupsApart'
    BY NotNull, Typed, <1>1, <1>3, <1>4 DEF IInv, GroupsApart, Same, Jumps, OthersStay, Chains,
        Apart, Tops, Top
<1>11. CountExact'
    BY <1>1, <1>3, <1>4, CountStays DEF IInv, Same, Jumps, OthersStay
<1> QED BY <1>2, <1>5, <1>6, <1>7, <1>8, <1>9, <1>10, <1>11 DEF IInv

LEMMA ActivateByTryKeeps ==
    ASSUME IInv, NEW t \in Threads, Activate(t), back[t] = "f_free"
    PROVE  IInv'
<1>1. /\ pc[t] = "s_active" /\ back[t] = "f_free" /\ node[t] \in Threads \ {t}
      /\ Jumps(t, "f_free", NULL, "idle") /\ wstatus'[node[t]] = "active"
      /\ (\A u \in Threads : u # node[t] => wstatus'[u] = wstatus[u])
      /\ UNCHANGED <<word, reader_head, writer_head, writer_tail, my_current_writer>>
      /\ UNCHANGED <<wnext, rnext, rstatus, below>>
    BY NotNull DEF IInv, TypeOK, Local, SetNextLocs, WritersInLine, Passing, Linked, Activate,
        Jump, ReturnFrom, Finish, heads, wnodes, rnodes, Jumps, OthersStay
<1>2. TypeOK'
    BY LocsAre, NotNull DEF IInv, TypeOK, Nodes, Statuses, Activate, Jump, ReturnFrom, Finish,
        heads, wnodes, rnodes
<1>3. \A u \in Threads : u # t /\ u # node[t] => Same(u)
    BY <1>1, Unmoved DEF Jumps, OthersStay
<1>4. /\ ~ Queued(t) /\ ~ Queued(t)' /\ InCharge(t) /\ ~ InCharge(t)' /\ Passing(t)
      /\ ~ Passing(t)' /\ ~ Linked(t) /\ ~ Linked(t)' /\ ~ Stacked(t) /\ ~ Stacked(t)'
      /\ ~ Counted(t) /\ ~ Counted(t)' /\ Holding(t) /\ ~ Holding(t)' /\ Flagged(t)
      /\ ~ Flagged(t)' /\ ~ Opening(t) /\ ~ Opening(t)'
    BY <1>1 DEF Moves, Jumps, Queued, InCharge, Passing, Linked, Stacked, Counted, Holding,
        Flagged, Opening, SetNextLocs, UnblockLocs
<1>5. PICK s \in Threads : s = node[t] /\ s # t
    BY <1>1
<1>6. /\ pc[s] = "w_spin" /\ wstatus[s] = "waiting" /\ pc'[s] = "w_spin"
    BY <1>1, <1>5 DEF IInv, WritersInLine, Passing, Linked, SetNextLocs, Jumps, OthersStay
<1>7. /\ wstatus'[s] = "active" /\ Queued(s) /\ Queued(s)' /\ ~ InCharge(s) /\ InCharge(s)'
      /\ ~ Passing(s) /\ ~ Passing(s)' /\ Linked(s) /\ ~ Linked(s)' /\ ~ Stacked(s)
      /\ ~ Stacked(s)' /\ ~ Counted(s) /\ ~ Counted(s)' /\ ~ Holding(s) /\ Holding(s)'
      /\ ~ Flagged(s) /\ Flagged(s)' /\ ~ Opening(s) /\ ~ Opening(s)'
    BY <1>1, <1>5, <1>6 DEF Queued, InCharge, Passing, Linked, Stacked, Counted, Holding,
        Flagged, Opening, SetNextLocs, UnblockLocs
<1>8. Local'
    BY NotNull, Typed, <1>1, <1>3, <1>4, <1>5, <1>6, <1>7, Parts DEF IInv, Local, Same, Jumps,
        OthersStay, WritersInLine, Passing, Linked, SetNextLocs, UnblockLocs, EndWriteLocs
<1>9. WritersInLine'
    BY NotNull, Typed, <1>1, <1>3, <1>4, <1>5, <1>6, <1>7, Parts DEF IInv, WritersInLine, Same,
        Jumps, OthersStay
<1>10. HeadExact'
    BY NotNull, Typed, <1>1, <1>3, <1>4, <1>5, <1>6, <1>7 DEF IInv, HeadExact, Same, Jumps,
        OthersStay, SetNextLocs, UnblockLocs
<1>11. FlagsExact'
    BY NotNull, Typed, <1>1, <1>3, <1>4, <1>5, <1>6, <1>7 DEF IInv, FlagsExact, Same, Jumps,
        OthersStay
<1>12. ReadersAnnounced'
    BY NotNull, Typed, <1>1, <1>3, <1>4, <1>5, <1>6, <1>7 DEF IInv, ReadersAnnounced, Same,
        Jumps, OthersStay
<1>13. GroupsApart'
    BY NotNull, Typed, <1>1, <1>3, <1>4, <1>5, <1>6, <1>7 DEF IInv, GroupsApart, Same, Jumps,
        OthersStay, Chains, Apart, Tops, Top
<1>14. CountExact'
    BY <1>1, <1>3, <1>4, <1>5, <1>6, <1>7, CountStays DEF IInv, Same, Jumps, OthersStay
<1> QED BY <1>2, <1>8, <1>9, <1>10, <1>11, <1>12, <1>13, <1>14 DEF IInv

LEMMA ActivateAtEndKeeps ==
    ASSUME IInv, NEW t \in Threads, Activate(t), back[t] = "e_free"
    PROVE  IInv'
<1>1. /\ pc[t] = "s_active" /\ back[t] = "e_free" /\ node[t] \in Threads \ {t}
      /\ Jumps(t, "e_free", NULL, "idle") /\ wstatus'[node[t]] = "active"
      /\ (\A u \in Threads : u # node[t] => wstatus'[u] = wstatus[u])
      /\ UNCHANGED <<word, reader_head, writer_head, writer_tail, my_current_writer>>
      /\ UNCHANGED <<wnext, rnext, rstatus, below>>
    BY NotNull DEF IInv, TypeOK, Local, SetNextLocs, WritersInLine, Passing, Linked, Activate,
        Jump, ReturnFrom, Finish, heads, wnodes, rnodes, Jumps, OthersStay
<1>2. TypeOK'
    BY LocsAre, NotNull DEF IInv, TypeOK, Nodes, Statuses, Activate, Jump, ReturnFrom, Finish,
        heads, wnodes, rnodes
<1>3. \A u \in Threads : u # t /\ u # node[t] => Same(u)
    BY <1>1, Unmoved DEF Jumps, OthersStay
<1>4. /\ ~ Queued(t) /\ ~ Queued(t)' /\ InCharge(t) /\ ~ InCharge(t)' /\ Passing(t)
      /\ ~ Passing(t)' /\ ~ Linked(t) /\ ~ Linked(t)' /\ ~ Stacked(t) /\ ~ Stacked(t)'
      /\ ~ Counted(t) /\ ~ Counted(t)' /\ Holding(t) /\ ~ Holding(t)' /\ Flagged(t)
      /\ ~ Flagged(t)' /\ ~ Opening(t) /\ ~ Opening(t)'
    BY <1>1 DEF Moves, Jumps, Queued, InCharge, Passing, Linked, Stacked, Counted, Holding,
        Flagged, Opening, SetNextLocs, UnblockLocs
<1>5. PICK s \in Threads : s = node[t] /\ s # t
    BY <1>1
<1>6. /\ pc[s] = "w_spin" /\ wstatus[s] = "waiting" /\ pc'[s] = "w_spin"
    BY <1>1, <1>5 DEF IInv, WritersInLine, Passing, Linked, SetNextLocs, Jumps, OthersStay
<1>7. /\ wstatus'[s] = "active" /\ Queued(s) /\ Queued(s)' /\ ~ InCharge(s) /\ InCharge(s)'
      /\ ~ Passing(s) /\ ~ Passing(s)' /\ Linked(s) /\ ~ Linked(s)' /\ ~ Stacked(s)
      /\ ~ Stacked(s)' /\ ~ Counted(s) /\ ~ Counted(s)' /\ ~ Holding(s) /\ Holding(s)'
      /\ ~ Flagged(s) /\ Flagged(s)' /\ ~ Opening(s) /\ ~ Opening(s)'
    BY <1>1, <1>5, <1>6 DEF Queued, InCharge, Passing, Linked, Stacked, Counted, Holding,
        Flagged, Opening, SetNextLocs, UnblockLocs
<1>8. Local'
    BY NotNull, Typed, <1>1, <1>3, <1>4, <1>5, <1>6, <1>7, Parts DEF IInv, Local, Same, Jumps,
        OthersStay, WritersInLine, Passing, Linked, SetNextLocs, UnblockLocs, EndWriteLocs
<1>9. WritersInLine'
    BY NotNull, Typed, <1>1, <1>3, <1>4, <1>5, <1>6, <1>7, Parts DEF IInv, WritersInLine, Same,
        Jumps, OthersStay
<1>10. HeadExact'
    BY NotNull, Typed, <1>1, <1>3, <1>4, <1>5, <1>6, <1>7 DEF IInv, HeadExact, Same, Jumps,
        OthersStay, SetNextLocs, UnblockLocs
<1>11. FlagsExact'
    BY NotNull, Typed, <1>1, <1>3, <1>4, <1>5, <1>6, <1>7 DEF IInv, FlagsExact, Same, Jumps,
        OthersStay
<1>12. ReadersAnnounced'
    BY NotNull, Typed, <1>1, <1>3, <1>4, <1>5, <1>6, <1>7 DEF IInv, ReadersAnnounced, Same,
        Jumps, OthersStay
<1>13. GroupsApart'
    BY NotNull, Typed, <1>1, <1>3, <1>4, <1>5, <1>6, <1>7 DEF IInv, GroupsApart, Same, Jumps,
        OthersStay, Chains, Apart, Tops, Top
<1>14. CountExact'
    BY <1>1, <1>3, <1>4, <1>5, <1>6, <1>7, CountStays DEF IInv, Same, Jumps, OthersStay
<1> QED BY <1>2, <1>8, <1>9, <1>10, <1>11, <1>12, <1>13, <1>14 DEF IInv

-----------------------------------------------------------------------------
(* lock_read and start_read *)

LEMMA LockReadKeeps ==
    ASSUME IInv, NEW t \in Threads, LockRead(t)
    PROVE  IInv'
<1>1. /\ pc[t] = "idle" /\ Moves(t, "r_push") /\ rnext'[t] = NULL
      /\ (\A u \in Threads : u # t => rnext'[u] = rnext[u]) /\ rstatus'[t] = "waiting"
      /\ (\A u \in Threads : u # t => rstatus'[u] = rstatus[u])
      /\ UNCHANGED <<word, reader_head, writer_head, writer_tail, my_current_writer>>
      /\ UNCHANGED <<wnext, wstatus, below>>
    BY NotNull DEF IInv, TypeOK, Local, LockRead, Goto, heads, wnodes, rnodes, Moves, OthersStay
<1>2. TypeOK'
    BY LocsAre, NotNull DEF IInv, TypeOK, Nodes, Statuses, LockRead, Goto, heads, wnodes, rnodes
<1>3. \A u \in Threads : u # t => Same(u)
    BY <1>1, Unmoved DEF Moves, OthersStay
<1>4. /\ ~ Queued(t) /\ ~ Queued(t)' /\ ~ InCharge(t) /\ ~ InCharge(t)' /\ ~ Passing(t)
      /\ ~ Passing(t)' /\ ~ Linked(t) /\ ~ Linked(t)' /\ ~ Stacked(t) /\ ~ Stacked(t)'
      /\ ~ Counted(t) /\ ~ Counted(t)' /\ ~ Holding(t) /\ ~ Holding(t)' /\ ~ Flagged(t)
      /\ ~ Flagged(t)' /\ ~ Opening(t) /\ ~ Opening(t)'
    BY <1>1 DEF Moves, Jumps, Queued, InCharge, Passing, Linked, Stacked, Counted, Holding,
        Flagged, Opening, SetNextLocs, UnblockLocs
<1>5. Local'
    BY NotNull, Typed, <1>1, <1>3, <1>4 DEF IInv, Local, Same, Moves, OthersStay, WritersInLine,
        Passing, Linked, SetNextLocs, UnblockLocs, EndWriteLocs
<1>6. WritersInLine'
    BY NotNull, Typed, <1>1, <1>3, <1>4 DEF IInv, WritersInLine, Same, Moves, OthersStay
<1>7. HeadExact'
    BY NotNull, Typed, <1>1, <1>3, <1>4 DEF IInv, HeadExact, Same, Moves, OthersStay,
        SetNextLocs, UnblockLocs
<1>8. FlagsExact'
    BY NotNull, Typed, <1>1, <1>3, <1>4 DEF IInv, FlagsExact, Same, Moves, OthersStay
<1>9. ReadersAnnounced'
    BY NotNull, Typed, <1>1, <1>3, <1>4 DEF IInv, ReadersAnnounced, Same, Moves, OthersStay
<1>10. GroupsApart'
    BY NotNull, Typed, <1>1, <1>3, <1>4 DEF IInv, GroupsApart, Same, Moves, OthersStay, Chains,
        Apart, Tops, Top
<1>11. CountExact'
    BY <1>1, <1>3, <1>4, CountStays DEF IInv, Same, Moves, OthersStay
<1> QED BY <1>2, <1>5, <1>6, <1>7, <1>8, <1>9, <1>10, <1>11 DEF IInv

LEMMA PushFirstKeeps ==
    ASSUME IInv, NEW t \in Threads, PushReader(t), reader_head = NULL
    PROVE  IInv'
<1>1. /\ pc[t] = "r_push" /\ rstatus[t] = "waiting" /\ reader_head = NULL /\ Moves(t, "r_or")
      /\ reader_head' = t /\ rnext'[t] = NULL
      /\ (\A u \in Threads : u # t => rnext'[u] = rnext[u]) /\ below'[t] = {t}
      /\ (\A u \in Threads : u # t => below'[u] = below[u])
      /\ UNCHANGED <<word, writer_head, writer_tail, my_current_writer, wnext>>
      /\ UNCHANGED <<wstatus, rstatus>>
    BY NotNull DEF IInv, TypeOK, Local, PushReader, Goto, heads, wnodes, rnodes, Moves,
        OthersStay
<1>2. TypeOK'
    BY LocsAre, NotNull DEF IInv, TypeOK, Nodes, Statuses, PushReader, Goto, heads, wnodes,
        rnodes
<1>3. \A u \in Threads : u # t => Same(u)
    BY <1>1, Unmoved DEF Moves, OthersStay
<1>4. /\ ~ Queued(t) /\ ~ Queued(t)' /\ ~ InCharge(t) /\ ~ InCharge(t)' /\ ~ Passing(t)
      /\ ~ Passing(t)' /\ ~ Linked(t) /\ ~ Linked(t)' /\ ~ Stacked(t) /\ Stacked(t)'
      /\ ~ Counted(t) /\ ~ Counted(t)' /\ ~ Holding(t) /\ ~ Holding(t)' /\ ~ Flagged(t)
      /\ ~ Flagged(t)' /\ ~ Opening(t) /\ Opening(t)'
    BY <1>1 DEF Moves, Jumps, Queued, InCharge, Passing, Linked, Stacked, Counted, Holding,
        Flagged, Opening, SetNextLocs, UnblockLocs
<1>5. Local'
    BY NotNull, Typed, <1>1, <1>3, <1>4 DEF IInv, Local, Same, Moves, OthersStay, WritersInLine,
        Passing, Linked, SetNextLocs, UnblockLocs, EndWriteLocs
<1>6. WritersInLine'
    BY NotNull, Typed, <1>1, <1>3, <1>4 DEF IInv, WritersInLine, Same, Moves, OthersStay
<1>7. HeadExact'
    BY NotNull, Typed, <1>1, <1>3, <1>4 DEF IInv, HeadExact, Same, Moves, OthersStay,
        SetNextLocs, UnblockLocs
<1>8. FlagsExact'
    BY NotNull, Typed, <1>1, <1>3, <1>4 DEF IInv, FlagsExact, Same, Moves, OthersStay
<1>9. ReadersAnnounced'
    BY NotNull, Typed, <1>1, <1>3, <1>4 DEF IInv, ReadersAnnounced, Same, Moves, OthersStay
<1>10. GroupsApart'
    <2>7. Chains'
        BY <1>1, <1>3, <1>4, NotNull, Typed
        DEF IInv, GroupsApart, Chains, Apart, Tops, Top, Same, Moves, OthersStay
    <2>8. Apart'
        BY <1>1, <1>3, <1>4, NotNull, Typed
        DEF IInv, GroupsApart, Chains, Apart, Tops, Top, Same, Moves, OthersStay
    <2>9. Tops'
        BY <1>1, <1>3, <1>4, NotNull, Typed
        DEF IInv, GroupsApart, Chains, Apart, Tops, Top, Same, Moves, OthersStay, ReadersAnnounced
    <2> QED BY <2>7, <2>8, <2>9 DEF GroupsApart
<1>11. CountExact'
    BY <1>1, <1>3, <1>4, CountStays DEF IInv, Same, Moves, OthersStay
<1> QED BY <1>2, <1>5, <1>6, <1>7, <1>8, <1>9, <1>10, <1>11 DEF IInv

LEMMA PushOnKeeps ==
    ASSUME IInv, NEW t \in Threads, PushReader(t), reader_head # NULL
    PROVE  IInv'
<1>1. /\ pc[t] = "r_push" /\ rstatus[t] = "waiting" /\ reader_head # NULL
      /\ reader_head \in Threads /\ Moves(t, "r_spin") /\ reader_head' = t
      /\ rnext'[t] = reader_head /\ (\A u \in Threads : u # t => rnext'[u] = rnext[u])
      /\ below'[t] = {t} \cup below[reader_head]
      /\ (\A u \in Threads : u # t => below'[u] = below[u])
      /\ UNCHANGED <<word, writer_head, writer_tail, my_current_writer, wnext>>
      /\ UNCHANGED <<wstatus, rstatus>>
    BY NotNull DEF IInv, TypeOK, Local, PushReader, Goto, Nodes, heads, wnodes, rnodes, Moves,
        OthersStay
<1>2. TypeOK'
    BY LocsAre, NotNull DEF IInv, TypeOK, Nodes, Statuses, PushReader, Goto, Nodes, heads,
        wnodes, rnodes
<1>3. \A u \in Threads : u # t => Same(u)
    BY <1>1, Unmoved DEF Moves, OthersStay
<1>4. /\ ~ Queued(t) /\ ~ Queued(t)' /\ ~ InCharge(t) /\ ~ InCharge(t)' /\ ~ Passing(t)
      /\ ~ Passing(t)' /\ ~ Linked(t) /\ ~ Linked(t)' /\ ~ Stacked(t) /\ Stacked(t)'
      /\ ~ Counted(t) /\ ~ Counted(t)' /\ ~ Holding(t) /\ ~ Holding(t)' /\ ~ Flagged(t)
      /\ ~ Flagged(t)' /\ ~ Opening(t) /\ ~ Opening(t)'
    BY <1>1 DEF Moves, Jumps, Queued, InCharge, Passing, Linked, Stacked, Counted, Holding,
        Flagged, Opening, SetNextLocs, UnblockLocs
<1>5. Local'
    BY NotNull, Typed, <1>1, <1>3, <1>4 DEF IInv, Local, Same, Moves, OthersStay, WritersInLine,
        Passing, Linked, SetNextLocs, UnblockLocs, EndWriteLocs
<1>6. WritersInLine'
    BY NotNull, Typed, <1>1, <1>3, <1>4 DEF IInv, WritersInLine, Same, Moves, OthersStay
<1>7. HeadExact'
    BY NotNull, Typed, <1>1, <1>3, <1>4 DEF IInv, HeadExact, Same, Moves, OthersStay,
        SetNextLocs, UnblockLocs
<1>8. FlagsExact'
    BY NotNull, Typed, <1>1, <1>3, <1>4 DEF IInv, FlagsExact, Same, Moves, OthersStay
<1>9. ReadersAnnounced'
    BY NotNull, Typed, <1>1, <1>3, <1>4 DEF IInv, ReadersAnnounced, Same, Moves, OthersStay
<1>10. GroupsApart'
    <2>7. Chains'
        BY <1>1, <1>3, <1>4, NotNull, Typed
        DEF IInv, GroupsApart, Chains, Apart, Tops, Top, Same, Moves, OthersStay
    <2>8. Apart'
        BY <1>1, <1>3, <1>4, NotNull, Typed
        DEF IInv, GroupsApart, Chains, Apart, Tops, Top, Same, Moves, OthersStay
    <2>9. Tops'
        BY <1>1, <1>3, <1>4, NotNull, Typed
        DEF IInv, GroupsApart, Chains, Apart, Tops, Top, Same, Moves, OthersStay, ReadersAnnounced
    <2> QED BY <2>7, <2>8, <2>9 DEF GroupsApart
<1>11. CountExact'
    BY <1>1, <1>3, <1>4, CountStays DEF IInv, Same, Moves, OthersStay
<1> QED BY <1>2, <1>5, <1>6, <1>7, <1>8, <1>9, <1>10, <1>11 DEF IInv

LEMMA FirstReaderKeeps ==
    ASSUME IInv, NEW t \in Threads, FirstReader(t), ~ (word.w1 \/ word.w2)
    PROVE  IInv'
<1>0. /\ pc[t] = "r_or" /\ Jump(t, "b_add", NULL, "r_spin")
      /\ word' = [w1 |-> word.w1, w2 |-> word.w2, rf |-> TRUE, rc |-> word.rc]
      /\ UNCHANGED <<heads, wnodes, rnodes>>
    BY  DEF IInv, TypeOK, CallUnblock, FirstReader
<1>1. /\ pc[t] = "r_or" /\ rstatus[t] = "waiting" /\ ~ word.w1 /\ ~ word.w2
      /\ Jumps(t, "b_add", NULL, "r_spin") /\ word'.w1 = word.w1 /\ word'.w2 = word.w2
      /\ word'.rf = TRUE /\ word'.rc = word.rc
      /\ UNCHANGED <<reader_head, writer_head, writer_tail, my_current_writer, wnext>>
      /\ UNCHANGED <<wstatus, rnext, rstatus, below>>
    BY NotNull, <1>0 DEF IInv, TypeOK, Local, Stacked, Jump, heads, wnodes, rnodes, Jumps,
        OthersStay
<1>2. TypeOK'
    BY LocsAre, NotNull, <1>0 DEF IInv, TypeOK, Nodes, Statuses, Jump, heads, wnodes, rnodes
<1>3. \A u \in Threads : u # t => Same(u)
    BY <1>1, Unmoved DEF Jumps, OthersStay
<1>4. /\ ~ Queued(t) /\ ~ Queued(t)' /\ ~ InCharge(t) /\ ~ InCharge(t)' /\ ~ Passing(t)
      /\ ~ Passing(t)' /\ ~ Linked(t) /\ ~ Linked(t)' /\ Stacked(t) /\ Stacked(t)'
      /\ ~ Counted(t) /\ ~ Counted(t)' /\ ~ Holding(t) /\ ~ Holding(t)' /\ ~ Flagged(t)
      /\ ~ Flagged(t)' /\ Opening(t) /\ Opening(t)'
    BY <1>1 DEF Moves, Jumps, Queued, InCharge, Passing, Linked, Stacked, Counted, Holding,
        Flagged, Opening, SetNextLocs, UnblockLocs
<1>5. Local'
    BY NotNull, Typed, <1>1, <1>3, <1>4 DEF IInv, Local, Same, Jumps, OthersStay, WritersInLine,
        Passing, Linked, SetNextLocs, UnblockLocs, EndWriteLocs
<1>6. WritersInLine'
    BY NotNull, Typed, <1>1, <1>3, <1>4 DEF IInv, WritersInLine, Same, Jumps, OthersStay
<1>7. HeadExact'
    BY NotNull, Typed, <1>1, <1>3, <1>4 DEF IInv, HeadExact, Same, Jumps, OthersStay,
        SetNextLocs, UnblockLocs
<1>8. FlagsExact'
    BY NotNull, Typed, <1>1, <1>3, <1>4 DEF IInv, FlagsExact, Same, Jumps, OthersStay
<1>9. ReadersAnnounced'
    BY NotNull, Typed, <1>1, <1>3, <1>4 DEF IInv, ReadersAnnounced, Same, Jumps, OthersStay
<1>10. GroupsApart'
    BY NotNull, Typed, <1>1, <1>3, <1>4 DEF IInv, GroupsApart, Same, Jumps, OthersStay, Chains,
        Apart, Tops, Top
<1>11. CountExact'
    BY <1>1, <1>3, <1>4, CountStays DEF IInv, Same, Jumps, OthersStay
<1> QED BY <1>2, <1>5, <1>6, <1>7, <1>8, <1>9, <1>10, <1>11 DEF IInv

LEMMA FirstReaderYieldsKeeps ==
    ASSUME IInv, NEW t \in Threads, FirstReader(t), word.w1 \/ word.w2
    PROVE  IInv'
<1>0. /\ pc[t] = "r_or" /\ Goto(t, "r_spin")
      /\ word' = [w1 |-> word.w1, w2 |-> word.w2, rf |-> TRUE, rc |-> word.rc]
      /\ UNCHANGED <<heads, wnodes, rnodes>>
    BY  DEF IInv, TypeOK, FirstReader
<1>1. /\ pc[t] = "r_or" /\ rstatus[t] = "waiting" /\ (word.w1 \/ word.w2) /\ Moves(t, "r_spin")
      /\ word'.w1 = word.w1 /\ word'.w2 = word.w2 /\ word'.rf = TRUE /\ word'.rc = word.rc
      /\ UNCHANGED <<reader_head, writer_head, writer_tail, my_current_writer, wnext>>
      /\ UNCHANGED <<wstatus, rnext, rstatus, below>>
    BY NotNull, <1>0 DEF IInv, TypeOK, Local, Stacked, Goto, heads, wnodes, rnodes, Moves,
        OthersStay
<1>2. TypeOK'
    BY LocsAre, NotNull, <1>0 DEF IInv, TypeOK, Nodes, Statuses, Goto, heads, wnodes, rnodes
<1>3. \A u \in Threads : u # t => Same(u)
    BY <1>1, Unmoved DEF Moves, OthersStay
<1>4. /\ ~ Queued(t) /\ ~ Queued(t)' /\ ~ InCharge(t) /\ ~ InCharge(t)' /\ ~ Passing(t)
      /\ ~ Passing(t)' /\ ~ Linked(t) /\ ~ Linked(t)' /\ Stacked(t) /\ Stacked(t)'
      /\ ~ Counted(t) /\ ~ Counted(t)' /\ ~ Holding(t) /\ ~ Holding(t)' /\ ~ Flagged(t)
      /\ ~ Flagged(t)' /\ Opening(t) /\ ~ Opening(t)'
    BY <1>1 DEF Moves, Jumps, Queued, InCharge, Passing, Linked, Stacked, Counted, Holding,
        Flagged, Opening, SetNextLocs, UnblockLocs
<1>5. Local'
    BY NotNull, Typed, <1>1, <1>3, <1>4 DEF IInv, Local, Same, Moves, OthersStay, WritersInLine,
        Passing, Linked, SetNextLocs, UnblockLocs, EndWriteLocs
<1>6. WritersInLine'
    BY NotNull, Typed, <1>1, <1>3, <1>4 DEF IInv, WritersInLine, Same, Moves, OthersStay
<1>7. HeadExact'
    BY NotNull, Typed, <1>1, <1>3, <1>4 DEF IInv, HeadExact, Same, Moves, OthersStay,
        SetNextLocs, UnblockLocs
<1>8. FlagsExact'
    BY NotNull, Typed, <1>1, <1>3, <1>4 DEF IInv, FlagsExact, Same, Moves, OthersStay
<1>9. ReadersAnnounced'
    BY NotNull, Typed, <1>1, <1>3, <1>4 DEF IInv, ReadersAnnounced, Same, Moves, OthersStay,
        FlagsExact
<1>10. GroupsApart'
    BY NotNull, Typed, <1>1, <1>3, <1>4 DEF IInv, GroupsApart, Same, Moves, OthersStay, Chains,
        Apart, Tops, Top
<1>11. CountExact'
    BY <1>1, <1>3, <1>4, CountStays DEF IInv, Same, Moves, OthersStay
<1> QED BY <1>2, <1>5, <1>6, <1>7, <1>8, <1>9, <1>10, <1>11 DEF IInv

LEMMA SpinLastKeeps ==
    ASSUME IInv, NEW t \in Threads, SpinReader(t), rnext[t] = NULL
    PROVE  IInv'
<1>1. /\ pc[t] = "r_spin" /\ rstatus[t] = "active" /\ rnext[t] = NULL /\ Moves(t, "reading")
      /\ rnext'[t] = NULL /\ (\A u \in Threads : u # t => rnext'[u] = rnext[u])
      /\ rstatus'[t] = "invalid" /\ (\A u \in Threads : u # t => rstatus'[u] = rstatus[u])
      /\ below'[t] = {} /\ (\A u \in Threads : u # t => below'[u] = below[u])
      /\ UNCHANGED <<word, reader_head, writer_head, writer_tail, my_current_writer>>
      /\ UNCHANGED <<wnext, wstatus>>
    BY NotNull DEF IInv, TypeOK, Local, SpinReader, FreeReadNode, Goto, heads, wnodes, rnodes,
        Moves, OthersStay
<1>2. TypeOK'
    BY LocsAre, NotNull DEF IInv, TypeOK, Nodes, Statuses, SpinReader, FreeReadNode, Goto,
        heads, wnodes, rnodes
<1>3. \A u \in Threads : u # t => Same(u)
    BY <1>1, Unmoved DEF Moves, OthersStay
<1>4. /\ ~ Queued(t) /\ ~ Queued(t)' /\ ~ InCharge(t) /\ ~ InCharge(t)' /\ ~ Passing(t)
      /\ ~ Passing(t)' /\ ~ Linked(t) /\ ~ Linked(t)' /\ Stacked(t) /\ ~ Stacked(t)'
      /\ Counted(t) /\ Counted(t)' /\ ~ Holding(t) /\ ~ Holding(t)' /\ ~ Flagged(t)
      /\ ~ Flagged(t)' /\ ~ Opening(t) /\ ~ Opening(t)'
    BY <1>1 DEF Moves, Jumps, Queued, InCharge, Passing, Linked, Stacked, Counted, Holding,
        Flagged, Opening, SetNextLocs, UnblockLocs
<1>5. Local'
    BY NotNull, Typed, <1>1, <1>3, <1>4 DEF IInv, Local, Same, Moves, OthersStay, WritersInLine,
        Passing, Linked, SetNextLocs, UnblockLocs, EndWriteLocs
<1>6. WritersInLine'
    BY NotNull, Typed, <1>1, <1>3, <1>4 DEF IInv, WritersInLine, Same, Moves, OthersStay
<1>7. HeadExact'
    BY NotNull, Typed, <1>1, <1>3, <1>4 DEF IInv, HeadExact, Same, Moves, OthersStay,
        SetNextLocs, UnblockLocs
<1>8. FlagsExact'
    BY NotNull, Typed, <1>1, <1>3, <1>4 DEF IInv, FlagsExact, Same, Moves, OthersStay
<1>9. ReadersAnnounced'
    BY NotNull, Typed, <1>1, <1>3, <1>4 DEF IInv, ReadersAnnounced, Same, Moves, OthersStay
<1>10. GroupsApart'
    <2>1. \A u \in Threads : u # t /\ Stacked(u) => t \notin below[u]
        BY <1>1, <1>4 DEF IInv, GroupsApart, Apart
    <2>7. Chains'
        BY <1>1, <1>3, <1>4, <2>1, NotNull, Typed
        DEF IInv, GroupsApart, Chains, Apart, Tops, Top, Same, Moves, OthersStay
    <2>8. Apart'
        BY <1>1, <1>3, <1>4, <2>1, NotNull, Typed
        DEF IInv, GroupsApart, Chains, Apart, Tops, Top, Same, Moves, OthersStay
    <2>9. Tops'
        BY <1>1, <1>3, <1>4, <2>1, NotNull, Typed
        DEF IInv, GroupsApart, Chains, Apart, Tops, Top, Same, Moves, OthersStay, ReadersAnnounced
    <2> QED BY <2>7, <2>8, <2>9 DEF GroupsApart
<1>11. CountExact'
    BY <1>1, <1>3, <1>4, CountStays DEF IInv, Same, Moves, OthersStay
<1> QED BY <1>2, <1>5, <1>6, <1>7, <1>8, <1>9, <1>10, <1>11 DEF IInv

LEMMA SpinMoreKeeps ==
    ASSUME IInv, NEW t \in Threads, SpinReader(t), rnext[t] # NULL
    PROVE  IInv'
<1>1. /\ pc[t] = "r_spin" /\ rstatus[t] = "active" /\ rnext[t] # NULL /\ Moves(t, "r_count")
      /\ UNCHANGED <<word, reader_head, writer_head, writer_tail, my_current_writer>>
      /\ UNCHANGED <<wnext, wstatus, rnext, rstatus, below>>
    BY NotNull DEF IInv, TypeOK, Local, SpinReader, Goto, heads, wnodes, rnodes, Moves,
        OthersStay
<1>2. TypeOK'
    BY LocsAre, NotNull DEF IInv, TypeOK, Nodes, Statuses, SpinReader, Goto, heads, wnodes,
        rnodes
<1>3. \A u \in Threads : u # t => Same(u)
    BY <1>1, Unmoved DEF Moves, OthersStay
<1>4. /\ ~ Queued(t) /\ ~ Queued(t)' /\ ~ InCharge(t) /\ ~ InCharge(t)' /\ ~ Passing(t)
      /\ ~ Passing(t)' /\ ~ Linked(t) /\ ~ Linked(t)' /\ Stacked(t) /\ Stacked(t)' /\ Counted(t)
      /\ Counted(t)' /\ ~ Holding(t) /\ ~ Holding(t)' /\ ~ Flagged(t) /\ ~ Flagged(t)'
      /\ ~ Opening(t) /\ ~ Opening(t)'
    BY <1>1 DEF Moves, Jumps, Queued, InCharge, Passing, Linked, Stacked, Counted, Holding,
        Flagged, Opening, SetNextLocs, UnblockLocs
<1>5. Local'
    BY NotNull, Typed, <1>1, <1>3, <1>4 DEF IInv, Local, Same, Moves, OthersStay, WritersInLine,
        Passing, Linked, SetNextLocs, UnblockLocs, EndWriteLocs
<1>6. WritersInLine'
    BY NotNull, Typed, <1>1, <1>3, <1>4 DEF IInv, WritersInLine, Same, Moves, OthersStay
<1>7. HeadExact'
    BY NotNull, Typed, <1>1, <1>3, <1>4 DEF IInv, HeadExact, Same, Moves, OthersStay,
        SetNextLocs, UnblockLocs
<1>8. FlagsExact'
    BY NotNull, Typed, <1>1, <1>3, <1>4 DEF IInv, FlagsExact, Same, Moves, OthersStay
<1>9. ReadersAnnounced'
    BY NotNull, Typed, <1>1, <1>3, <1>4 DEF IInv, ReadersAnnounced, Same, Moves, OthersStay
<1>10. GroupsApart'
    BY NotNull, Typed, <1>1, <1>3, <1>4 DEF IInv, GroupsApart, Same, Moves, OthersStay, Chains,
        Apart, Tops, Top
<1>11. CountExact'
    BY <1>1, <1>3, <1>4, CountStays DEF IInv, Same, Moves, OthersStay
<1> QED BY <1>2, <1>5, <1>6, <1>7, <1>8, <1>9, <1>10, <1>11 DEF IInv

LEMMA CountSuccessorKeeps ==
    ASSUME IInv, NEW t \in Threads, CountSuccessor(t)
    PROVE  IInv'
<1>1. /\ pc[t] = "r_count" /\ rstatus[t] = "active" /\ Moves(t, "r_wake") /\ word'.w1 = word.w1
      /\ word'.w2 = word.w2 /\ word'.rf = word.rf /\ word'.rc = word.rc + 1
      /\ UNCHANGED <<reader_head, writer_head, writer_tail, my_current_writer, wnext>>
      /\ UNCHANGED <<wstatus, rnext, rstatus, below>>
    BY NotNull DEF IInv, TypeOK, Local, CountSuccessor, Goto, heads, wnodes, rnodes, Moves,
        OthersStay
<1>2. TypeOK'
    BY LocsAre, NotNull DEF IInv, TypeOK, Nodes, Statuses, CountSuccessor, Goto, heads, wnodes,
        rnodes
<1>3. \A u \in Threads : u # t => Same(u)
    BY <1>1, Unmoved DEF Moves, OthersStay
<1>4. /\ ~ Queued(t) /\ ~ Queued(t)' /\ ~ InCharge(t) /\ ~ InCharge(t)' /\ ~ Passing(t)
      /\ ~ Passing(t)' /\ ~ Linked(t) /\ ~ Linked(t)' /\ Stacked(t) /\ Stacked(t)' /\ Counted(t)
      /\ Counted(t)' /\ ~ Holding(t) /\ ~ Holding(t)' /\ ~ Flagged(t) /\ ~ Flagged(t)'
      /\ ~ Opening(t) /\ ~ Opening(t)'
    BY <1>1 DEF Moves, Jumps, Queued, InCharge, Passing, Linked, Stacked, Counted, Holding,
        Flagged, Opening, SetNextLocs, UnblockLocs
<1>5. Local'
    BY NotNull, Typed, <1>1, <1>3, <1>4 DEF IInv, Local, Same, Moves, OthersStay, WritersInLine,
        Passing, Linked, SetNextLocs, UnblockLocs, EndWriteLocs
<1>6. WritersInLine'
    BY NotNull, Typed, <1>1, <1>3, <1>4 DEF IInv, WritersInLine, Same, Moves, OthersStay
<1>7. HeadExact'
    BY NotNull, Typed, <1>1, <1>3, <1>4 DEF IInv, HeadExact, Same, Moves, OthersStay,
        SetNextLocs, UnblockLocs
<1>8. FlagsExact'
    BY NotNull, Typed, <1>1, <1>3, <1>4 DEF IInv, FlagsExact, Same, Moves, OthersStay
<1>9. ReadersAnnounced'
    BY NotNull, Typed, <1>1, <1>3, <1>4 DEF IInv, ReadersAnnounced, Same, Moves, OthersStay
<1>10. GroupsApart'
    BY NotNull, Typed, <1>1, <1>3, <1>4 DEF IInv, GroupsApart, Same, Moves, OthersStay, Chains,
        Apart, Tops, Top
<1>11. CountExact'
    BY <1>1, <1>3, <1>4, CountAhead DEF IInv, Same, Moves, OthersStay
<1> QED BY <1>2, <1>5, <1>6, <1>7, <1>8, <1>9, <1>10, <1>11 DEF IInv

LEMMA WakeSuccessorKeeps ==
    ASSUME IInv, NEW t \in Threads, WakeSuccessor(t)
    PROVE  IInv'
<1>1. /\ pc[t] = "r_wake" /\ rstatus[t] = "active" /\ rnext[t] \in Threads \ {t}
      /\ Moves(t, "reading") /\ rnext'[t] = NULL
      /\ (\A u \in Threads : u # t => rnext'[u] = rnext[u]) /\ rstatus'[t] = "invalid"
      /\ rstatus'[rnext[t]] = "active"
      /\ (\A u \in Threads : u # t /\ u # rnext[t] => rstatus'[u] = rstatus[u])
      /\ below'[t] = {} /\ (\A u \in Threads : u # t => below'[u] = below[u])
      /\ UNCHANGED <<word, reader_head, writer_head, writer_tail, my_current_writer>>
      /\ UNCHANGED <<wnext, wstatus>>
    BY NotNull DEF IInv, TypeOK, Local, GroupsApart, Chains, Stacked, WakeSuccessor, Goto,
        heads, wnodes, rnodes, Moves, OthersStay
<1>2. TypeOK'
    BY LocsAre, NotNull DEF IInv, TypeOK, Nodes, Statuses, WakeSuccessor, Goto, heads, wnodes,
        rnodes
<1>3. \A u \in Threads : u # t /\ u # rnext[t] => Same(u)
    BY <1>1, Unmoved DEF Moves, OthersStay
<1>4. /\ ~ Queued(t) /\ ~ Queued(t)' /\ ~ InCharge(t) /\ ~ InCharge(t)' /\ ~ Passing(t)
      /\ ~ Passing(t)' /\ ~ Linked(t) /\ ~ Linked(t)' /\ Stacked(t) /\ ~ Stacked(t)'
      /\ Counted(t) /\ Counted(t)' /\ ~ Holding(t) /\ ~ Holding(t)' /\ ~ Flagged(t)
      /\ ~ Flagged(t)' /\ ~ Opening(t) /\ ~ Opening(t)'
    BY <1>1 DEF Moves, Jumps, Queued, InCharge, Passing, Linked, Stacked, Counted, Holding,
        Flagged, Opening, SetNextLocs, UnblockLocs
<1>5. PICK s \in Threads : s = rnext[t] /\ s # t
    BY <1>1
<1>6. /\ pc[s] = "r_spin" /\ rstatus[s] = "waiting" /\ s \in below[t] /\ pc'[s] = "r_spin"
    <2>1. /\ Stacked(s) /\ rstatus[s] = "waiting" /\ s \in below[t] /\ Stacked(t)
        BY <1>1, <1>4, <1>5, NotNull DEF IInv, GroupsApart, Chains, Apart
    <2>2. ASSUME NEW h \in Threads, Top(h), s \in below[h] PROVE FALSE
        BY <1>1, <2>1, <2>2 DEF IInv, GroupsApart, Apart, Top
    <2>3. ~ Opening(s)
        BY <2>1, <2>2, NotNull, Typed DEF IInv, GroupsApart, Tops, ReadersAnnounced
    <2>4. ~ (pc[s] = "b_wake" /\ back[s] = "r_spin")
        BY <2>1, <2>2 DEF IInv, GroupsApart, Tops, Top
    <2> QED BY <1>1, <1>5, <2>1, <2>3, <2>4, Parts DEF IInv, Local, Moves, OthersStay
<1>7. /\ rstatus'[s] = "active" /\ ~ Queued(s) /\ ~ Queued(s)' /\ ~ InCharge(s)
      /\ ~ InCharge(s)' /\ ~ Passing(s) /\ ~ Passing(s)' /\ ~ Linked(s) /\ ~ Linked(s)'
      /\ Stacked(s) /\ Stacked(s)' /\ ~ Counted(s) /\ Counted(s)' /\ ~ Holding(s)
      /\ ~ Holding(s)' /\ ~ Flagged(s) /\ ~ Flagged(s)' /\ ~ Opening(s) /\ ~ Opening(s)'
    BY <1>1, <1>5, <1>6 DEF Queued, InCharge, Passing, Linked, Stacked, Counted, Holding,
        Flagged, Opening, SetNextLocs, UnblockLocs
<1>8. Local'
    BY NotNull, Typed, <1>1, <1>3, <1>4, <1>5, <1>6, <1>7 DEF IInv, Local, Same, Moves,
        OthersStay, WritersInLine, Passing, Linked, SetNextLocs, UnblockLocs, EndWriteLocs
<1>9. WritersInLine'
    BY NotNull, Typed, <1>1, <1>3, <1>4, <1>5, <1>6, <1>7 DEF IInv, WritersInLine, Same, Moves,
        OthersStay
<1>10. HeadExact'
    BY NotNull, Typed, <1>1, <1>3, <1>4, <1>5, <1>6, <1>7 DEF IInv, HeadExact, Same, Moves,
        OthersStay, SetNextLocs, UnblockLocs
<1>11. FlagsExact'
    BY NotNull, Typed, <1>1, <1>3, <1>4, <1>5, <1>6, <1>7 DEF IInv, FlagsExact, Same, Moves,
        OthersStay
<1>12. ReadersAnnounced'
    BY NotNull, Typed, <1>1, <1>3, <1>4, <1>5, <1>6, <1>7 DEF IInv, ReadersAnnounced, Same,
        Moves, OthersStay
<1>13. GroupsApart'
    <2>1. \A u \in Threads : u # t /\ Stacked(u) => t \notin below[u]
        BY <1>1, <1>4 DEF IInv, GroupsApart, Apart
    <2>7. Chains'
        BY <1>1, <1>3, <1>4, <1>5, <1>6, <1>7, <2>1, NotNull, Typed
        DEF IInv, GroupsApart, Chains, Apart, Tops, Top, Same, Moves, OthersStay
    <2>8. Apart'
        BY <1>1, <1>3, <1>4, <1>5, <1>6, <1>7, <2>1, NotNull, Typed
        DEF IInv, GroupsApart, Chains, Apart, Tops, Top, Same, Moves, OthersStay
    <2>9. Tops'
        BY <1>1, <1>3, <1>4, <1>5, <1>6, <1>7, <2>1, NotNull, Typed
        DEF IInv, GroupsApart, Chains, Apart, Tops, Top, Same, Moves, OthersStay, ReadersAnnounced
    <2> QED BY <2>7, <2>8, <2>9 DEF GroupsApart
<1>14. CountExact'
    BY <1>1, <1>3, <1>4, <1>5, <1>6, <1>7, CountWakes DEF IInv, Same, Moves, OthersStay
<1> QED BY <1>2, <1>8, <1>9, <1>10, <1>11, <1>12, <1>13, <1>14 DEF IInv

-----------------------------------------------------------------------------
(* unblock_readers *)

LEMMA CountGroupKeeps ==
    ASSUME IInv, NEW t \in Threads, CountGroup(t)
    PROVE  IInv'
<1>0. /\ pc[t] = "b_add" /\ Goto(t, "b_win1")
      /\ word' = [w1 |-> word.w1, w2 |-> word.w2, rf |-> FALSE, rc |-> word.rc + 1]
      /\ UNCHANGED <<heads, wnodes, rnodes>>
    BY  DEF IInv, TypeOK, CountGroup
<1>1. /\ pc[t] = "b_add" /\ word.rf /\ Moves(t, "b_win1") /\ word'.w1 = word.w1
      /\ word'.w2 = word.w2 /\ word'.rf = FALSE /\ word'.rc = word.rc + 1
      /\ UNCHANGED <<reader_head, writer_head, writer_tail, my_current_writer, wnext>>
      /\ UNCHANGED <<wstatus, rnext, rstatus, below>>
    BY NotNull, <1>0 DEF IInv, TypeOK, Local, UnblockLocs, ReadersAnnounced, Opening, Goto,
        heads, wnodes, rnodes, Moves, OthersStay
<1>2. TypeOK'
    BY LocsAre, NotNull, <1>0 DEF IInv, TypeOK, Nodes, Statuses, Goto, heads, wnodes, rnodes
<1>3. \A u \in Threads : u # t => Same(u)
    BY <1>1, Unmoved DEF Moves, OthersStay
<1>4. /\ (Queued(t)' <=> Queued(t)) /\ (InCharge(t)' <=> InCharge(t)) /\ ~ Passing(t)
      /\ ~ Passing(t)' /\ ~ Linked(t) /\ ~ Linked(t)' /\ (Stacked(t)' <=> Stacked(t))
      /\ ~ Counted(t) /\ Counted(t)' /\ ~ Holding(t) /\ ~ Holding(t)' /\ ~ Flagged(t)
      /\ ~ Flagged(t)' /\ Opening(t) /\ Opening(t)'
    BY <1>1 DEF Moves, Jumps, Queued, InCharge, Passing, Linked, Stacked, Counted, Holding,
        Flagged, Opening, SetNextLocs, UnblockLocs
<1>5. Local'
    BY NotNull, Typed, <1>1, <1>3, <1>4 DEF IInv, Local, Same, Moves, OthersStay, WritersInLine,
        Passing, Linked, SetNextLocs, UnblockLocs, EndWriteLocs
<1>6. WritersInLine'
    BY NotNull, Typed, <1>1, <1>3, <1>4 DEF IInv, WritersInLine, Same, Moves, OthersStay
<1>7. HeadExact'
    BY NotNull, Typed, <1>1, <1>3, <1>4 DEF IInv, HeadExact, Same, Moves, OthersStay,
        SetNextLocs, UnblockLocs
<1>8. FlagsExact'
    BY NotNull, Typed, <1>1, <1>3, <1>4 DEF IInv, FlagsExact, Same, Moves, OthersStay
<1>9. ReadersAnnounced'
    BY NotNull, Typed, <1>1, <1>3, <1>4 DEF IInv, ReadersAnnounced, Same, Moves, OthersStay
<1>10. GroupsApart'
    BY NotNull, Typed, <1>1, <1>3, <1>4 DEF IInv, GroupsApart, Same, Moves, OthersStay, Chains,
        Apart, Tops, Top
<1>11. CountExact'
    BY <1>1, <1>3, <1>4, CountJoins DEF IInv, Same, Moves, OthersStay
<1> QED BY <1>2, <1>5, <1>6, <1>7, <1>8, <1>9, <1>10, <1>11 DEF IInv

LEMMA Window1Keeps ==
    ASSUME IInv, NEW t \in Threads, TestWindow(t), pc[t] = "b_win1" /\ word.w1
    PROVE  IInv'
<1>1. /\ pc[t] = "b_win1" /\ word.w1 /\ Moves(t, "b_win2")
      /\ UNCHANGED <<word, reader_head, writer_head, writer_tail, my_current_writer>>
      /\ UNCHANGED <<wnext, wstatus, rnext, rstatus, below>>
    BY NotNull DEF IInv, TypeOK, Local, UnblockLocs, TestWindow, Goto, heads, wnodes, rnodes,
        Moves, OthersStay
<1>2. TypeOK'
    BY LocsAre, NotNull DEF IInv, TypeOK, Nodes, Statuses, TestWindow, Goto, heads, wnodes,
        rnodes
<1>3. \A u \in Threads : u # t => Same(u)
    BY <1>1, Unmoved DEF Moves, OthersStay
<1>4. /\ (Queued(t)' <=> Queued(t)) /\ (InCharge(t)' <=> InCharge(t)) /\ ~ Passing(t)
      /\ ~ Passing(t)' /\ ~ Linked(t) /\ ~ Linked(t)' /\ (Stacked(t)' <=> Stacked(t))
      /\ Counted(t) /\ Counted(t)' /\ ~ Holding(t) /\ ~ Holding(t)' /\ ~ Flagged(t)
      /\ ~ Flagged(t)' /\ Opening(t) /\ Opening(t)'
    BY <1>1 DEF Moves, Jumps, Queued, InCharge, Passing, Linked, Stacked, Counted, Holding,
        Flagged, Opening, SetNextLocs, UnblockLocs
<1>5. Local'
    BY NotNull, Typed, <1>1, <1>3, <1>4 DEF IInv, Local, Same, Moves, OthersStay, WritersInLine,
        Passing, Linked, SetNextLocs, UnblockLocs, EndWriteLocs
<1>6. WritersInLine'
    BY NotNull, Typed, <1>1, <1>3, <1>4 DEF IInv, WritersInLine, Same, Moves, OthersStay
<1>7. HeadExact'
    BY NotNull, Typed, <1>1, <1>3, <1>4 DEF IInv, HeadExact, Same, Moves, OthersStay,
        SetNextLocs, UnblockLocs
<1>8. FlagsExact'
    BY NotNull, Typed, <1>1, <1>3, <1>4 DEF IInv, FlagsExact, Same, Moves, OthersStay
<1>9. ReadersAnnounced'
    BY NotNull, Typed, <1>1, <1>3, <1>4 DEF IInv, ReadersAnnounced, Same, Moves, OthersStay
<1>10. GroupsApart'
    BY NotNull, Typed, <1>1, <1>3, <1>4 DEF IInv, GroupsApart, Same, Moves, OthersStay, Chains,
        Apart, Tops, Top
<1>11. CountExact'
    BY <1>1, <1>3, <1>4, CountStays DEF IInv, Same, Moves, OthersStay
<1> QED BY <1>2, <1>5, <1>6, <1>7, <1>8, <1>9, <1>10, <1>11 DEF IInv

LEMMA NoWindow1Keeps ==
    ASSUME IInv, NEW t \in Threads, TestWindow(t), pc[t] = "b_win1" /\ ~ word.w1
    PROVE  IInv'
<1>1. /\ pc[t] = "b_win1" /\ ~ word.w1 /\ Moves(t, "b_pop")
      /\ UNCHANGED <<word, reader_head, writer_head, writer_tail, my_current_writer>>
      /\ UNCHANGED <<wnext, wstatus, rnext, rstatus, below>>
    BY NotNull DEF IInv, TypeOK, Local, UnblockLocs, TestWindow, Goto, heads, wnodes, rnodes,
        Moves, OthersStay
<1>2. TypeOK'
    BY LocsAre, NotNull DEF IInv, TypeOK, Nodes, Statuses, TestWindow, Goto, heads, wnodes,
        rnodes
<1>3. \A u \in Threads : u # t => Same(u)
    BY <1>1, Unmoved DEF Moves, OthersStay
<1>4. /\ (Queued(t)' <=> Queued(t)) /\ (InCharge(t)' <=> InCharge(t)) /\ ~ Passing(t)
      /\ ~ Passing(t)' /\ ~ Linked(t) /\ ~ Linked(t)' /\ (Stacked(t)' <=> Stacked(t))
      /\ Counted(t) /\ Counted(t)' /\ ~ Holding(t) /\ ~ Holding(t)' /\ ~ Flagged(t)
      /\ ~ Flagged(t)' /\ Opening(t) /\ Opening(t)'
    BY <1>1 DEF Moves, Jumps, Queued, InCharge, Passing, Linked, Stacked, Counted, Holding,
        Flagged, Opening, SetNextLocs, UnblockLocs
<1>5. Local'
    BY NotNull, Typed, <1>1, <1>3, <1>4 DEF IInv, Local, Same, Moves, OthersStay, WritersInLine,
        Passing, Linked, SetNextLocs, UnblockLocs, EndWriteLocs
<1>6. WritersInLine'
    BY NotNull, Typed, <1>1, <1>3, <1>4 DEF IInv, WritersInLine, Same, Moves, OthersStay
<1>7. HeadExact'
    BY NotNull, Typed, <1>1, <1>3, <1>4 DEF IInv, HeadExact, Same, Moves, OthersStay,
        SetNextLocs, UnblockLocs
<1>8. FlagsExact'
    BY NotNull, Typed, <1>1, <1>3, <1>4 DEF IInv, FlagsExact, Same, Moves, OthersStay
<1>9. ReadersAnnounced'
    BY NotNull, Typed, <1>1, <1>3, <1>4 DEF IInv, ReadersAnnounced, Same, Moves, OthersStay
<1>10. GroupsApart'
    BY NotNull, Typed, <1>1, <1>3, <1>4 DEF IInv, GroupsApart, Same, Moves, OthersStay, Chains,
        Apart, Tops, Top
<1>11. CountExact'
    BY <1>1, <1>3, <1>4, CountStays DEF IInv, Same, Moves, OthersStay
<1> QED BY <1>2, <1>5, <1>6, <1>7, <1>8, <1>9, <1>10, <1>11 DEF IInv

LEMMA Window2Keeps ==
    ASSUME IInv, NEW t \in Threads, TestWindow(t), pc[t] = "b_win2" /\ ~ word.w2
    PROVE  IInv'
<1>1. /\ pc[t] = "b_win2" /\ ~ word.w2 /\ Moves(t, "b_or2")
      /\ UNCHANGED <<word, reader_head, writer_head, writer_tail, my_current_writer>>
      /\ UNCHANGED <<wnext, wstatus, rnext, rstatus, below>>
    BY NotNull DEF IInv, TypeOK, Local, UnblockLocs, TestWindow, Goto, heads, wnodes, rnodes,
        Moves, OthersStay
<1>2. TypeOK'
    BY LocsAre, NotNull DEF IInv, TypeOK, Nodes, Statuses, TestWindow, Goto, heads, wnodes,
        rnodes
<1>3. \A u \in Threads : u # t => Same(u)
    BY <1>1, Unmoved DEF Moves, OthersStay
<1>4. /\ (Queued(t)' <=> Queued(t)) /\ (InCharge(t)' <=> InCharge(t)) /\ ~ Passing(t)
      /\ ~ Passing(t)' /\ ~ Linked(t) /\ ~ Linked(t)' /\ (Stacked(t)' <=> Stacked(t))
      /\ Counted(t) /\ Counted(t)' /\ ~ Holding(t) /\ ~ Holding(t)' /\ ~ Flagged(t)
      /\ ~ Flagged(t)' /\ Opening(t) /\ Opening(t)'
    BY <1>1 DEF Moves, Jumps, Queued, InCharge, Passing, Linked, Stacked, Counted, Holding,
        Flagged, Opening, SetNextLocs, UnblockLocs
<1>5. Local'
    BY NotNull, Typed, <1>1, <1>3, <1>4 DEF IInv, Local, Same, Moves, OthersStay, WritersInLine,
        Passing, Linked, SetNextLocs, UnblockLocs, EndWriteLocs
<1>6. WritersInLine'
    BY NotNull, Typed, <1>1, <1>3, <1>4 DEF IInv, WritersInLine, Same, Moves, OthersStay
<1>7. HeadExact'
    BY NotNull, Typed, <1>1, <1>3, <1>4 DEF IInv, HeadExact, Same, Moves, OthersStay,
        SetNextLocs, UnblockLocs
<1>8. FlagsExact'
    BY NotNull, Typed, <1>1, <1>3, <1>4 DEF IInv, FlagsExact, Same, Moves, OthersStay
<1>9. ReadersAnnounced'
    BY NotNull, Typed, <1>1, <1>3, <1>4 DEF IInv, ReadersAnnounced, Same, Moves, OthersStay
<1>10. GroupsApart'
    BY NotNull, Typed, <1>1, <1>3, <1>4 DEF IInv, GroupsApart, Same, Moves, OthersStay, Chains,
        Apart, Tops, Top
<1>11. CountExact'
    BY <1>1, <1>3, <1>4, CountStays DEF IInv, Same, Moves, OthersStay
<1> QED BY <1>2, <1>5, <1>6, <1>7, <1>8, <1>9, <1>10, <1>11 DEF IInv

LEMMA NoWindow2Keeps ==
    ASSUME IInv, NEW t \in Threads, TestWindow(t), pc[t] = "b_win2" /\ word.w2
    PROVE  IInv'
<1>1. /\ pc[t] = "b_win2" /\ word.w2 /\ Moves(t, "b_pop")
      /\ UNCHANGED <<word, reader_head, writer_head, writer_tail, my_current_writer>>
      /\ UNCHANGED <<wnext, wstatus, rnext, rstatus, below>>
    BY NotNull DEF IInv, TypeOK, Local, UnblockLocs, TestWindow, Goto, heads, wnodes, rnodes,
        Moves, OthersStay
<1>2. TypeOK'
    BY LocsAre, NotNull DEF IInv, TypeOK, Nodes, Statuses, TestWindow, Goto, heads, wnodes,
        rnodes
<1>3. \A u \in Threads : u # t => Same(u)
    BY <1>1, Unmoved DEF Moves, OthersStay
<1>4. /\ (Queued(t)' <=> Queued(t)) /\ (InCharge(t)' <=> InCharge(t)) /\ ~ Passing(t)
      /\ ~ Passing(t)' /\ ~ Linked(t) /\ ~ Linked(t)' /\ (Stacked(t)' <=> Stacked(t))
      /\ Counted(t) /\ Counted(t)' /\ ~ Holding(t) /\ ~ Holding(t)' /\ ~ Flagged(t)
      /\ ~ Flagged(t)' /\ Opening(t) /\ Opening(t)'
    BY <1>1 DEF Moves, Jumps, Queued, InCharge, Passing, Linked, Stacked, Counted, Holding,
        Flagged, Opening, SetNextLocs, UnblockLocs
<1>5. Local'
    BY NotNull, Typed, <1>1, <1>3, <1>4 DEF IInv, Local, Same, Moves, OthersStay, WritersInLine,
        Passing, Linked, SetNextLocs, UnblockLocs, EndWriteLocs
<1>6. WritersInLine'
    BY NotNull, Typed, <1>1, <1>3, <1>4 DEF IInv, WritersInLine, Same, Moves, OthersStay
<1>7. HeadExact'
    BY NotNull, Typed, <1>1, <1>3, <1>4 DEF IInv, HeadExact, Same, Moves, OthersStay,
        SetNextLocs, UnblockLocs
<1>8. FlagsExact'
    BY NotNull, Typed, <1>1, <1>3, <1>4 DEF IInv, FlagsExact, Same, Moves, OthersStay
<1>9. ReadersAnnounced'
    BY NotNull, Typed, <1>1, <1>3, <1>4 DEF IInv, ReadersAnnounced, Same, Moves, OthersStay
<1>10. GroupsApart'
    BY NotNull, Typed, <1>1, <1>3, <1>4 DEF IInv, GroupsApart, Same, Moves, OthersStay, Chains,
        Apart, Tops, Top
<1>11. CountExact'
    BY <1>1, <1>3, <1>4, CountStays DEF IInv, Same, Moves, OthersStay
<1> QED BY <1>2, <1>5, <1>6, <1>7, <1>8, <1>9, <1>10, <1>11 DEF IInv

LEMMA ClearWindowKeeps ==
    ASSUME IInv, NEW t \in Threads, ClearWindow(t)
    PROVE  IInv'
<1>1. /\ pc[t] = "b_or2" /\ Moves(t, "b_pop") /\ word'.w1 = word.w1 /\ word'.w2 = TRUE
      /\ word'.rf = word.rf /\ word'.rc = word.rc
      /\ UNCHANGED <<reader_head, writer_head, writer_tail, my_current_writer, wnext>>
      /\ UNCHANGED <<wstatus, rnext, rstatus, below>>
    BY NotNull DEF IInv, TypeOK, Local, UnblockLocs, ClearWindow, Goto, heads, wnodes, rnodes,
        Moves, OthersStay
<1>2. TypeOK'
    BY LocsAre, NotNull DEF IInv, TypeOK, Nodes, Statuses, ClearWindow, Goto, heads, wnodes,
        rnodes
<1>3. \A u \in Threads : u # t => Same(u)
    BY <1>1, Unmoved DEF Moves, OthersStay
<1>4. /\ (Queued(t)' <=> Queued(t)) /\ (InCharge(t)' <=> InCharge(t)) /\ ~ Passing(t)
      /\ ~ Passing(t)' /\ ~ Linked(t) /\ ~ Linked(t)' /\ (Stacked(t)' <=> Stacked(t))
      /\ Counted(t) /\ Counted(t)' /\ ~ Holding(t) /\ ~ Holding(t)' /\ ~ Flagged(t)
      /\ ~ Flagged(t)' /\ Opening(t) /\ Opening(t)'
    BY <1>1 DEF Moves, Jumps, Queued, InCharge, Passing, Linked, Stacked, Counted, Holding,
        Flagged, Opening, SetNextLocs, UnblockLocs
<1>5. Local'
    BY NotNull, Typed, <1>1, <1>3, <1>4 DEF IInv, Local, Same, Moves, OthersStay, WritersInLine,
        Passing, Linked, SetNextLocs, UnblockLocs, EndWriteLocs
<1>6. WritersInLine'
    BY NotNull, Typed, <1>1, <1>3, <1>4 DEF IInv, WritersInLine, Same, Moves, OthersStay
<1>7. HeadExact'
    BY NotNull, Typed, <1>1, <1>3, <1>4 DEF IInv, HeadExact, Same, Moves, OthersStay,
        SetNextLocs, UnblockLocs
<1>8. FlagsExact'
    BY NotNull, Typed, <1>1, <1>3, <1>4, Parts DEF IInv, FlagsExact, Same, Moves, OthersStay,
        ReadersAnnounced
<1>9. ReadersAnnounced'
    BY NotNull, Typed, <1>1, <1>3, <1>4 DEF IInv, ReadersAnnounced, Same, Moves, OthersStay
<1>10. GroupsApart'
    BY NotNull, Typed, <1>1, <1>3, <1>4 DEF IInv, GroupsApart, Same, Moves, OthersStay, Chains,
        Apart, Tops, Top
<1>11. CountExact'
    BY <1>1, <1>3, <1>4, CountStays DEF IInv, Same, Moves, OthersStay
<1> QED BY <1>2, <1>5, <1>6, <1>7, <1>8, <1>9, <1>10, <1>11 DEF IInv

LEMMA PopGroupKeeps ==
    ASSUME IInv, NEW t \in Threads, PopGroup(t)
    PROVE  IInv'
<1>1. /\ pc[t] = "b_pop" /\ Jumps(t, "b_wake", reader_head, back[t]) /\ reader_head' = NULL
      /\ UNCHANGED <<word, writer_head, writer_tail, my_current_writer, wnext>>
      /\ UNCHANGED <<wstatus, rnext, rstatus, below>>
    BY NotNull DEF IInv, TypeOK, Local, UnblockLocs, PopGroup, Jump, heads, wnodes, rnodes,
        Jumps, OthersStay
<1>2. TypeOK'
    BY LocsAre, NotNull DEF IInv, TypeOK, Nodes, Statuses, PopGroup, Jump, heads, wnodes, rnodes
<1>3. \A u \in Threads : u # t => Same(u)
    BY <1>1, Unmoved DEF Jumps, OthersStay
<1>4. /\ (Queued(t)' <=> Queued(t)) /\ (InCharge(t)' <=> InCharge(t)) /\ ~ Passing(t)
      /\ ~ Passing(t)' /\ ~ Linked(t) /\ ~ Linked(t)' /\ (Stacked(t)' <=> Stacked(t))
      /\ Counted(t) /\ Counted(t)' /\ ~ Holding(t) /\ ~ Holding(t)' /\ ~ Flagged(t)
      /\ ~ Flagged(t)' /\ Opening(t) /\ ~ Opening(t)'
    BY <1>1 DEF Moves, Jumps, Queued, InCharge, Passing, Linked, Stacked, Counted, Holding,
        Flagged, Opening, SetNextLocs, UnblockLocs
<1>5. Local'
    BY NotNull, Typed, <1>1, <1>3, <1>4 DEF IInv, Local, Same, Jumps, OthersStay, WritersInLine,
        Passing, Linked, SetNextLocs, UnblockLocs, EndWriteLocs
<1>6. WritersInLine'
    BY NotNull, Typed, <1>1, <1>3, <1>4 DEF IInv, WritersInLine, Same, Jumps, OthersStay
<1>7. HeadExact'
    BY NotNull, Typed, <1>1, <1>3, <1>4 DEF IInv, HeadExact, Same, Jumps, OthersStay,
        SetNextLocs, UnblockLocs
<1>8. FlagsExact'
    BY NotNull, Typed, <1>1, <1>3, <1>4 DEF IInv, FlagsExact, Same, Jumps, OthersStay
<1>9. ReadersAnnounced'
    BY NotNull, Typed, <1>1, <1>3, <1>4 DEF IInv, ReadersAnnounced, Same, Jumps, OthersStay
<1>10. GroupsApart'
    <2>1. Opening(t) /\ (back[t] = "r_spin" => Stacked(t))
        BY <1>1 DEF Opening, Stacked, UnblockLocs
    <2>2. \A u \in Threads : Opening(u) => u = t
        BY <2>1 DEF IInv, ReadersAnnounced
    <2>3. \A h \in Threads : Top(h)' <=> Top(h)
        BY <1>1, <1>3, <1>4 DEF Top, Same
    <2>7. Chains'
        BY <1>1, <1>3, <1>4, <2>1, <2>2, <2>3, NotNull, Typed
        DEF IInv, GroupsApart, Chains, Apart, Tops, Top, Same, Jumps, OthersStay
    <2>8. Apart'
        BY <1>1, <1>3, <1>4, <2>1, <2>2, <2>3, NotNull, Typed
        DEF IInv, GroupsApart, Chains, Apart, Tops, Top, Same, Jumps, OthersStay
    <2>9. Tops'
        BY <1>1, <1>3, <1>4, <2>1, <2>2, <2>3, NotNull, Typed
        DEF IInv, GroupsApart, Chains, Apart, Tops, Top, Same, Jumps, OthersStay, ReadersAnnounced
    <2> QED BY <2>7, <2>8, <2>9 DEF GroupsApart
<1>11. CountExact'
    BY <1>1, <1>3, <1>4, CountStays DEF IInv, Same, Jumps, OthersStay
<1> QED BY <1>2, <1>5, <1>6, <1>7, <1>8, <1>9, <1>10, <1>11 DEF IInv

LEMMA WakeSelfKeeps ==
    ASSUME IInv, NEW t \in Threads, WakeGroup(t), back[t] = "r_spin" /\ node[t] = t
    PROVE  IInv'
<1>1. /\ pc[t] = "b_wake" /\ back[t] = "r_spin" /\ rstatus[t] = "waiting" /\ node[t] = t
      /\ Jumps(t, "r_spin", NULL, "idle") /\ rstatus'[t] = "active"
      /\ (\A u \in Threads : u # t => rstatus'[u] = rstatus[u])
      /\ UNCHANGED <<word, reader_head, writer_head, writer_tail, my_current_writer>>
      /\ UNCHANGED <<wnext, wstatus, rnext, below>>
    BY NotNull DEF IInv, TypeOK, Local, UnblockLocs, Stacked, WakeGroup, Jump, ReturnFrom,
        Finish, heads, wnodes, rnodes, Jumps, OthersStay
<1>2. TypeOK'
    BY LocsAre, NotNull DEF IInv, TypeOK, Nodes, Statuses, WakeGroup, Jump, ReturnFrom, Finish,
        heads, wnodes, rnodes
<1>3. \A u \in Threads : u # t => Same(u)
    BY <1>1, Unmoved DEF Jumps, OthersStay
<1>4. /\ ~ Queued(t) /\ ~ Queued(t)' /\ ~ InCharge(t) /\ ~ InCharge(t)' /\ ~ Passing(t)
      /\ ~ Passing(t)' /\ ~ Linked(t) /\ ~ Linked(t)' /\ Stacked(t) /\ Stacked(t)' /\ Counted(t)
      /\ Counted(t)' /\ ~ Holding(t) /\ ~ Holding(t)' /\ ~ Flagged(t) /\ ~ Flagged(t)'
      /\ ~ Opening(t) /\ ~ Opening(t)'
    BY <1>1 DEF Moves, Jumps, Queued, InCharge, Passing, Linked, Stacked, Counted, Holding,
        Flagged, Opening, SetNextLocs, UnblockLocs
<1>5. Local'
    BY NotNull, Typed, <1>1, <1>3, <1>4 DEF IInv, Local, Same, Jumps, OthersStay, WritersInLine,
        Passing, Linked, SetNextLocs, UnblockLocs, EndWriteLocs
<1>6. WritersInLine'
    BY NotNull, Typed, <1>1, <1>3, <1>4 DEF IInv, WritersInLine, Same, Jumps, OthersStay
<1>7. HeadExact'
    BY NotNull, Typed, <1>1, <1>3, <1>4 DEF IInv, HeadExact, Same, Jumps, OthersStay,
        SetNextLocs, UnblockLocs
<1>8. FlagsExact'
    BY NotNull, Typed, <1>1, <1>3, <1>4 DEF IInv, FlagsExact, Same, Jumps, OthersStay
<1>9. ReadersAnnounced'
    BY NotNull, Typed, <1>1, <1>3, <1>4 DEF IInv, ReadersAnnounced, Same, Jumps, OthersStay
<1>10. GroupsApart'
    BY NotNull, Typed, <1>1, <1>3, <1>4 DEF IInv, GroupsApart, Same, Jumps, OthersStay, Chains,
        Apart, Tops, Top
<1>11. CountExact'
    BY <1>1, <1>3, <1>4, CountStays DEF IInv, Same, Jumps, OthersStay
<1> QED BY <1>2, <1>5, <1>6, <1>7, <1>8, <1>9, <1>10, <1>11 DEF IInv

LEMMA WakeOwnGroupKeeps ==
    ASSUME IInv, NEW t \in Threads, WakeGroup(t), back[t] = "r_spin" /\ node[t] # t
    PROVE  IInv'
<1>1. /\ pc[t] = "b_wake" /\ back[t] = "r_spin" /\ rstatus[t] = "waiting"
      /\ node[t] \in Threads \ {t} /\ Jumps(t, "r_spin", NULL, "idle")
      /\ rstatus'[node[t]] = "active"
      /\ (\A u \in Threads : u # node[t] => rstatus'[u] = rstatus[u])
      /\ UNCHANGED <<word, reader_head, writer_head, writer_tail, my_current_writer>>
      /\ UNCHANGED <<wnext, wstatus, rnext, below>>
    BY NotNull DEF IInv, TypeOK, Local, UnblockLocs, GroupsApart, Chains, Apart, Tops, Top,
        Stacked, WakeGroup, Jump, ReturnFrom, Finish, heads, wnodes, rnodes, Jumps, OthersStay
<1>2. TypeOK'
    BY LocsAre, NotNull DEF IInv, TypeOK, Nodes, Statuses, WakeGroup, Jump, ReturnFrom, Finish,
        heads, wnodes, rnodes
<1>3. \A u \in Threads : u # t /\ u # node[t] => Same(u)
    BY <1>1, Unmoved DEF Jumps, OthersStay
<1>4. /\ ~ Queued(t) /\ ~ Queued(t)' /\ ~ InCharge(t) /\ ~ InCharge(t)' /\ ~ Passing(t)
      /\ ~ Passing(t)' /\ ~ Linked(t) /\ ~ Linked(t)' /\ Stacked(t) /\ Stacked(t)' /\ Counted(t)
      /\ ~ Counted(t)' /\ ~ Holding(t) /\ ~ Holding(t)' /\ ~ Flagged(t) /\ ~ Flagged(t)'
      /\ ~ Opening(t) /\ ~ Opening(t)'
    BY <1>1 DEF Moves, Jumps, Queued, InCharge, Passing, Linked, Stacked, Counted, Holding,
        Flagged, Opening, SetNextLocs, UnblockLocs
<1>5. PICK s \in Threads : s = node[t] /\ s # t
    BY <1>1
<1>6. /\ pc[s] = "r_spin" /\ rstatus[s] = "waiting" /\ pc'[s] = "r_spin"
    BY <1>1, <1>5, NotNull, Parts DEF IInv, Local, GroupsApart, Chains, Apart, Tops,
        ReadersAnnounced, Top, Jumps, OthersStay
<1>7. /\ rstatus'[s] = "active" /\ ~ Queued(s) /\ ~ Queued(s)' /\ ~ InCharge(s)
      /\ ~ InCharge(s)' /\ ~ Passing(s) /\ ~ Passing(s)' /\ ~ Linked(s) /\ ~ Linked(s)'
      /\ Stacked(s) /\ Stacked(s)' /\ ~ Counted(s) /\ Counted(s)' /\ ~ Holding(s)
      /\ ~ Holding(s)' /\ ~ Flagged(s) /\ ~ Flagged(s)' /\ ~ Opening(s) /\ ~ Opening(s)'
    BY <1>1, <1>5, <1>6 DEF Queued, InCharge, Passing, Linked, Stacked, Counted, Holding,
        Flagged, Opening, SetNextLocs, UnblockLocs
<1>8. Local'
    BY NotNull, Typed, <1>1, <1>3, <1>4, <1>5, <1>6, <1>7 DEF IInv, Local, Same, Jumps,
        OthersStay, WritersInLine, Passing, Linked, SetNextLocs, UnblockLocs, EndWriteLocs
<1>9. WritersInLine'
    BY NotNull, Typed, <1>1, <1>3, <1>4, <1>5, <1>6, <1>7 DEF IInv, WritersInLine, Same, Jumps,
        OthersStay
<1>10. HeadExact'
    BY NotNull, Typed, <1>1, <1>3, <1>4, <1>5, <1>6, <1>7 DEF IInv, HeadExact, Same, Jumps,
        OthersStay, SetNextLocs, UnblockLocs
<1>11. FlagsExact'
    BY NotNull, Typed, <1>1, <1>3, <1>4, <1>5, <1>6, <1>7 DEF IInv, FlagsExact, Same, Jumps,
        OthersStay
<1>12. ReadersAnnounced'
    BY NotNull, Typed, <1>1, <1>3, <1>4, <1>5, <1>6, <1>7 DEF IInv, ReadersAnnounced, Same,
        Jumps, OthersStay
<1>13. GroupsApart'
    BY NotNull, Typed, <1>1, <1>3, <1>4, <1>5, <1>6, <1>7 DEF IInv, GroupsApart, Same, Jumps,
        OthersStay, Chains, Apart, Tops, Top
<1>14. CountExact'
    BY <1>1, <1>3, <1>4, <1>5, <1>6, <1>7, CountPasses DEF IInv, Same, Jumps, OthersStay
<1> QED BY <1>2, <1>8, <1>9, <1>10, <1>11, <1>12, <1>13, <1>14 DEF IInv

LEMMA WakeAtEndKeeps ==
    ASSUME IInv, NEW t \in Threads, WakeGroup(t), back[t] = "e_head"
    PROVE  IInv'
<1>1. /\ pc[t] = "b_wake" /\ back[t] = "e_head" /\ node[t] \in Threads \ {t}
      /\ Jumps(t, "e_head", NULL, "idle") /\ rstatus'[node[t]] = "active"
      /\ (\A u \in Threads : u # node[t] => rstatus'[u] = rstatus[u])
      /\ UNCHANGED <<word, reader_head, writer_head, writer_tail, my_current_writer>>
      /\ UNCHANGED <<wnext, wstatus, rnext, below>>
    BY NotNull DEF IInv, TypeOK, Local, UnblockLocs, GroupsApart, Chains, Apart, Tops, Top,
        Stacked, WakeGroup, Jump, ReturnFrom, Finish, heads, wnodes, rnodes, Jumps, OthersStay
<1>2. TypeOK'
    BY LocsAre, NotNull DEF IInv, TypeOK, Nodes, Statuses, WakeGroup, Jump, ReturnFrom, Finish,
        heads, wnodes, rnodes
<1>3. \A u \in Threads : u # t /\ u # node[t] => Same(u)
    BY <1>1, Unmoved DEF Jumps, OthersStay
<1>4. /\ Queued(t) /\ Queued(t)' /\ InCharge(t) /\ InCharge(t)' /\ ~ Passing(t) /\ ~ Passing(t)'
      /\ ~ Linked(t) /\ ~ Linked(t)' /\ ~ Stacked(t) /\ ~ Stacked(t)' /\ Counted(t)
      /\ ~ Counted(t)' /\ ~ Holding(t) /\ ~ Holding(t)' /\ ~ Flagged(t) /\ ~ Flagged(t)'
      /\ ~ Opening(t) /\ ~ Opening(t)'
    BY <1>1 DEF Moves, Jumps, Queued, InCharge, Passing, Linked, Stacked, Counted, Holding,
        Flagged, Opening, SetNextLocs, UnblockLocs
<1>5. PICK s \in Threads : s = node[t] /\ s # t
    BY <1>1
<1>6. /\ pc[s] = "r_spin" /\ rstatus[s] = "waiting" /\ pc'[s] = "r_spin"
    BY <1>1, <1>5, NotNull, Parts DEF IInv, Local, GroupsApart, Chains, Apart, Tops,
        ReadersAnnounced, Top, Jumps, OthersStay
<1>7. /\ rstatus'[s] = "active" /\ ~ Queued(s) /\ ~ Queued(s)' /\ ~ InCharge(s)
      /\ ~ InCharge(s)' /\ ~ Passing(s) /\ ~ Passing(s)' /\ ~ Linked(s) /\ ~ Linked(s)'
      /\ Stacked(s) /\ Stacked(s)' /\ ~ Counted(s) /\ Counted(s)' /\ ~ Holding(s)
      /\ ~ Holding(s)' /\ ~ Flagged(s) /\ ~ Flagged(s)' /\ ~ Opening(s) /\ ~ Opening(s)'
    BY <1>1, <1>5, <1>6 DEF Queued, InCharge, Passing, Linked, Stacked, Counted, Holding,
        Flagged, Opening, SetNextLocs, UnblockLocs
<1>8. Local'
    BY NotNull, Typed, <1>1, <1>3, <1>4, <1>5, <1>6, <1>7 DEF IInv, Local, Same, Jumps,
        OthersStay, WritersInLine, Passing, Linked, SetNextLocs, UnblockLocs, EndWriteLocs
<1>9. WritersInLine'
    BY NotNull, Typed, <1>1, <1>3, <1>4, <1>5, <1>6, <1>7 DEF IInv, WritersInLine, Same, Jumps,
        OthersStay
<1>10. HeadExact'
    BY NotNull, Typed, <1>1, <1>3, <1>4, <1>5, <1>6, <1>7 DEF IInv, HeadExact, Same, Jumps,
        OthersStay, SetNextLocs, UnblockLocs
<1>11. FlagsExact'
    BY NotNull, Typed, <1>1, <1>3, <1>4, <1>5, <1>6, <1>7 DEF IInv, FlagsExact, Same, Jumps,
        OthersStay
<1>12. ReadersAnnounced'
    BY NotNull, Typed, <1>1, <1>3, <1>4, <1>5, <1>6, <1>7 DEF IInv, ReadersAnnounced, Same,
        Jumps, OthersStay
<1>13. GroupsApart'
    BY NotNull, Typed, <1>1, <1>3, <1>4, <1>5, <1>6, <1>7 DEF IInv, GroupsApart, Same, Jumps,
        OthersStay, Chains, Apart, Tops, Top
<1>14. CountExact'
    BY <1>1, <1>3, <1>4, <1>5, <1>6, <1>7, CountPasses DEF IInv, Same, Jumps, OthersStay
<1> QED BY <1>2, <1>8, <1>9, <1>10, <1>11, <1>12, <1>13, <1>14 DEF IInv

-----------------------------------------------------------------------------
(* try_lock_read and unlock *)

LEMMA TryReadKeeps ==
    ASSUME IInv, NEW t \in Threads, TryLockRead(t), ~ (word.w1 \/ word.w2)
    PROVE  IInv'
<1>1. /\ pc[t] = "idle" /\ ~ word.w1 /\ ~ word.w2 /\ Moves(t, "reading") /\ word'.w1 = word.w1
      /\ word'.w2 = word.w2 /\ word'.rf = word.rf /\ word'.rc = word.rc + 1
      /\ UNCHANGED <<reader_head, writer_head, writer_tail, my_current_writer, wnext>>
      /\ UNCHANGED <<wstatus, rnext, rstatus, below>>
    BY NotNull DEF IInv, TypeOK, Local, TryLockRead, Goto, heads, wnodes, rnodes, Moves,
        OthersStay
<1>2. TypeOK'
    BY LocsAre, NotNull DEF IInv, TypeOK, Nodes, Statuses, TryLockRead, Goto, heads, wnodes,
        rnodes
<1>3. \A u \in Threads : u # t => Same(u)
    BY <1>1, Unmoved DEF Moves, OthersStay
<1>4. /\ ~ Queued(t) /\ ~ Queued(t)' /\ ~ InCharge(t) /\ ~ InCharge(t)' /\ ~ Passing(t)
      /\ ~ Passing(t)' /\ ~ Linked(t) /\ ~ Linked(t)' /\ ~ Stacked(t) /\ ~ Stacked(t)'
      /\ ~ Counted(t) /\ Counted(t)' /\ ~ Holding(t) /\ ~ Holding(t)' /\ ~ Flagged(t)
      /\ ~ Flagged(t)' /\ ~ Opening(t) /\ ~ Opening(t)'
    BY <1>1 DEF Moves, Jumps, Queued, InCharge, Passing, Linked, Stacked, Counted, Holding,
        Flagged, Opening, SetNextLocs, UnblockLocs
<1>5. Local'
    BY NotNull, Typed, <1>1, <1>3, <1>4 DEF IInv, Local, Same, Moves, OthersStay, WritersInLine,
        Passing, Linked, SetNextLocs, UnblockLocs, EndWriteLocs
<1>6. WritersInLine'
    BY NotNull, Typed, <1>1, <1>3, <1>4 DEF IInv, WritersInLine, Same, Moves, OthersStay
<1>7. HeadExact'
    BY NotNull, Typed, <1>1, <1>3, <1>4 DEF IInv, HeadExact, Same, Moves, OthersStay,
        SetNextLocs, UnblockLocs
<1>8. FlagsExact'
    BY NotNull, Typed, <1>1, <1>3, <1>4 DEF IInv, FlagsExact, Same, Moves, OthersStay
<1>9. ReadersAnnounced'
    BY NotNull, Typed, <1>1, <1>3, <1>4 DEF IInv, ReadersAnnounced, Same, Moves, OthersStay
<1>10. GroupsApart'
    BY NotNull, Typed, <1>1, <1>3, <1>4 DEF IInv, GroupsApart, Same, Moves, OthersStay, Chains,
        Apart, Tops, Top
<1>11. CountExact'
    BY <1>1, <1>3, <1>4, CountJoins DEF IInv, Same, Moves, OthersStay
<1> QED BY <1>2, <1>5, <1>6, <1>7, <1>8, <1>9, <1>10, <1>11 DEF IInv

LEMMA TryReadFailsKeeps ==
    ASSUME IInv, NEW t \in Threads, TryLockRead(t), word.w1 \/ word.w2
    PROVE  IInv'
<1>1. /\ pc[t] = "idle" /\ (word.w1 \/ word.w2) /\ Moves(t, "tr_undo") /\ word'.w1 = word.w1
      /\ word'.w2 = word.w2 /\ word'.rf = word.rf /\ word'.rc = word.rc + 1
      /\ UNCHANGED <<reader_head, writer_head, writer_tail, my_current_writer, wnext>>
      /\ UNCHANGED <<wstatus, rnext, rstatus, below>>
    BY NotNull DEF IInv, TypeOK, Local, TryLockRead, Goto, heads, wnodes, rnodes, Moves,
        OthersStay
<1>2. TypeOK'
    BY LocsAre, NotNull DEF IInv, TypeOK, Nodes, Statuses, TryLockRead, Goto, heads, wnodes,
        rnodes
<1>3. \A u \in Threads : u # t => Same(u)
    BY <1>1, Unmoved DEF Moves, OthersStay
<1>4. /\ ~ Queued(t) /\ ~ Queued(t)' /\ ~ InCharge(t) /\ ~ InCharge(t)' /\ ~ Passing(t)
      /\ ~ Passing(t)' /\ ~ Linked(t) /\ ~ Linked(t)' /\ ~ Stacked(t) /\ ~ Stacked(t)'
      /\ ~ Counted(t) /\ Counted(t)' /\ ~ Holding(t) /\ ~ Holding(t)' /\ ~ Flagged(t)
      /\ ~ Flagged(t)' /\ ~ Opening(t) /\ ~ Opening(t)'
    BY <1>1 DEF Moves, Jumps, Queued, InCharge, Passing, Linked, Stacked, Counted, Holding,
        Flagged, Opening, SetNextLocs, UnblockLocs
<1>5. Local'
    BY NotNull, Typed, <1>1, <1>3, <1>4 DEF IInv, Local, Same, Moves, OthersStay, WritersInLine,
        Passing, Linked, SetNextLocs, UnblockLocs, EndWriteLocs
<1>6. WritersInLine'
    BY NotNull, Typed, <1>1, <1>3, <1>4 DEF IInv, WritersInLine, Same, Moves, OthersStay
<1>7. HeadExact'
    BY NotNull, Typed, <1>1, <1>3, <1>4 DEF IInv, HeadExact, Same, Moves, OthersStay,
        SetNextLocs, UnblockLocs
<1>8. FlagsExact'
    BY NotNull, Typed, <1>1, <1>3, <1>4 DEF IInv, FlagsExact, Same, Moves, OthersStay
<1>9. ReadersAnnounced'
    BY NotNull, Typed, <1>1, <1>3, <1>4 DEF IInv, ReadersAnnounced, Same, Moves, OthersStay
<1>10. GroupsApart'
    BY NotNull, Typed, <1>1, <1>3, <1>4 DEF IInv, GroupsApart, Same, Moves, OthersStay, Chains,
        Apart, Tops, Top
<1>11. CountExact'
    BY <1>1, <1>3, <1>4, CountJoins DEF IInv, Same, Moves, OthersStay
<1> QED BY <1>2, <1>5, <1>6, <1>7, <1>8, <1>9, <1>10, <1>11 DEF IInv

LEMMA UnlockWriteKeeps ==
    ASSUME IInv, NEW t \in Threads, Unlock(t), pc[t] = "writing"
    PROVE  IInv'
<1>1. /\ pc[t] = "writing" /\ wstatus[t] = "active" /\ Moves(t, "e_clear")
      /\ UNCHANGED <<word, reader_head, writer_head, writer_tail, my_current_writer>>
      /\ UNCHANGED <<wnext, wstatus, rnext, rstatus, below>>
    BY NotNull DEF IInv, TypeOK, Local, HeadExact, Unlock, Goto, heads, wnodes, rnodes, Moves,
        OthersStay
<1>2. TypeOK'
    BY LocsAre, NotNull DEF IInv, TypeOK, Nodes, Statuses, Unlock, Goto, heads, wnodes, rnodes
<1>3. \A u \in Threads : u # t => Same(u)
    BY <1>1, Unmoved DEF Moves, OthersStay
<1>4. /\ Queued(t) /\ Queued(t)' /\ InCharge(t) /\ InCharge(t)' /\ ~ Passing(t) /\ ~ Passing(t)'
      /\ ~ Linked(t) /\ ~ Linked(t)' /\ ~ Stacked(t) /\ ~ Stacked(t)' /\ ~ Counted(t)
      /\ ~ Counted(t)' /\ Holding(t) /\ Holding(t)' /\ Flagged(t) /\ Flagged(t)' /\ ~ Opening(t)
      /\ ~ Opening(t)'
    BY <1>1 DEF Moves, Jumps, Queued, InCharge, Passing, Linked, Stacked, Counted, Holding,
        Flagged, Opening, SetNextLocs, UnblockLocs
<1>5. Local'
    BY NotNull, Typed, <1>1, <1>3, <1>4 DEF IInv, Local, Same, Moves, OthersStay, WritersInLine,
        Passing, Linked, SetNextLocs, UnblockLocs, EndWriteLocs
<1>6. WritersInLine'
    BY NotNull, Typed, <1>1, <1>3, <1>4 DEF IInv, WritersInLine, Same, Moves, OthersStay
<1>7. HeadExact'
    BY NotNull, Typed, <1>1, <1>3, <1>4 DEF IInv, HeadExact, Same, Moves, OthersStay,
        SetNextLocs, UnblockLocs
<1>8. FlagsExact'
    BY NotNull, Typed, <1>1, <1>3, <1>4 DEF IInv, FlagsExact, Same, Moves, OthersStay
<1>9. ReadersAnnounced'
    BY NotNull, Typed, <1>1, <1>3, <1>4 DEF IInv, ReadersAnnounced, Same, Moves, OthersStay
<1>10. GroupsApart'
    BY NotNull, Typed, <1>1, <1>3, <1>4 DEF IInv, GroupsApart, Same, Moves, OthersStay, Chains,
        Apart, Tops, Top
<1>11. CountExact'
    BY <1>1, <1>3, <1>4, CountStays DEF IInv, Same, Moves, OthersStay
<1> QED BY <1>2, <1>5, <1>6, <1>7, <1>8, <1>9, <1>10, <1>11 DEF IInv

LEMMA UnlockReadKeeps ==
    ASSUME IInv, NEW t \in Threads, Unlock(t), pc[t] = "reading"
    PROVE  IInv'
<1>0. /\ my_current_writer = NULL
    BY NotNull, Typed DEF IInv, HeadExact, FlagsExact, Holding, Counted
<1>1. /\ pc[t] = "reading" /\ Moves(t, "end_read")
      /\ UNCHANGED <<word, reader_head, writer_head, writer_tail, my_current_writer>>
      /\ UNCHANGED <<wnext, wstatus, rnext, rstatus, below>>
    BY NotNull, <1>0 DEF IInv, TypeOK, Local, Unlock, Goto, heads, wnodes, rnodes, Moves,
        OthersStay
<1>2. TypeOK'
    BY LocsAre, NotNull, <1>0 DEF IInv, TypeOK, Nodes, Statuses, Unlock, Goto, heads, wnodes,
        rnodes
<1>3. \A u \in Threads : u # t => Same(u)
    BY <1>1, Unmoved DEF Moves, OthersStay
<1>4. /\ ~ Queued(t) /\ ~ Queued(t)' /\ ~ InCharge(t) /\ ~ InCharge(t)' /\ ~ Passing(t)
      /\ ~ Passing(t)' /\ ~ Linked(t) /\ ~ Linked(t)' /\ ~ Stacked(t) /\ ~ Stacked(t)'
      /\ Counted(t) /\ Counted(t)' /\ ~ Holding(t) /\ ~ Holding(t)' /\ ~ Flagged(t)
      /\ ~ Flagged(t)' /\ ~ Opening(t) /\ ~ Opening(t)'
    BY <1>1 DEF Moves, Jumps, Queued, InCharge, Passing, Linked, Stacked, Counted, Holding,
        Flagged, Opening, SetNextLocs, UnblockLocs
<1>5. Local'
    BY NotNull, Typed, <1>1, <1>3, <1>4 DEF IInv, Local, Same, Moves, OthersStay, WritersInLine,
        Passing, Linked, SetNextLocs, UnblockLocs, EndWriteLocs
<1>6. WritersInLine'
    BY NotNull, Typed, <1>1, <1>3, <1>4 DEF IInv, WritersInLine, Same, Moves, OthersStay
<1>7. HeadExact'
    BY NotNull, Typed, <1>1, <1>3, <1>4 DEF IInv, HeadExact, Same, Moves, OthersStay,
        SetNextLocs, UnblockLocs
<1>8. FlagsExact'
    BY NotNull, Typed, <1>1, <1>3, <1>4 DEF IInv, FlagsExact, Same, Moves, OthersStay
<1>9. ReadersAnnounced'
    BY NotNull, Typed, <1>1, <1>3, <1>4 DEF IInv, ReadersAnnounced, Same, Moves, OthersStay
<1>10. GroupsApart'
    BY NotNull, Typed, <1>1, <1>3, <1>4 DEF IInv, GroupsApart, Same, Moves, OthersStay, Chains,
        Apart, Tops, Top
<1>11. CountExact'
    BY <1>1, <1>3, <1>4, CountStays DEF IInv, Same, Moves, OthersStay
<1> QED BY <1>2, <1>5, <1>6, <1>7, <1>8, <1>9, <1>10, <1>11 DEF IInv

LEMMA EndReadKeeps ==
    ASSUME IInv, NEW t \in Threads, LeaveCount(t), pc[t] = "end_read"
    PROVE  IInv'
<1>1. /\ pc[t] = "end_read" /\ word.rc \in Nat \ {0} /\ Moves(t, "idle") /\ word'.w1 = word.w1
      /\ word'.w2 = word.w2 /\ word'.rf = word.rf /\ word'.rc = word.rc - 1
      /\ UNCHANGED <<reader_head, writer_head, writer_tail, my_current_writer, wnext>>
      /\ UNCHANGED <<wstatus, rnext, rstatus, below>>
    BY NotNull, CountPositive DEF IInv, TypeOK, Local, Counted, LeaveCount, Goto, heads, wnodes,
        rnodes, Moves, OthersStay
<1>2. TypeOK'
    BY LocsAre, NotNull, <1>1 DEF IInv, TypeOK, Nodes, Statuses, LeaveCount, Goto, heads,
        wnodes, rnodes
<1>3. \A u \in Threads : u # t => Same(u)
    BY <1>1, Unmoved DEF Moves, OthersStay
<1>4. /\ ~ Queued(t) /\ ~ Queued(t)' /\ ~ InCharge(t) /\ ~ InCharge(t)' /\ ~ Passing(t)
      /\ ~ Passing(t)' /\ ~ Linked(t) /\ ~ Linked(t)' /\ ~ Stacked(t) /\ ~ Stacked(t)'
      /\ Counted(t) /\ ~ Counted(t)' /\ ~ Holding(t) /\ ~ Holding(t)' /\ ~ Flagged(t)
      /\ ~ Flagged(t)' /\ ~ Opening(t) /\ ~ Opening(t)'
    BY <1>1 DEF Moves, Jumps, Queued, InCharge, Passing, Linked, Stacked, Counted, Holding,
        Flagged, Opening, SetNextLocs, UnblockLocs
<1>5. Local'
    BY NotNull, Typed, <1>1, <1>3, <1>4 DEF IInv, Local, Same, Moves, OthersStay, WritersInLine,
        Passing, Linked, SetNextLocs, UnblockLocs, EndWriteLocs
<1>6. WritersInLine'
    BY NotNull, Typed, <1>1, <1>3, <1>4 DEF IInv, WritersInLine, Same, Moves, OthersStay
<1>7. HeadExact'
    BY NotNull, Typed, <1>1, <1>3, <1>4 DEF IInv, HeadExact, Same, Moves, OthersStay,
        SetNextLocs, UnblockLocs
<1>8. FlagsExact'
    BY NotNull, Typed, <1>1, <1>3, <1>4 DEF IInv, FlagsExact, Same, Moves, OthersStay
<1>9. ReadersAnnounced'
    BY NotNull, Typed, <1>1, <1>3, <1>4 DEF IInv, ReadersAnnounced, Same, Moves, OthersStay
<1>10. GroupsApart'
    BY NotNull, Typed, <1>1, <1>3, <1>4 DEF IInv, GroupsApart, Same, Moves, OthersStay, Chains,
        Apart, Tops, Top
<1>11. CountExact'
    BY <1>1, <1>3, <1>4, CountLeaves DEF IInv, Same, Moves, OthersStay
<1> QED BY <1>2, <1>5, <1>6, <1>7, <1>8, <1>9, <1>10, <1>11 DEF IInv

LEMMA TryUndoKeeps ==
    ASSUME IInv, NEW t \in Threads, LeaveCount(t), pc[t] = "tr_undo"
    PROVE  IInv'
<1>1. /\ pc[t] = "tr_undo" /\ word.rc \in Nat \ {0} /\ Moves(t, "idle") /\ word'.w1 = word.w1
      /\ word'.w2 = word.w2 /\ word'.rf = word.rf /\ word'.rc = word.rc - 1
      /\ UNCHANGED <<reader_head, writer_head, writer_tail, my_current_writer, wnext>>
      /\ UNCHANGED <<wstatus, rnext, rstatus, below>>
    BY NotNull, CountPositive DEF IInv, TypeOK, Local, Counted, LeaveCount, Goto, heads, wnodes,
        rnodes, Moves, OthersStay
<1>2. TypeOK'
    BY LocsAre, NotNull, <1>1 DEF IInv, TypeOK, Nodes, Statuses, LeaveCount, Goto, heads,
        wnodes, rnodes
<1>3. \A u \in Threads : u # t => Same(u)
    BY <1>1, Unmoved DEF Moves, OthersStay
<1>4. /\ ~ Queued(t) /\ ~ Queued(t)' /\ ~ InCharge(t) /\ ~ InCharge(t)' /\ ~ Passing(t)
      /\ ~ Passing(t)' /\ ~ Linked(t) /\ ~ Linked(t)' /\ ~ Stacked(t) /\ ~ Stacked(t)'
      /\ Counted(t) /\ ~ Counted(t)' /\ ~ Holding(t) /\ ~ Holding(t)' /\ ~ Flagged(t)
      /\ ~ Flagged(t)' /\ ~ Opening(t) /\ ~ Opening(t)'
    BY <1>1 DEF Moves, Jumps, Queued, InCharge, Passing, Linked, Stacked, Counted, Holding,
        Flagged, Opening, SetNextLocs, UnblockLocs
<1>5. Local'
    BY NotNull, Typed, <1>1, <1>3, <1>4 DEF IInv, Local, Same, Moves, OthersStay, WritersInLine,
        Passing, Linked, SetNextLocs, UnblockLocs, EndWriteLocs
<1>6. WritersInLine'
    BY NotNull, Typed, <1>1, <1>3, <1>4 DEF IInv, WritersInLine, Same, Moves, OthersStay
<1>7. HeadExact'
    BY NotNull, Typed, <1>1, <1>3, <1>4 DEF IInv, HeadExact, Same, Moves, OthersStay,
        SetNextLocs, UnblockLocs
<1>8. FlagsExact'
    BY NotNull, Typed, <1>1, <1>3, <1>4 DEF IInv, FlagsExact, Same, Moves, OthersStay
<1>9. ReadersAnnounced'
    BY NotNull, Typed, <1>1, <1>3, <1>4 DEF IInv, ReadersAnnounced, Same, Moves, OthersStay
<1>10. GroupsApart'
    BY NotNull, Typed, <1>1, <1>3, <1>4 DEF IInv, GroupsApart, Same, Moves, OthersStay, Chains,
        Apart, Tops, Top
<1>11. CountExact'
    BY <1>1, <1>3, <1>4, CountLeaves DEF IInv, Same, Moves, OthersStay
<1> QED BY <1>2, <1>5, <1>6, <1>7, <1>8, <1>9, <1>10, <1>11 DEF IInv

-----------------------------------------------------------------------------
(* end_write *)

LEMMA ClearWriterKeeps ==
    ASSUME IInv, NEW t \in Threads, ClearWriter(t)
    PROVE  IInv'
<1>1. /\ pc[t] = "e_clear" /\ wstatus[t] = "active" /\ Moves(t, "e_next")
      /\ my_current_writer' = NULL
      /\ UNCHANGED <<word, reader_head, writer_head, writer_tail, wnext>>
      /\ UNCHANGED <<wstatus, rnext, rstatus, below>>
    BY NotNull DEF IInv, TypeOK, Local, EndWriteLocs, ClearWriter, Goto, heads, wnodes, rnodes,
        Moves, OthersStay
<1>2. TypeOK'
    BY LocsAre, NotNull DEF IInv, TypeOK, Nodes, Statuses, ClearWriter, Goto, heads, wnodes,
        rnodes
<1>3. \A u \in Threads : u # t => Same(u)
    BY <1>1, Unmoved DEF Moves, OthersStay
<1>4. /\ Queued(t) /\ Queued(t)' /\ InCharge(t) /\ InCharge(t)' /\ ~ Passing(t) /\ ~ Passing(t)'
      /\ ~ Linked(t) /\ ~ Linked(t)' /\ ~ Stacked(t) /\ ~ Stacked(t)' /\ ~ Counted(t)
      /\ ~ Counted(t)' /\ Holding(t) /\ Holding(t)' /\ Flagged(t) /\ Flagged(t)' /\ ~ Opening(t)
      /\ ~ Opening(t)'
    BY <1>1 DEF Moves, Jumps, Queued, InCharge, Passing, Linked, Stacked, Counted, Holding,
        Flagged, Opening, SetNextLocs, UnblockLocs
<1>5. Local'
    BY NotNull, Typed, <1>1, <1>3, <1>4 DEF IInv, Local, Same, Moves, OthersStay, WritersInLine,
        Passing, Linked, SetNextLocs, UnblockLocs, EndWriteLocs
<1>6. WritersInLine'
    BY NotNull, Typed, <1>1, <1>3, <1>4 DEF IInv, WritersInLine, Same, Moves, OthersStay
<1>7. HeadExact'
    BY NotNull, Typed, <1>1, <1>3, <1>4 DEF IInv, HeadExact, Same, Moves, OthersStay,
        SetNextLocs, UnblockLocs
<1>8. FlagsExact'
    BY NotNull, Typed, <1>1, <1>3, <1>4 DEF IInv, FlagsExact, Same, Moves, OthersStay
<1>9. ReadersAnnounced'
    BY NotNull, Typed, <1>1, <1>3, <1>4 DEF IInv, ReadersAnnounced, Same, Moves, OthersStay
<1>10. GroupsApart'
    BY NotNull, Typed, <1>1, <1>3, <1>4 DEF IInv, GroupsApart, Same, Moves, OthersStay, Chains,
        Apart, Tops, Top
<1>11. CountExact'
    BY <1>1, <1>3, <1>4, CountStays DEF IInv, Same, Moves, OthersStay
<1> QED BY <1>2, <1>5, <1>6, <1>7, <1>8, <1>9, <1>10, <1>11 DEF IInv

LEMMA NextThereKeeps ==
    ASSUME IInv, NEW t \in Threads, TestNext(t), wnext[t] # NULL
    PROVE  IInv'
<1>1. /\ pc[t] = "e_next" /\ wstatus[t] = "active" /\ wnext[t] # NULL /\ Moves(t, "e_give")
      /\ writer_head' = wnext[t]
      /\ UNCHANGED <<word, reader_head, writer_tail, my_current_writer, wnext>>
      /\ UNCHANGED <<wstatus, rnext, rstatus, below>>
    BY NotNull DEF IInv, TypeOK, Local, EndWriteLocs, TestNext, Goto, heads, wnodes, rnodes,
        Moves, OthersStay
<1>2. TypeOK'
    BY LocsAre, NotNull DEF IInv, TypeOK, Nodes, Statuses, TestNext, Goto, heads, wnodes, rnodes
<1>3. \A u \in Threads : u # t => Same(u)
    BY <1>1, Unmoved DEF Moves, OthersStay
<1>4. /\ Queued(t) /\ ~ Queued(t)' /\ InCharge(t) /\ InCharge(t)' /\ ~ Passing(t)
      /\ ~ Passing(t)' /\ ~ Linked(t) /\ ~ Linked(t)' /\ ~ Stacked(t) /\ ~ Stacked(t)'
      /\ ~ Counted(t) /\ ~ Counted(t)' /\ Holding(t) /\ Holding(t)' /\ Flagged(t) /\ Flagged(t)'
      /\ ~ Opening(t) /\ ~ Opening(t)'
    BY <1>1 DEF Moves, Jumps, Queued, InCharge, Passing, Linked, Stacked, Counted, Holding,
        Flagged, Opening, SetNextLocs, UnblockLocs
<1>5. Local'
    BY NotNull, Typed, <1>1, <1>3, <1>4 DEF IInv, Local, Same, Moves, OthersStay, WritersInLine,
        Passing, Linked, SetNextLocs, UnblockLocs, EndWriteLocs
<1>6. WritersInLine'
    BY NotNull, Typed, <1>1, <1>3, <1>4 DEF IInv, WritersInLine, Same, Moves, OthersStay
<1>7. HeadExact'
    BY NotNull, Typed, <1>1, <1>3, <1>4, Parts DEF IInv, HeadExact, Same, Moves, OthersStay,
        SetNextLocs, UnblockLocs, WritersInLine
<1>8. FlagsExact'
    BY NotNull, Typed, <1>1, <1>3, <1>4 DEF IInv, FlagsExact, Same, Moves, OthersStay
<1>9. ReadersAnnounced'
    BY NotNull, Typed, <1>1, <1>3, <1>4 DEF IInv, ReadersAnnounced, Same, Moves, OthersStay
<1>10. GroupsApart'
    BY NotNull, Typed, <1>1, <1>3, <1>4 DEF IInv, GroupsApart, Same, Moves, OthersStay, Chains,
        Apart, Tops, Top
<1>11. CountExact'
    BY <1>1, <1>3, <1>4, CountStays DEF IInv, Same, Moves, OthersStay
<1> QED BY <1>2, <1>5, <1>6, <1>7, <1>8, <1>9, <1>10, <1>11 DEF IInv

LEMMA NoNextKeeps ==
    ASSUME IInv, NEW t \in Threads, TestNext(t), wnext[t] = NULL
    PROVE  IInv'
<1>1. /\ pc[t] = "e_next" /\ wstatus[t] = "active" /\ wnext[t] = NULL /\ Moves(t, "e_and")
      /\ UNCHANGED <<word, reader_head, writer_head, writer_tail, my_current_writer>>
      /\ UNCHANGED <<wnext, wstatus, rnext, rstatus, below>>
    BY NotNull DEF IInv, TypeOK, Local, EndWriteLocs, TestNext, Goto, heads, wnodes, rnodes,
        Moves, OthersStay
<1>2. TypeOK'
    BY LocsAre, NotNull DEF IInv, TypeOK, Nodes, Statuses, TestNext, Goto, heads, wnodes, rnodes
<1>3. \A u \in Threads : u # t => Same(u)
    BY <1>1, Unmoved DEF Moves, OthersStay
<1>4. /\ Queued(t) /\ Queued(t)' /\ InCharge(t) /\ InCharge(t)' /\ ~ Passing(t) /\ ~ Passing(t)'
      /\ ~ Linked(t) /\ ~ Linked(t)' /\ ~ Stacked(t) /\ ~ Stacked(t)' /\ ~ Counted(t)
      /\ ~ Counted(t)' /\ Holding(t) /\ Holding(t)' /\ Flagged(t) /\ Flagged(t)' /\ ~ Opening(t)
      /\ ~ Opening(t)'
    BY <1>1 DEF Moves, Jumps, Queued, InCharge, Passing, Linked, Stacked, Counted, Holding,
        Flagged, Opening, SetNextLocs, UnblockLocs
<1>5. Local'
    BY NotNull, Typed, <1>1, <1>3, <1>4 DEF IInv, Local, Same, Moves, OthersStay, WritersInLine,
        Passing, Linked, SetNextLocs, UnblockLocs, EndWriteLocs
<1>6. WritersInLine'
    BY NotNull, Typed, <1>1, <1>3, <1>4 DEF IInv, WritersInLine, Same, Moves, OthersStay
<1>7. HeadExact'
    BY NotNull, Typed, <1>1, <1>3, <1>4 DEF IInv, HeadExact, Same, Moves, OthersStay,
        SetNextLocs, UnblockLocs
<1>8. FlagsExact'
    BY NotNull, Typed, <1>1, <1>3, <1>4 DEF IInv, FlagsExact, Same, Moves, OthersStay
<1>9. ReadersAnnounced'
    BY NotNull, Typed, <1>1, <1>3, <1>4 DEF IInv, ReadersAnnounced, Same, Moves, OthersStay
<1>10. GroupsApart'
    BY NotNull, Typed, <1>1, <1>3, <1>4 DEF IInv, GroupsApart, Same, Moves, OthersStay, Chains,
        Apart, Tops, Top
<1>11. CountExact'
    BY <1>1, <1>3, <1>4, CountStays DEF IInv, Same, Moves, OthersStay
<1> QED BY <1>2, <1>5, <1>6, <1>7, <1>8, <1>9, <1>10, <1>11 DEF IInv

LEMMA GiveToWriterKeeps ==
    ASSUME IInv, NEW t \in Threads, GiveToWriter(t)
    PROVE  IInv'
<1>1. /\ pc[t] = "e_give" /\ wstatus[t] = "active" /\ writer_head = wnext[t]
      /\ wnext[t] \in Threads \ {t} /\ Moves(t, "e_free") /\ wstatus'[wnext[t]] = "active"
      /\ (\A u \in Threads : u # wnext[t] => wstatus'[u] = wstatus[u])
      /\ UNCHANGED <<word, reader_head, writer_head, writer_tail, my_current_writer>>
      /\ UNCHANGED <<wnext, rnext, rstatus, below>>
    BY NotNull DEF IInv, TypeOK, Local, EndWriteLocs, WritersInLine, HeadExact, Linked,
        GiveToWriter, Goto, heads, wnodes, rnodes, Moves, OthersStay
<1>2. TypeOK'
    BY LocsAre, NotNull DEF IInv, TypeOK, Nodes, Statuses, GiveToWriter, Goto, heads, wnodes,
        rnodes
<1>3. \A u \in Threads : u # t /\ u # wnext[t] => Same(u)
    BY <1>1, Unmoved DEF Moves, OthersStay
<1>4. /\ ~ Queued(t) /\ ~ Queued(t)' /\ InCharge(t) /\ ~ InCharge(t)' /\ ~ Passing(t)
      /\ ~ Passing(t)' /\ ~ Linked(t) /\ ~ Linked(t)' /\ ~ Stacked(t) /\ ~ Stacked(t)'
      /\ ~ Counted(t) /\ ~ Counted(t)' /\ Holding(t) /\ ~ Holding(t)' /\ Flagged(t)
      /\ ~ Flagged(t)' /\ ~ Opening(t) /\ ~ Opening(t)'
    BY <1>1 DEF Moves, Jumps, Queued, InCharge, Passing, Linked, Stacked, Counted, Holding,
        Flagged, Opening, SetNextLocs, UnblockLocs
<1>5. PICK s \in Threads : s = wnext[t] /\ s # t
    BY <1>1
<1>6. /\ pc[s] = "w_spin" /\ wstatus[s] = "waiting" /\ pc'[s] = "w_spin"
    BY <1>1, <1>5 DEF IInv, WritersInLine, Linked, Moves, OthersStay
<1>7. /\ wstatus'[s] = "active" /\ Queued(s) /\ Queued(s)' /\ ~ InCharge(s) /\ InCharge(s)'
      /\ ~ Passing(s) /\ ~ Passing(s)' /\ Linked(s) /\ ~ Linked(s)' /\ ~ Stacked(s)
      /\ ~ Stacked(s)' /\ ~ Counted(s) /\ ~ Counted(s)' /\ ~ Holding(s) /\ Holding(s)'
      /\ ~ Flagged(s) /\ Flagged(s)' /\ ~ Opening(s) /\ ~ Opening(s)'
    BY <1>1, <1>5, <1>6 DEF Queued, InCharge, Passing, Linked, Stacked, Counted, Holding,
        Flagged, Opening, SetNextLocs, UnblockLocs
<1>8. Local'
    BY NotNull, Typed, <1>1, <1>3, <1>4, <1>5, <1>6, <1>7, Parts DEF IInv, Local, Same, Moves,
        OthersStay, WritersInLine, Passing, Linked, SetNextLocs, UnblockLocs, EndWriteLocs
<1>9. WritersInLine'
    BY NotNull, Typed, <1>1, <1>3, <1>4, <1>5, <1>6, <1>7, Parts DEF IInv, WritersInLine, Same,
        Moves, OthersStay
<1>10. HeadExact'
    BY NotNull, Typed, <1>1, <1>3, <1>4, <1>5, <1>6, <1>7 DEF IInv, HeadExact, Same, Moves,
        OthersStay, SetNextLocs, UnblockLocs
<1>11. FlagsExact'
    BY NotNull, Typed, <1>1, <1>3, <1>4, <1>5, <1>6, <1>7 DEF IInv, FlagsExact, Same, Moves,
        OthersStay
<1>12. ReadersAnnounced'
    BY NotNull, Typed, <1>1, <1>3, <1>4, <1>5, <1>6, <1>7 DEF IInv, ReadersAnnounced, Same,
        Moves, OthersStay
<1>13. GroupsApart'
    BY NotNull, Typed, <1>1, <1>3, <1>4, <1>5, <1>6, <1>7 DEF IInv, GroupsApart, Same, Moves,
        OthersStay, Chains, Apart, Tops, Top
<1>14. CountExact'
    BY <1>1, <1>3, <1>4, <1>5, <1>6, <1>7, CountStays DEF IInv, Same, Moves, OthersStay
<1> QED BY <1>2, <1>8, <1>9, <1>10, <1>11, <1>12, <1>13, <1>14 DEF IInv

LEMMA ClearFlagsUnblockKeeps ==
    ASSUME IInv, NEW t \in Threads, ClearFlags(t), word.rf
    PROVE  IInv'
<1>0. /\ pc[t] = "e_and" /\ Jump(t, "b_add", NULL, "e_head")
      /\ word' = [w1 |-> FALSE, w2 |-> FALSE, rf |-> word.rf, rc |-> word.rc]
      /\ UNCHANGED <<heads, wnodes, rnodes>>
    BY  DEF IInv, TypeOK, CallUnblock, ClearFlags
<1>1. /\ pc[t] = "e_and" /\ wstatus[t] = "active" /\ word.rf
      /\ Jumps(t, "b_add", NULL, "e_head") /\ word'.w1 = FALSE /\ word'.w2 = FALSE
      /\ word'.rf = word.rf /\ word'.rc = word.rc
      /\ UNCHANGED <<reader_head, writer_head, writer_tail, my_current_writer, wnext>>
      /\ UNCHANGED <<wstatus, rnext, rstatus, below>>
    BY NotNull, <1>0 DEF IInv, TypeOK, Local, EndWriteLocs, Jump, heads, wnodes, rnodes, Jumps,
        OthersStay
<1>2. TypeOK'
    BY LocsAre, NotNull, <1>0 DEF IInv, TypeOK, Nodes, Statuses, Jump, heads, wnodes, rnodes
<1>3. \A u \in Threads : u # t => Same(u)
    BY <1>1, Unmoved DEF Jumps, OthersStay
<1>4. /\ Queued(t) /\ Queued(t)' /\ InCharge(t) /\ InCharge(t)' /\ ~ Passing(t) /\ ~ Passing(t)'
      /\ ~ Linked(t) /\ ~ Linked(t)' /\ ~ Stacked(t) /\ ~ Stacked(t)' /\ ~ Counted(t)
      /\ ~ Counted(t)' /\ Holding(t) /\ ~ Holding(t)' /\ Flagged(t) /\ ~ Flagged(t)'
      /\ ~ Opening(t) /\ Opening(t)'
    BY <1>1 DEF Moves, Jumps, Queued, InCharge, Passing, Linked, Stacked, Counted, Holding,
        Flagged, Opening, SetNextLocs, UnblockLocs
<1>5. Local'
    BY NotNull, Typed, <1>1, <1>3, <1>4 DEF IInv, Local, Same, Jumps, OthersStay, WritersInLine,
        Passing, Linked, SetNextLocs, UnblockLocs, EndWriteLocs
<1>6. WritersInLine'
    BY NotNull, Typed, <1>1, <1>3, <1>4 DEF IInv, WritersInLine, Same, Jumps, OthersStay
<1>7. HeadExact'
    BY NotNull, Typed, <1>1, <1>3, <1>4 DEF IInv, HeadExact, Same, Jumps, OthersStay,
        SetNextLocs, UnblockLocs
<1>8. FlagsExact'
    BY NotNull, Typed, <1>1, <1>3, <1>4, Parts DEF IInv, FlagsExact, Same, Jumps, OthersStay,
        WritersInLine
<1>9. ReadersAnnounced'
    BY NotNull, Typed, <1>1, <1>3, <1>4 DEF IInv, ReadersAnnounced, Same, Jumps, OthersStay,
        FlagsExact
<1>10. GroupsApart'
    BY NotNull, Typed, <1>1, <1>3, <1>4 DEF IInv, GroupsApart, Same, Jumps, OthersStay, Chains,
        Apart, Tops, Top
<1>11. CountExact'
    BY <1>1, <1>3, <1>4, CountStays DEF IInv, Same, Jumps, OthersStay
<1> QED BY <1>2, <1>5, <1>6, <1>7, <1>8, <1>9, <1>10, <1>11 DEF IInv

LEMMA ClearFlagsKeeps ==
    ASSUME IInv, NEW t \in Threads, ClearFlags(t), ~ word.rf
    PROVE  IInv'
<1>0. /\ pc[t] = "e_and" /\ Goto(t, "e_head")
      /\ word' = [w1 |-> FALSE, w2 |-> FALSE, rf |-> word.rf, rc |-> word.rc]
      /\ UNCHANGED <<heads, wnodes, rnodes>>
    BY  DEF IInv, TypeOK, ClearFlags
<1>1. /\ pc[t] = "e_and" /\ wstatus[t] = "active" /\ ~ word.rf /\ Moves(t, "e_head")
      /\ word'.w1 = FALSE /\ word'.w2 = FALSE /\ word'.rf = word.rf /\ word'.rc = word.rc
      /\ UNCHANGED <<reader_head, writer_head, writer_tail, my_current_writer, wnext>>
      /\ UNCHANGED <<wstatus, rnext, rstatus, below>>
    BY NotNull, <1>0 DEF IInv, TypeOK, Local, EndWriteLocs, Goto, heads, wnodes, rnodes, Moves,
        OthersStay
<1>2. TypeOK'
    BY LocsAre, NotNull, <1>0 DEF IInv, TypeOK, Nodes, Statuses, Goto, heads, wnodes, rnodes
<1>3. \A u \in Threads : u # t => Same(u)
    BY <1>1, Unmoved DEF Moves, OthersStay
<1>4. /\ Queued(t) /\ Queued(t)' /\ InCharge(t) /\ InCharge(t)' /\ ~ Passing(t) /\ ~ Passing(t)'
      /\ ~ Linked(t) /\ ~ Linked(t)' /\ ~ Stacked(t) /\ ~ Stacked(t)' /\ ~ Counted(t)
      /\ ~ Counted(t)' /\ Holding(t) /\ ~ Holding(t)' /\ Flagged(t) /\ ~ Flagged(t)'
      /\ ~ Opening(t) /\ ~ Opening(t)'
    BY <1>1 DEF Moves, Jumps, Queued, InCharge, Passing, Linked, Stacked, Counted, Holding,
        Flagged, Opening, SetNextLocs, UnblockLocs
<1>5. Local'
    BY NotNull, Typed, <1>1, <1>3, <1>4 DEF IInv, Local, Same, Moves, OthersStay, WritersInLine,
        Passing, Linked, SetNextLocs, UnblockLocs, EndWriteLocs
<1>6. WritersInLine'
    BY NotNull, Typed, <1>1, <1>3, <1>4 DEF IInv, WritersInLine, Same, Moves, OthersStay
<1>7. HeadExact'
    BY NotNull, Typed, <1>1, <1>3, <1>4 DEF IInv, HeadExact, Same, Moves, OthersStay,
        SetNextLocs, UnblockLocs
<1>8. FlagsExact'
    BY NotNull, Typed, <1>1, <1>3, <1>4, Parts DEF IInv, FlagsExact, Same, Moves, OthersStay,
        WritersInLine
<1>9. ReadersAnnounced'
    BY NotNull, Typed, <1>1, <1>3, <1>4 DEF IInv, ReadersAnnounced, Same, Moves, OthersStay
<1>10. GroupsApart'
    BY NotNull, Typed, <1>1, <1>3, <1>4 DEF IInv, GroupsApart, Same, Moves, OthersStay, Chains,
        Apart, Tops, Top
<1>11. CountExact'
    BY <1>1, <1>3, <1>4, CountStays DEF IInv, Same, Moves, OthersStay
<1> QED BY <1>2, <1>5, <1>6, <1>7, <1>8, <1>9, <1>10, <1>11 DEF IInv

LEMMA Stutters == IInv /\ UNCHANGED vars => IInv'
<1> SUFFICES ASSUME IInv, UNCHANGED vars PROVE IInv'
    OBVIOUS
<1>1. /\ UNCHANGED <<word, reader_head, writer_head, writer_tail, my_current_writer>>
      /\ UNCHANGED <<wnext, wstatus, rnext, rstatus, below, pc, node, back>>
    BY DEF vars, heads, wnodes, rnodes, control
<1>2. \A u \in Threads : Same(u)
    BY <1>1, Unmoved
<1>3. TypeOK'
    BY <1>1 DEF IInv, TypeOK
<1>4. Local'
    BY <1>1, <1>2 DEF IInv, Local, Same
<1>5. WritersInLine'
    BY <1>1, <1>2, Typed DEF IInv, WritersInLine, Same
<1>6. HeadExact'
    BY <1>1, <1>2 DEF IInv, HeadExact, Same
<1>7. FlagsExact'
    BY <1>1, <1>2 DEF IInv, FlagsExact, Same
<1>8. ReadersAnnounced'
    BY <1>1, <1>2 DEF IInv, ReadersAnnounced, Same
<1>9. GroupsApart'
    BY <1>1, <1>2 DEF IInv, GroupsApart, Chains, Apart, Tops, Top, Same
<1>10. CountExact'
    BY <1>1, <1>2, CountStays DEF IInv, Same
<1> QED BY <1>3, <1>4, <1>5, <1>6, <1>7, <1>8, <1>9, <1>10 DEF IInv

LEMMA Starts == Init => IInv
<1> SUFFICES ASSUME Init PROVE IInv
    OBVIOUS
<1>1. \A t \in Threads : pc[t] = "idle"
    BY DEF Init
<1>2. \A t \in Threads : /\ ~ Queued(t) /\ ~ InCharge(t) /\ ~ Passing(t) /\ ~ Linked(t)
                         /\ ~ Stacked(t) /\ ~ Counted(t) /\ ~ Holding(t) /\ ~ Flagged(t)
                         /\ ~ Opening(t)
    BY <1>1 DEF Queued, InCharge, Passing, Linked, Stacked, Counted, Holding, Flagged, Opening,
        SetNextLocs, UnblockLocs
<1>3. TypeOK
    BY LocsAre DEF Init, TypeOK, Free, Nodes, Statuses
<1>4. Local
    BY <1>1, <1>2 DEF Local, SetNextLocs, UnblockLocs, EndWriteLocs
<1>5. WritersInLine
    BY <1>1, <1>2 DEF WritersInLine, Init
<1>6. HeadExact
    BY <1>1, <1>2, NotNull DEF HeadExact, Init, SetNextLocs, UnblockLocs
<1>7. FlagsExact
    BY <1>1, <1>2 DEF FlagsExact, Init, Free
<1>8. ReadersAnnounced
    BY <1>1, <1>2 DEF ReadersAnnounced, Init, Free
<1>9. GroupsApart
    BY <1>1, <1>2 DEF GroupsApart, Chains, Apart, Tops, Init
<1>10. AllCounted = {} /\ Waking = {}
    BY <1>1, <1>2 DEF AllCounted, Waking
<1>11. CountExact
    BY <1>10, CountIs, FS_EmptySet DEF Init, Free
<1> QED BY <1>3, <1>4, <1>5, <1>6, <1>7, <1>8, <1>9, <1>11 DEF IInv

LEMMA Kept == IInv /\ [Next]_vars => IInv'
<1> SUFFICES ASSUME IInv, [Next]_vars PROVE IInv'
    OBVIOUS
<1>0. /\ "s_active" \in SetNextLocs /\ "b_wake" \in UnblockLocs
    BY DEF SetNextLocs, UnblockLocs
<1>1. ASSUME NEW t \in Threads, Lock(t) PROVE IInv'
    BY <1>1, LockKeeps
<1>2. ASSUME NEW t \in Threads, TryLock(t) PROVE IInv'
    BY <1>2, TryLockKeeps
<1>3. ASSUME NEW t \in Threads, SwapTail(t) PROVE IInv'
    BY <1>3, SwapTailFirstKeeps, SwapTailBehindKeeps
<1>4. ASSUME NEW t \in Threads, TryTail(t) PROVE IInv'
    BY <1>4, TryTailFirstKeeps, TryTailFailsKeeps
<1>5. ASSUME NEW t \in Threads, LinkWriter(t) PROVE IInv'
    BY <1>5, LinkWriterKeeps
<1>6. ASSUME NEW t \in Threads, FirstWriter(t) PROVE IInv'
    BY <1>6, FirstActiveKeeps, FirstFailsKeeps, FirstPassesKeeps DEF FirstWriter
<1>7. ASSUME NEW t \in Threads, SpinWriter(t) PROVE IInv'
    BY <1>7, SpinWriterKeeps
<1>8. ASSUME NEW t \in Threads, ClearHead(t, "f_head", "f_cas") PROVE IInv'
    BY <1>8, FailHeadKeeps
<1>9. ASSUME NEW t \in Threads, ClearHead(t, "e_head", "e_cas") PROVE IInv'
    BY <1>9, EndHeadKeeps
<1>10. ASSUME NEW t \in Threads, ClearTail(t, "f_cas", "f_wait", "f_free") PROVE IInv'
    BY <1>10, FailTailLastKeeps, FailTailWaitsKeeps
<1>11. ASSUME NEW t \in Threads, ClearTail(t, "e_cas", "e_wait", "e_free") PROVE IInv'
    BY <1>11, EndTailLastKeeps, EndTailWaitsKeeps
<1>12. ASSUME NEW t \in Threads, AwaitNext(t, "f_wait", "f_free") PROVE IInv'
    BY <1>12, FailNextKeeps
<1>13. ASSUME NEW t \in Threads, AwaitNext(t, "e_wait", "e_free") PROVE IInv'
    BY <1>13, EndNextKeeps
<1>14. ASSUME NEW t \in Threads, DeleteNode(t, "f_free") PROVE IInv'
    BY <1>14, FailFreeKeeps
<1>15. ASSUME NEW t \in Threads, DeleteNode(t, "e_free") PROVE IInv'
    BY <1>15, EndFreeKeeps
<1>16. ASSUME NEW t \in Threads, SetHead(t) PROVE IInv'
    BY <1>16, SetHeadTryKeeps, SetHeadKeeps
<1>17. ASSUME NEW t \in Threads, SetByTry(t) PROVE IInv'
    BY <1>17, SetByTryWinsKeeps, SetByTryFailsKeeps
<1>18. ASSUME NEW t \in Threads, SetFlag1(t) PROVE IInv'
    BY <1>18, SetFlag1WaitsKeeps, SetFlag1Keeps
<1>19. ASSUME NEW t \in Threads, AwaitFlag2(t) PROVE IInv'
    BY <1>19, AwaitFlag2Keeps
<1>20. ASSUME NEW t \in Threads, SetFlag2(t) PROVE IInv'
    BY <1>20, SetFlag2Keeps
<1>21. ASSUME NEW t \in Threads, AwaitReaders(t) PROVE IInv'
    BY <1>21, AwaitReadersKeeps
<1>22. ASSUME NEW t \in Threads, Activate(t) PROVE IInv'
    BY <1>22, <1>0, ActivateSelfKeeps, ActivateByTryKeeps, ActivateAtEndKeeps DEF Activate,
        IInv, Local
<1>23. ASSUME NEW t \in Threads, LockRead(t) PROVE IInv'
    BY <1>23, LockReadKeeps
<1>24. ASSUME NEW t \in Threads, PushReader(t) PROVE IInv'
    BY <1>24, PushFirstKeeps, PushOnKeeps
<1>25. ASSUME NEW t \in Threads, FirstReader(t) PROVE IInv'
    BY <1>25, FirstReaderKeeps, FirstReaderYieldsKeeps
<1>26. ASSUME NEW t \in Threads, SpinReader(t) PROVE IInv'
    BY <1>26, SpinLastKeeps, SpinMoreKeeps DEF SpinReader
<1>27. ASSUME NEW t \in Threads, CountSuccessor(t) PROVE IInv'
    BY <1>27, CountSuccessorKeeps
<1>28. ASSUME NEW t \in Threads, WakeSuccessor(t) PROVE IInv'
    BY <1>28, WakeSuccessorKeeps
<1>29. ASSUME NEW t \in Threads, CountGroup(t) PROVE IInv'
    BY <1>29, CountGroupKeeps
<1>30. ASSUME NEW t \in Threads, TestWindow(t) PROVE IInv'
    BY <1>30, Window1Keeps, NoWindow1Keeps, Window2Keeps, NoWindow2Keeps DEF TestWindow
<1>31. ASSUME NEW t \in Threads, ClearWindow(t) PROVE IInv'
    BY <1>31, ClearWindowKeeps
<1>32. ASSUME NEW t \in Threads, PopGroup(t) PROVE IInv'
    BY <1>32, PopGroupKeeps
<1>33. ASSUME NEW t \in Threads, WakeGroup(t) PROVE IInv'
    <2>1. back[t] \in {"r_spin", "e_head"}
        BY <1>33, <1>0 DEF WakeGroup, IInv, Local
    <2>2. CASE back[t] = "r_spin" /\ node[t] = t
        BY <1>33, <2>2, WakeSelfKeeps
    <2>3. CASE back[t] = "r_spin" /\ node[t] # t
        BY <1>33, <2>3, WakeOwnGroupKeeps
    <2>4. CASE back[t] = "e_head"
        BY <1>33, <2>4, WakeAtEndKeeps
    <2> QED BY <2>1, <2>2, <2>3, <2>4
<1>34. ASSUME NEW t \in Threads, TryLockRead(t) PROVE IInv'
    BY <1>34, TryReadKeeps, TryReadFailsKeeps
<1>35. ASSUME NEW t \in Threads, Unlock(t) PROVE IInv'
    BY <1>35, UnlockWriteKeeps, UnlockReadKeeps DEF Unlock
<1>36. ASSUME NEW t \in Threads, LeaveCount(t) PROVE IInv'
    BY <1>36, EndReadKeeps, TryUndoKeeps DEF LeaveCount
<1>37. ASSUME NEW t \in Threads, ClearWriter(t) PROVE IInv'
    BY <1>37, ClearWriterKeeps
<1>38. ASSUME NEW t \in Threads, TestNext(t) PROVE IInv'
    BY <1>38, NextThereKeeps, NoNextKeeps
<1>39. ASSUME NEW t \in Threads, GiveToWriter(t) PROVE IInv'
    BY <1>39, GiveToWriterKeeps
<1>40. ASSUME NEW t \in Threads, ClearFlags(t) PROVE IInv'
    BY <1>40, ClearFlagsUnblockKeeps, ClearFlagsKeeps
<1>41. CASE UNCHANGED vars
    BY <1>41, Stutters
<1> QED
    BY <1>1, <1>2, <1>3, <1>4, <1>5, <1>6, <1>7, <1>8, <1>9, <1>10, <1>11, <1>12, <1>13, <1>14,
        <1>15, <1>16, <1>17, <1>18, <1>19, <1>20, <1>21, <1>22, <1>23, <1>24, <1>25, <1>26, <1>27,
        <1>28, <1>29, <1>30, <1>31, <1>32, <1>33, <1>34, <1>35, <1>36, <1>37, <1>38, <1>39, <1>40,
        <1>41 DEF Next, Step, Call, FailTry, SetNextWriter, UnblockReaders, EndWrite

\* The inductive invariant holds in every state of the lock, for any number of
\* threads and whichever of them read, write and try.
THEOREM Invariant == Spec => []IInv
<1> QED BY Starts, Kept, PTL DEF Spec

-----------------------------------------------------------------------------
(* What the invariant says. *)

LEMMA WaitersAreValid ==
    ASSUME IInv, NEW t \in Threads, Queued(t)
    PROVE  wstatus[t] # "invalid"
<1>1. CASE pc[t] \in SetNextLocs
    BY <1>1 DEF IInv, Local, Queued, SetNextLocs, UnblockLocs
<1>2. CASE pc[t] \in UnblockLocs
    BY <1>2 DEF IInv, Local, Queued, SetNextLocs, UnblockLocs
<1>3. CASE pc[t] \notin SetNextLocs \cup UnblockLocs
    BY <1>3 DEF IInv, Local, Queued, EndWriteLocs
<1> QED BY <1>1, <1>2, <1>3

LEMMA NodesAliveHolds == IInv => NodesAlive
<1> SUFFICES ASSUME IInv, NEW t \in Threads
             PROVE  /\ pc[t] = "w_link" => wstatus[node[t]] # "invalid" /\ wnext[node[t]] = NULL
                    /\ pc[t] \in SetNextLocs =>
                          wstatus[node[t]] \in {"waiting", "waiting_nonblocking"}
                    /\ pc[t] = "e_give" => wstatus[writer_head] = "waiting"
                    /\ pc[t] \in {"r_count", "r_wake"} => rstatus[rnext[t]] = "waiting"
                    /\ pc[t] = "b_wake" => node[t] # NULL /\ rstatus[node[t]] = "waiting"
    BY DEF NodesAlive
<1>1. ASSUME pc[t] = "w_link" PROVE wstatus[node[t]] # "invalid" /\ wnext[node[t]] = NULL
    BY <1>1, WaitersAreValid DEF IInv, WritersInLine
<1>2. ASSUME pc[t] \in SetNextLocs
      PROVE  wstatus[node[t]] \in {"waiting", "waiting_nonblocking"}
    <2>1. CASE back[t] # "w_first"
        BY <1>2, <2>1 DEF IInv, WritersInLine, Passing, Linked
    <2>2. CASE back[t] = "w_first"
        BY <1>2, <2>2 DEF IInv, Local, SetNextLocs
    <2> QED BY <2>1, <2>2
<1>3. ASSUME pc[t] = "e_give" PROVE wstatus[writer_head] = "waiting"
    BY <1>3 DEF IInv, WritersInLine, HeadExact, Linked
<1>4. ASSUME pc[t] \in {"r_count", "r_wake"} PROVE rstatus[rnext[t]] = "waiting"
    <2>1. Stacked(t) /\ rnext[t] # NULL
        BY <1>4 DEF IInv, Local, Stacked
    <2> QED BY <2>1 DEF IInv, GroupsApart, Chains, Apart
<1>5. ASSUME pc[t] = "b_wake" PROVE node[t] # NULL /\ rstatus[node[t]] = "waiting"
    BY <1>5, NotNull DEF IInv, GroupsApart, Tops, Top
<1> QED BY <1>1, <1>2, <1>3, <1>4, <1>5

\* Whoever is not in charge is not at the head of the writers.
LEMMA HeadIsOfTheList ==
    ASSUME IInv, NEW t \in Threads, pc[t] = "e_free"
    PROVE  writer_head # t
<1>1. ~ InCharge(t) /\ ~ Linked(t)
    BY DEF InCharge, Linked, SetNextLocs, UnblockLocs
<1>2. CASE \A u \in Threads : ~ InCharge(u)
    BY <1>2, NotNull DEF IInv, HeadExact
<1>3. ASSUME NEW u \in Threads, InCharge(u) PROVE writer_head # t
    <2>1. u # t
        BY <1>1, <1>3
    <2>2. CASE pc[u] \in SetNextLocs
        <3>1. node[u] # t
            BY <1>1, <2>1, <2>2 DEF IInv, Local, WritersInLine, Passing
        <3> QED BY <2>1, <2>2, <3>1, NotNull DEF IInv, HeadExact
    <2>3. CASE pc[u] \in UnblockLocs
        BY <1>3, <2>1, <2>3 DEF IInv, HeadExact, InCharge, UnblockLocs, SetNextLocs
    <2>4. CASE pc[u] = "e_give"
        BY <1>1, <2>4 DEF IInv, HeadExact, WritersInLine
    <2>5. CASE pc[u] \notin SetNextLocs \cup UnblockLocs \cup {"e_give"}
        BY <1>3, <2>1, <2>5, NotNull DEF IInv, HeadExact, InCharge
    <2> QED BY <2>2, <2>3, <2>4, <2>5
<1> QED BY <1>2, <1>3

LEMMA SourceAssertionsHold == IInv => SourceAssertions
<1> SUFFICES ASSUME IInv, NEW t \in Threads
             PROVE  /\ pc[t] = "r_spin" => rstatus[t] \in {"waiting", "active"}
                    /\ pc[t] = "b_add" => word.rf
                    /\ pc[t] = "b_pop" => reader_head # NULL
                    /\ pc[t] \in {"writing", "e_clear"} =>
                          /\ my_current_writer = t
                          /\ writer_head = t /\ wstatus[t] = "active"
                    /\ pc[t] = "e_free" => writer_head # t
                    /\ pc[t] = "end_read" => word.rc > 0
    BY DEF SourceAssertions
<1>1. pc[t] = "r_spin" => rstatus[t] \in {"waiting", "active"}
    BY DEF IInv, Local
<1>2. /\ pc[t] = "b_add" => word.rf
      /\ pc[t] = "b_pop" => reader_head # NULL
    BY DEF IInv, ReadersAnnounced, Opening
<1>3. pc[t] \in {"writing", "e_clear"} => my_current_writer = t /\ writer_head = t
    BY DEF IInv, HeadExact
<1>4. pc[t] \in {"writing", "e_clear"} => wstatus[t] = "active"
    BY DEF IInv, Local, EndWriteLocs
<1>5. pc[t] = "e_free" => writer_head # t
    BY HeadIsOfTheList
<1>6. pc[t] = "end_read" => word.rc > 0
    BY CountPositive DEF IInv, Counted
<1> QED BY <1>1, <1>2, <1>3, <1>4, <1>5, <1>6

LEMMA CleanWhenIdleHolds == IInv => CleanWhenIdle
<1> SUFFICES ASSUME IInv, \A t \in Threads : pc[t] = "idle"
             PROVE  /\ word = Free
                    /\ reader_head = NULL /\ writer_head = NULL /\ writer_tail = NULL
    BY DEF CleanWhenIdle
<1>1. \A t \in Threads : /\ ~ Queued(t) /\ ~ InCharge(t) /\ ~ Stacked(t)
                         /\ ~ Counted(t) /\ ~ Flagged(t)
    BY DEF Queued, InCharge, Stacked, Counted, Flagged, Holding, SetNextLocs, UnblockLocs
<1>2. AllCounted = {} /\ Waking = {}
    BY <1>1 DEF AllCounted, Waking
<1>3. word.rc = 0
    BY <1>2, CountIs, FS_EmptySet DEF IInv
<1>4. ~ word.w1 /\ ~ word.w2
    BY <1>1 DEF IInv, FlagsExact
<1>5. ~ word.rf
    BY <1>4 DEF IInv, ReadersAnnounced
<1>6. word \in [w1 : BOOLEAN, w2 : BOOLEAN, rf : BOOLEAN, rc : Nat]
    BY DEF IInv, TypeOK
<1>7. word = Free
    BY <1>3, <1>4, <1>5, <1>6 DEF Free
<1>8. reader_head = NULL
    BY <1>1 DEF IInv, GroupsApart, Tops, Top
<1>9. writer_head = NULL
    BY <1>1 DEF IInv, HeadExact
<1>10. writer_tail = NULL
    BY <1>1, Typed DEF IInv, WritersInLine
<1> QED BY <1>7, <1>8, <1>9, <1>10

\* The count of active readers is exact, one writer is in charge, and no node is
\* written to after the thread it belongs to has gone.
THEOREM BookkeepingInvariant == Spec => []Bookkeeping
<1>1. IInv => Bookkeeping
    BY NodesAliveHolds DEF Bookkeeping
<1> QED BY <1>1, Invariant, PTL

\* The assertions of the source about the status of nodes, RFLAG, the stack, the
\* current writer and the count.
THEOREM SourceAssertionsInvariant == Spec => []SourceAssertions
<1> QED BY SourceAssertionsHold, Invariant, PTL

\* The destructor finds the lock as the constructor left it.
THEOREM CleanWhenIdleInvariant == Spec => []CleanWhenIdle
<1> QED BY CleanWhenIdleHolds, Invariant, PTL

-----------------------------------------------------------------------------
(* The lock is a reader-writer lock. *)


Inside == {"reading", "writing"}

\* Every step moves one thread: outside the lock, into it, or out of it.
Moved(t) ==
    \/ pc[t] \notin Inside /\ pc'[t] \notin Inside
    \/ pc[t] \notin Inside \cup {"tr_undo"} /\ pc'[t] = "reading" /\ (Counted(t) \/ ~ word.w1)
    \/ pc[t] = "w_spin" /\ wstatus[t] = "active" /\ pc'[t] = "writing"
    \/ pc[t] \in Inside /\ pc'[t] \notin Inside

LEMMA StepMoves ==
    ASSUME IInv, NEW t \in Threads, Step(t) \/ Call(t) \/ Unlock(t)
    PROVE  Moved(t) /\ OthersStay(t)
<1>1. pc \in [Threads -> Locs] /\ node \in [Threads -> Nodes] /\ back \in [Threads -> Locs]
    BY DEF IInv, TypeOK
<1> USE <1>1 DEF Inside, Moved, OthersStay, Goto, Jump, Finish
<1>2. ASSUME Lock(t) PROVE Moved(t) /\ OthersStay(t)
    BY <1>2 DEF Lock, NewWriteNode
<1>3. ASSUME TryLock(t) PROVE Moved(t) /\ OthersStay(t)
    BY <1>3 DEF TryLock, NewWriteNode
<1>4. ASSUME SwapTail(t) PROVE Moved(t) /\ OthersStay(t)
    BY <1>4 DEF SwapTail, CallSetNext, Nodes
<1>5. ASSUME TryTail(t) PROVE Moved(t) /\ OthersStay(t)
    BY <1>5 DEF TryTail, CallSetNext, FreeWriteNode
<1>6. ASSUME LinkWriter(t) PROVE Moved(t) /\ OthersStay(t)
    BY <1>6 DEF LinkWriter
<1>7. ASSUME FirstWriter(t) PROVE Moved(t) /\ OthersStay(t)
    BY <1>7 DEF FirstWriter, CallSetNext
<1>8. ASSUME SpinWriter(t) PROVE Moved(t) /\ OthersStay(t)
    BY <1>8 DEF SpinWriter, IInv, Local
<1>9. ASSUME ClearHead(t, "f_head", "f_cas") PROVE Moved(t) /\ OthersStay(t)
    BY <1>9 DEF ClearHead
<1>10. ASSUME ClearHead(t, "e_head", "e_cas") PROVE Moved(t) /\ OthersStay(t)
    BY <1>10 DEF ClearHead
<1>11. ASSUME ClearTail(t, "f_cas", "f_wait", "f_free") PROVE Moved(t) /\ OthersStay(t)
    BY <1>11 DEF ClearTail
<1>12. ASSUME ClearTail(t, "e_cas", "e_wait", "e_free") PROVE Moved(t) /\ OthersStay(t)
    BY <1>12 DEF ClearTail
<1>13. ASSUME AwaitNext(t, "f_wait", "f_free") PROVE Moved(t) /\ OthersStay(t)
    BY <1>13 DEF AwaitNext, CallSetNext
<1>14. ASSUME AwaitNext(t, "e_wait", "e_free") PROVE Moved(t) /\ OthersStay(t)
    BY <1>14 DEF AwaitNext, CallSetNext
<1>15. ASSUME DeleteNode(t, "f_free") PROVE Moved(t) /\ OthersStay(t)
    BY <1>15 DEF DeleteNode, FreeWriteNode
<1>16. ASSUME DeleteNode(t, "e_free") PROVE Moved(t) /\ OthersStay(t)
    BY <1>16 DEF DeleteNode, FreeWriteNode
<1>17. ASSUME SetHead(t) PROVE Moved(t) /\ OthersStay(t)
    BY <1>17 DEF SetHead
<1>18. ASSUME SetByTry(t) PROVE Moved(t) /\ OthersStay(t)
    BY <1>18 DEF SetByTry, Free, ReturnFrom, IInv, Local
<1>19. ASSUME SetFlag1(t) PROVE Moved(t) /\ OthersStay(t)
    BY <1>19 DEF SetFlag1
<1>20. ASSUME AwaitFlag2(t) PROVE Moved(t) /\ OthersStay(t)
    BY <1>20 DEF AwaitFlag2
<1>21. ASSUME SetFlag2(t) PROVE Moved(t) /\ OthersStay(t)
    BY <1>21 DEF SetFlag2
<1>22. ASSUME AwaitReaders(t) PROVE Moved(t) /\ OthersStay(t)
    BY <1>22 DEF AwaitReaders
<1>23. ASSUME Activate(t) PROVE Moved(t) /\ OthersStay(t)
    BY <1>23 DEF Activate, ReturnFrom, IInv, Local, SetNextLocs
<1>24. ASSUME LockRead(t) PROVE Moved(t) /\ OthersStay(t)
    BY <1>24 DEF LockRead
<1>25. ASSUME PushReader(t) PROVE Moved(t) /\ OthersStay(t)
    BY <1>25 DEF PushReader, Nodes
<1>26. ASSUME FirstReader(t) PROVE Moved(t) /\ OthersStay(t)
    BY <1>26 DEF FirstReader, CallUnblock
<1>27. ASSUME SpinReader(t) PROVE Moved(t) /\ OthersStay(t)
    BY <1>27 DEF SpinReader, FreeReadNode, Counted, IInv, Local
<1>28. ASSUME CountSuccessor(t) PROVE Moved(t) /\ OthersStay(t)
    BY <1>28 DEF CountSuccessor
<1>29. ASSUME WakeSuccessor(t) PROVE Moved(t) /\ OthersStay(t)
    BY <1>29 DEF WakeSuccessor, Counted
<1>30. ASSUME CountGroup(t) PROVE Moved(t) /\ OthersStay(t)
    BY <1>30 DEF CountGroup
<1>31. ASSUME TestWindow(t) PROVE Moved(t) /\ OthersStay(t)
    BY <1>31 DEF TestWindow
<1>32. ASSUME ClearWindow(t) PROVE Moved(t) /\ OthersStay(t)
    BY <1>32 DEF ClearWindow
<1>33. ASSUME PopGroup(t) PROVE Moved(t) /\ OthersStay(t)
    BY <1>33 DEF PopGroup
<1>34. ASSUME WakeGroup(t) PROVE Moved(t) /\ OthersStay(t)
    BY <1>34 DEF WakeGroup, ReturnFrom, IInv, Local, UnblockLocs
<1>35. ASSUME TryLockRead(t) PROVE Moved(t) /\ OthersStay(t)
    BY <1>35 DEF TryLockRead
<1>36. ASSUME Unlock(t) PROVE Moved(t) /\ OthersStay(t)
    BY <1>36 DEF Unlock
<1>37. ASSUME LeaveCount(t) PROVE Moved(t) /\ OthersStay(t)
    BY <1>37 DEF LeaveCount
<1>38. ASSUME ClearWriter(t) PROVE Moved(t) /\ OthersStay(t)
    BY <1>38 DEF ClearWriter
<1>39. ASSUME TestNext(t) PROVE Moved(t) /\ OthersStay(t)
    BY <1>39 DEF TestNext
<1>40. ASSUME GiveToWriter(t) PROVE Moved(t) /\ OthersStay(t)
    BY <1>40 DEF GiveToWriter
<1>41. ASSUME ClearFlags(t) PROVE Moved(t) /\ OthersStay(t)
    BY <1>41 DEF ClearFlags, CallUnblock
<1> HIDE DEF Inside, Moved, OthersStay, Goto, Jump, Finish
<1> QED
    BY <1>2, <1>3, <1>4, <1>5, <1>6, <1>7, <1>8, <1>9, <1>10, <1>11, <1>12, <1>13, <1>14, <1>15,
        <1>16, <1>17, <1>18, <1>19, <1>20, <1>21, <1>22, <1>23, <1>24, <1>25, <1>26, <1>27, <1>28,
        <1>29, <1>30, <1>31, <1>32, <1>33, <1>34, <1>35, <1>36, <1>37, <1>38, <1>39, <1>40, <1>41
        DEF Step, Call, FailTry, SetNextWriter, UnblockReaders, EndWrite

\* Nobody reads while a writer holds the lock, or is about to.
LEMMA WriterAlone ==
    ASSUME IInv, NEW t \in Threads, Holding(t), NEW u \in Threads, u # t
    PROVE  pc[u] \notin Inside
<1>1. pc[u] # "reading"
    BY DEF IInv, FlagsExact, Counted
<1>2. pc[u] # "writing"
    BY Parts DEF IInv, WritersInLine
<1> QED BY <1>1, <1>2 DEF Inside

\* Each step is one of the abstract lock, or leaves what the threads hold alone.
LEMMA StepRefines == IInv /\ [Next]_vars => [RW!LockNext]_(RW!lockVars)
<1> SUFFICES ASSUME IInv, [Next]_vars PROVE [RW!LockNext]_(RW!lockVars)
    OBVIOUS
<1> DEFINE no == [t \in Threads |-> FALSE]
<1>1. CASE UNCHANGED vars
    BY <1>1 DEF vars, control, mode, RW!lockVars
<1>2. ASSUME NEW t \in Threads, Step(t) \/ Call(t) \/ Unlock(t)
      PROVE  [RW!LockNext]_(RW!lockVars)
    <2>1. Moved(t) /\ OthersStay(t)
        BY <1>2, StepMoves
    <2>2. \A u \in Threads : mode[u] = IF pc[u] = "reading" THEN "read"
                                       ELSE IF pc[u] = "writing" THEN "write" ELSE "none"
        BY DEF mode
    <2>3. ASSUME NEW m, m = IF pc'[t] = "reading" THEN "read"
                            ELSE IF pc'[t] = "writing" THEN "write" ELSE "none"
          PROVE  mode' = [mode EXCEPT ![t] = m]
        BY <2>1, <2>3 DEF mode, OthersStay
    <2>4. CASE pc[t] \notin Inside /\ pc'[t] \notin Inside
        <3>1. mode' = mode
            BY <2>1, <2>4 DEF mode, OthersStay, Inside
        <3> QED BY <3>1 DEF RW!lockVars
    <2>5. CASE /\ pc[t] \notin Inside \cup {"tr_undo"} /\ pc'[t] = "reading"
               /\ Counted(t) \/ ~ word.w1
        <3>1. ASSUME NEW u \in Threads PROVE mode[u] # "write"
            <4>1. pc[u] = "writing" => Holding(u) /\ word.w1
                BY Parts DEF Holding, IInv, FlagsExact
            <4>2. Holding(u) /\ Counted(t) => pc[t] = "tr_undo"
                BY DEF IInv, FlagsExact
            <4>3. pc[u] # "writing"
                BY <2>5, <4>1, <4>2
            <4> QED BY <2>2, <4>3
        <3>2. pc[t] # "reading" /\ pc[t] # "writing" /\ pc'[t] = "reading"
            BY <2>5 DEF Inside
        <3>3. mode[t] = "none" /\ mode' = [mode EXCEPT ![t] = "read"]
            BY <2>2, <2>3, <3>2
        <3>4. RW!AcquireRead(t)
            BY <3>1, <3>3 DEF RW!AcquireRead, RW!SetMode
        <3> QED BY <3>4 DEF RW!LockNext
    <2>6. CASE pc[t] = "w_spin" /\ wstatus[t] = "active" /\ pc'[t] = "writing"
        <3>1. Holding(t)
            BY <2>6 DEF Holding
        <3>2. RW!OthersHaveNone(t)
            BY <2>2, <3>1, WriterAlone DEF RW!OthersHaveNone, Inside
        <3>3. mode[t] = "none" /\ mode' = [mode EXCEPT ![t] = "write"]
            BY <2>2, <2>3, <2>6
        <3>4. RW!AcquireWrite(t)
            BY <3>2, <3>3 DEF RW!AcquireWrite, RW!SetMode
        <3> QED BY <3>4 DEF RW!LockNext
    <2>7. CASE pc[t] \in Inside /\ pc'[t] \notin Inside
        <3>1. mode[t] # "none" /\ mode' = [mode EXCEPT ![t] = "none"]
            BY <2>2, <2>3, <2>7 DEF Inside
        <3>2. no = [no EXCEPT ![t] = FALSE]
            OBVIOUS
        <3>3. RW!Release(t)
            BY <3>1, <3>2 DEF RW!Release, RW!SetMode
        <3> QED BY <3>3 DEF RW!LockNext
    <2> QED BY <2>1, <2>4, <2>5, <2>6, <2>7 DEF Moved
<1> QED BY <1>1, <1>2 DEF Next

\* The lock implements the abstract reader-writer lock: a thread gets it for
\* reading when nobody writes and for writing when nobody else has it.
THEOREM Refinement == Spec => RefinesRWLock
<1>1. Init => RW!LockInit
    BY DEF Init, mode, RW!LockInit
<1> QED BY <1>1, StepRefines, Invariant, PTL DEF Spec, RefinesRWLock, RW!LockSpec

=============================================================================
