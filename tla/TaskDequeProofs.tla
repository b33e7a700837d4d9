--------------------------- MODULE TaskDequeProofs ---------------------------
(***************************************************************************)
(* What holds of the deque for any number of workers and tasks, whichever  *)
(* of them are mailed.  IInv is inductive: there is a lemma for each       *)
(* outcome of an action, which first says what the step changes and then   *)
(* goes through the conjuncts of IInv.                                     *)
(***************************************************************************)
EXTENDS TaskDeque, FiniteSetTheorems, TLAPS

Moves(p, loc) == pc'[p] = loc /\ \A u \in Threads : u # p => pc'[u] = pc[u]

\* The step says nothing of thread u.
Same(u) ==
    /\ pc'[u] = pc[u] /\ result'[u] = result[u]
    /\ (Holds(u)' <=> Holds(u)) /\ (Locking(u)' <=> Locking(u))
    /\ (Stealing(u)' <=> Stealing(u))
    /\ u \in Workers => /\ H0'[u] = H0[u] /\ H'[u] = H[u]
                        /\ skip_and_bump'[u] = skip_and_bump[u]

OthersKeep == \A u \in Workers : H0'[u] = H0[u] /\ H'[u] = H[u]
                                    /\ skip_and_bump'[u] = skip_and_bump[u]

LEMMA NotNull == /\ NULL \notin Tasks /\ NULL \notin Workers /\ Owner \notin Workers
                 /\ Threads = Workers \cup {Owner} /\ Owner \in Threads
                 /\ Workers \subseteq Threads
                 /\ NumTasks \in Nat /\ MinPoolSize \in Nat /\ MinPoolSize > 1
                 /\ Tasks = 1 .. NumTasks
    BY DequeAssumption DEF Threads, Tasks

LEMMA LocsAre ==
    /\ {"idle", "busy", "away", "stolen"} \subseteq Locs
    /\ {"mail", "prepare", "relocate", "retail", "p_release", "store", "commit",
        "enter"} \subseteq Locs
    /\ {"g_head", "g_take", "g_lock", "g_arbitrate", "g_release", "g_reset",
        "g_got"} \subseteq Locs
    /\ {"adv_load", "adv_cas", "adv_cas2", "adv_demand"} \subseteq Locs
    /\ {"bump", "test", "restore", "look", "move", "m_test", "unlock"} \subseteq Locs
    /\ {"s_pool", "s_head", "s_tail", "s_set", "s_demand", "s_undo"} \subseteq Locs
    BY DEF Locs, SpawnLocs, GetLocs, AdvertiseLocs, StealLocs, SnapshotLocs

LEMMA Typed ==
    ASSUME TypeOK
    PROVE  /\ head \in Nat /\ tail \in Int /\ my_task_pool_size \in Nat
           /\ batch \in Nat /\ mirror \in Nat /\ spawned \in Nat /\ spawned <= NumTasks
           /\ \A w \in Workers : /\ H0[w] \in Nat /\ H[w] \in Nat
                                 /\ skip_and_bump[w] \in 0 .. 2
           /\ \A t \in Tasks : times[t] \in Nat
           /\ \A p \in Threads : result[p] \in Tasks \cup {NULL}
           /\ \A i \in 0 .. my_task_pool_size - 1 : task_pool_ptr[i] \in Tasks \cup {NULL}
    BY NotNull DEF TypeOK

LEMMA Unmoved ==
    ASSUME NEW u \in Threads, pc'[u] = pc[u], result'[u] = result[u]
    PROVE  /\ (Holds(u)' <=> Holds(u)) /\ (Locking(u)' <=> Locking(u))
           /\ (Stealing(u)' <=> Stealing(u))
    BY DEF Holds, Locking, Stealing

FirstThere ==
    /\ \A w \in Workers : Stealing(w) => First = H0[w]
    /\ (\A w \in Workers : ~ Stealing(w)) => First = head

LEMMA FirstIs == LockExact => FirstThere
<1> SUFFICES ASSUME LockExact PROVE FirstThere
    OBVIOUS
<1>1. \A u, v \in Workers : Stealing(u) /\ Stealing(v) => u = v
    BY NotNull DEF LockExact, Locking, Stealing, StealLocs
<1>2. ASSUME NEW w \in Workers, Stealing(w) PROVE First = H0[w]
    <2> DEFINE s == CHOOSE u \in Workers : Stealing(u)
    <2>1. s \in Workers /\ Stealing(s)
        BY <1>2, Zenon
    <2>2. s = w
        BY <1>1, <1>2, <2>1
    <2>3. First = H0[s]
        BY <1>2 DEF First
    <2> QED BY <2>2, <2>3
<1>3. (\A w \in Workers : ~ Stealing(w)) => First = head
    BY DEF First
<1> QED BY <1>2, <1>3 DEF FirstThere

LEMMA FirstIsNext == LockExact' => FirstThere'
    BY FirstIs, PTL

\* The deque begins where it did when no thread locks it, and when those that
\* steal only read it.
LEMMA FirstStays ==
    ASSUME LockExact, LockExact', OthersKeep, head' = head,
           \A u \in Workers : Stealing(u)' <=> Stealing(u)
    PROVE  First' = First
    BY FirstIs, FirstIsNext DEF OthersKeep, FirstThere

LEMMA FirstTyped ==
    ASSUME IInv
    PROVE  /\ First \in Nat /\ Bound \in Int /\ Last \in Int
           /\ pc[Owner] # "retail" => First <= Bound
<1>1. First \in Nat
    BY FirstIs, Typed DEF IInv, FirstThere
<1>2. Bound \in Int /\ Last \in Int
    BY Typed DEF IInv, Bound, Last
<1>3. ASSUME pc[Owner] # "retail" PROVE First <= Bound
    <2>1. CASE \A w \in Workers : ~ Stealing(w)
        BY <1>3, <2>1, FirstIs DEF IInv, Ends, FirstThere
    <2>2. ASSUME NEW w \in Workers, Stealing(w) PROVE First <= Bound
        <3>1. First = H0[w] /\ H0[w] \in Nat /\ H[w] \in Nat
            BY <2>2, FirstIs, Typed DEF IInv, FirstThere
        <3> QED BY <1>2, <2>2, <3>1 DEF IInv, Ends, Stealing
    <2> QED BY <2>1, <2>2
<1> QED BY <1>1, <1>2, <1>3

-----------------------------------------------------------------------------
(* What lies in the deque and what the threads hold, from one step to the next. *)

LEMMA EntriesStay ==
    ASSUME EntriesDiffer, First' .. Last' = First .. Last,
           \A i \in First .. Last : task_pool_ptr'[i] = task_pool_ptr[i]
    PROVE  EntriesDiffer' /\ \A t \in Tasks : Lies(t)' <=> Lies(t)
    BY DEF EntriesDiffer, Lies

\* The entry at one end is taken out.
LEMMA EntryTaken ==
    ASSUME EntriesDiffer, NEW k \in First .. Last,
           \A i \in First' .. Last' : i \in First .. Last /\ i # k,
           \A i \in First .. Last : i # k => i \in First' .. Last',
           \A i \in First .. Last : i # k => task_pool_ptr'[i] = task_pool_ptr[i]
    PROVE  /\ EntriesDiffer'
           /\ \A t \in Tasks : Lies(t)' <=> Lies(t) /\ t # task_pool_ptr[k]
    BY DEF EntriesDiffer, Lies

LEMMA HandsStay ==
    ASSUME \A u \in Threads : /\ Holds(u)' <=> Holds(u)
                              /\ Holds(u) => result'[u] = result[u]
    PROVE  \A t \in Tasks : Held(t)' <=> Held(t)
    BY DEF Held

LEMMA HandsGain ==
    ASSUME NEW p \in Threads, \A u \in Threads : u # p => Same(u), ~ Holds(p), Holds(p)'
    PROVE  \A t \in Tasks : Held(t)' <=> Held(t) \/ t = result'[p]
    BY DEF Held, Same

LEMMA HandsLose ==
    ASSUME HandsDiffer, NEW p \in Threads, \A u \in Threads : u # p => Same(u),
           Holds(p), ~ Holds(p)'
    PROVE  \A t \in Tasks : Held(t)' <=> Held(t) /\ t # result[p]
    BY DEF Held, Same, HandsDiffer

-----------------------------------------------------------------------------
(* Counting, for the demand. *)

Dropping == {w \in Workers : pc[w] = "s_demand"}
Raising == {p \in Threads : pc[p] = "adv_demand"}

LEMMA Finite == /\ IsFiniteSet(Dropping) /\ IsFiniteSet(Raising)
                /\ IsFiniteSet(Dropping') /\ IsFiniteSet(Raising')
<1>1. IsFiniteSet(Workers) /\ IsFiniteSet(Threads)
    BY DequeAssumption, FS_AddElement DEF Threads
<1>2. /\ Dropping \subseteq Workers /\ Raising \subseteq Threads
      /\ Dropping' \subseteq Workers /\ Raising' \subseteq Threads
    BY DEF Dropping, Raising
<1> QED BY <1>1, <1>2, FS_Subset

LEMMA Counts == /\ Cardinality(Dropping) \in Nat /\ Cardinality(Raising) \in Nat
                /\ Cardinality(Dropping') \in Nat /\ Cardinality(Raising') \in Nat
    BY Finite, FS_CardinalityType

LEMMA DemandIs ==
    DemandExact <=> demand = (IF my_pool_state = "EMPTY" THEN 0 ELSE 1)
                                 + Cardinality(Dropping) - Cardinality(Raising)
    BY DEF DemandExact, Dropping, Raising

LEMMA DemandIsNext ==
    DemandExact' <=> demand' = (IF my_pool_state' = "EMPTY" THEN 0 ELSE 1)
                                   + Cardinality(Dropping') - Cardinality(Raising')
    BY DEF DemandExact, Dropping, Raising

\* A step that has nothing to do with the demand.
LEMMA DemandStays ==
    ASSUME DemandExact, NEW p \in Threads, NEW loc, Moves(p, loc),
           loc \notin {"s_demand", "adv_demand"}, pc[p] \notin {"s_demand", "adv_demand"},
           demand' = demand, my_pool_state' = "EMPTY" <=> my_pool_state = "EMPTY"
    PROVE  DemandExact'
<1>1. Dropping' = Dropping /\ Raising' = Raising
    BY NotNull DEF Dropping, Raising, Moves
<1> QED BY <1>1, DemandIs, DemandIsNext

-----------------------------------------------------------------------------
(* Taking a task out of a proxy. *)

LEMMA ExtractIs ==
    ASSUME TypeOK, NEW t \in Tasks, NEW other \in {"pool", "mailbox"}, Extract(t, other)
    PROVE  /\ \A u \in Tasks : u # t => /\ times'[u] = times[u]
                                        /\ task_and_tag'[u] = task_and_tag[u]
           /\ ~ IsProxy(t) => /\ times'[t] = times[t] + 1
                              /\ task_and_tag'[t] = task_and_tag[t]
           /\ IsProxy(t) /\ task_and_tag[t] = "both" =>
                  times'[t] = times[t] + 1 /\ task_and_tag'[t] = other
           /\ IsProxy(t) /\ task_and_tag[t] # "both" =>
                  times'[t] = times[t] /\ task_and_tag'[t] = "freed"
           /\ task_and_tag' \in [Tasks -> {"none", "both", "pool", "mailbox", "freed"}]
           /\ times' \in [Tasks -> Nat]
<1> DEFINE More == [times EXCEPT ![t] = times[t] + 1]
<1>1. /\ More \in [Tasks -> Nat] /\ More[t] = times[t] + 1
      /\ \A u \in Tasks : u # t => More[u] = times[u]
    BY DEF TypeOK
<1>2. CASE ~ IsProxy(t)
    <2>1. times' = More /\ task_and_tag' = task_and_tag
        BY <1>2 DEF Extract
    <2> QED BY <1>1, <1>2, <2>1 DEF TypeOK
<1>3. CASE IsProxy(t) /\ task_and_tag[t] = "both"
    <2>1. times' = More /\ task_and_tag' = [task_and_tag EXCEPT ![t] = other]
        BY <1>3 DEF Extract
    <2> HIDE DEF More
    <2> QED BY <1>1, <1>3, <2>1 DEF TypeOK
<1>4. CASE IsProxy(t) /\ task_and_tag[t] # "both"
    BY <1>4 DEF TypeOK, Extract
<1> QED BY <1>2, <1>3, <1>4

LEMMA MailIs ==
    ASSUME IInv, MailBatch, pc[Owner] \in {"mail", "store"}
    PROVE  /\ \A t \in Tasks \ Stored : IsProxy(t) /\ t <= spawned =>
                  t \in mailbox' /\ task_and_tag'[t] = "both"
           /\ \A t \in Tasks : t \in Stored \/ ~ IsProxy(t) \/ t > spawned =>
                  (t \in mailbox' <=> t \in mailbox) /\ task_and_tag'[t] = task_and_tag[t]
           /\ task_and_tag' \in [Tasks -> {"none", "both", "pool", "mailbox", "freed"}]
           /\ mailbox' \subseteq Tasks
<1>1. \A t \in Tasks : t \in Mailed <=> IsProxy(t) /\ t \notin Stored /\ t <= spawned
    BY NotNull, Typed DEF IInv, Room, Mailed, Batch, Stored
<1>2. Mailed \subseteq Tasks
    BY NotNull, Typed DEF IInv, Room, Mailed, Batch
<1>3. mailbox' \subseteq Tasks
    BY <1>2 DEF IInv, TypeOK, MailBatch
<1>4. /\ task_and_tag' \in [Tasks -> {"none", "both", "pool", "mailbox", "freed"}]
      /\ \A t \in Tasks : /\ t \in Mailed => task_and_tag'[t] = "both"
                          /\ t \notin Mailed => task_and_tag'[t] = task_and_tag[t]
    BY DEF IInv, TypeOK, MailBatch
<1>5. \A t \in Tasks : t \in mailbox' <=> t \in mailbox \/ t \in Mailed
    BY DEF MailBatch
<1>6. \A t \in Tasks \ Stored : IsProxy(t) /\ t <= spawned =>
          t \in mailbox' /\ task_and_tag'[t] = "both"
    BY <1>1, <1>4, <1>5
<1>7. \A t \in Tasks : t \in Stored \/ ~ IsProxy(t) \/ t > spawned =>
          (t \in mailbox' <=> t \in mailbox) /\ task_and_tag'[t] = task_and_tag[t]
    <2> SUFFICES ASSUME NEW t \in Tasks, t \in Stored \/ ~ IsProxy(t) \/ t > spawned
                 PROVE  (t \in mailbox' <=> t \in mailbox) /\ task_and_tag'[t] = task_and_tag[t]
        OBVIOUS
    <2>1. t \notin Mailed
        BY <1>1, NotNull, Typed DEF IInv
    <2> QED BY <2>1, <1>4, <1>5
<1> QED BY <1>3, <1>4, <1>6, <1>7

\* What a thread has taken out of the deque is a task.
LEMMA TakenIs ==
    ASSUME IInv, NEW p \in Threads, result[p] # NULL, pc[p] # "move"
    PROVE  /\ Holds(p) /\ result[p] \in Stored /\ result[p] \in Tasks
           /\ Extract(result[p], "mailbox") =>
                 /\ \A u \in Tasks : u # result[p] => /\ times'[u] = times[u]
                                                      /\ task_and_tag'[u] = task_and_tag[u]
                 /\ ~ IsProxy(result[p]) =>
                        /\ times'[result[p]] = times[result[p]] + 1
                        /\ task_and_tag'[result[p]] = task_and_tag[result[p]]
                 /\ IsProxy(result[p]) /\ task_and_tag[result[p]] = "both" =>
                        /\ times'[result[p]] = times[result[p]] + 1
                        /\ task_and_tag'[result[p]] = "mailbox"
                 /\ IsProxy(result[p]) /\ task_and_tag[result[p]] # "both" =>
                        /\ times'[result[p]] = times[result[p]]
                        /\ task_and_tag'[result[p]] = "freed"
                 /\ task_and_tag' \in [Tasks -> {"none", "both", "pool", "mailbox", "freed"}]
                 /\ times' \in [Tasks -> Nat]
<1>1. result[p] \in Tasks
    BY Typed DEF IInv
<1>2. Holds(p) /\ result[p] \in Stored
    BY DEF Holds, IInv, HandsDiffer
<1> QED BY <1>1, <1>2, ExtractIs DEF IInv

LEMMA MailTakenIs ==
    ASSUME IInv, NEW t \in Tasks, t \in mailbox
    PROVE  /\ IsProxy(t)
           /\ Extract(t, "pool") =>
                 /\ \A u \in Tasks : u # t => /\ times'[u] = times[u]
                                              /\ task_and_tag'[u] = task_and_tag[u]
                 /\ task_and_tag[t] = "both" =>
                        times'[t] = times[t] + 1 /\ task_and_tag'[t] = "pool"
                 /\ task_and_tag[t] # "both" =>
                        times'[t] = times[t] /\ task_and_tag'[t] = "freed"
                 /\ task_and_tag' \in [Tasks -> {"none", "both", "pool", "mailbox", "freed"}]
                 /\ times' \in [Tasks -> Nat]
<1>1. IsProxy(t)
    BY DEF IInv, ProxyState
<1> QED BY <1>1, ExtractIs DEF IInv

\* The owner that has the lock is alone.
LEMMA NoThief ==
    ASSUME IInv, Locking(Owner)
    PROVE  /\ First = head
           /\ \A w \in Workers : ~ Stealing(w)
<1>1. \A w \in Workers : ~ Stealing(w)
    BY NotNull DEF IInv, LockExact, Locking, Stealing, StealLocs
<1> QED BY <1>1, FirstIs DEF IInv, FirstThere

\* A thief that looks at an entry, or moves entries, looks at tasks.
LEMMA LookIs ==
    ASSUME IInv, NEW w \in Workers, pc[w] \in {"look", "move"}
    PROVE  /\ First = H0[w] /\ H0[w] \in Nat /\ H[w] \in Nat
           /\ H0[w] \in First .. Last /\ H[w] - 1 \in First .. Last
           /\ \A i \in First .. Last : /\ i \in 0 .. my_task_pool_size - 1
                                       /\ task_pool_ptr[i] \in Stored
           /\ pc[w] = "look" => result[w] = NULL
<1>1. First = H0[w] /\ H0[w] \in Nat /\ H[w] \in Nat
    BY FirstIs, Typed DEF IInv, FirstThere, Stealing
<1>2. ~ Locking(Owner)
    BY NotNull DEF IInv, LockExact, Locking, StealLocs, Roles, SpawnLocs, GetLocs, AdvertiseLocs
<1>3. Bound <= Last + 1
    BY <1>2, FirstTyped, Typed DEF IInv, Bound, Last, Locking
<1>4. H0[w] < H[w] /\ H[w] <= Bound
    BY DEF IInv, Ends
<1>5. H0[w] \in First .. Last /\ H[w] - 1 \in First .. Last
    BY <1>1, <1>3, <1>4, FirstTyped
<1>6. pc[w] = "look" => result[w] = NULL
    BY DEF IInv, Carried, AdvertiseLocs
<1> QED BY <1>1, <1>5, <1>6 DEF IInv, Filled

LEMMA RelocateIs ==
    ASSUME IInv, Relocate
    PROVE  \E n \in Nat : /\ n >= tail - head + batch /\ MoveTo(n)
                          /\ pc[Owner] = "relocate" /\ Goto(Owner, "retail")
                          /\ UNCHANGED <<task_pool, tail, mail, arena, spawned, times, result,
                                         batch, thief, snapshot>>
<1> DEFINE new_size == tail - head + batch
<1>1. pc[Owner] = "relocate" /\ Locking(Owner)
    BY DEF Relocate, Locking
<1>2. new_size \in Nat
    <2>1. head <= tail /\ tail \in Int /\ head \in Nat /\ batch \in Nat
        BY <1>1, NoThief, Typed DEF IInv, Ends, Bound
    <2> QED BY <2>1
<1>3. my_task_pool_size \in Nat /\ MinPoolSize \in Nat
    BY NotNull, Typed DEF IInv
<1>4. MinPoolSize \div 4 \in Nat
    BY <1>3
<1>5. \E n \in Nat : n >= new_size /\ MoveTo(n)
    <2> HIDE DEF new_size
    <2>1. CASE my_task_pool_size = 0
        <3>1. Larger(new_size, MinPoolSize) \in Nat /\ Larger(new_size, MinPoolSize) >= new_size
            BY <1>2, <1>3 DEF Larger
        <3> QED BY <2>1, <3>1 DEF Relocate, new_size
    <2>2. CASE my_task_pool_size # 0 /\ new_size <= my_task_pool_size - MinPoolSize \div 4
        <3>1. MoveTo(my_task_pool_size)
            BY <2>2 DEF Relocate, new_size
        <3> QED BY <1>2, <1>3, <1>4, <2>2, <3>1
    <2>3. CASE my_task_pool_size # 0 /\ ~ (new_size <= my_task_pool_size - MinPoolSize \div 4)
        <3>1. /\ Larger(new_size, 2 * my_task_pool_size) \in Nat
              /\ Larger(new_size, 2 * my_task_pool_size) >= new_size
            BY <1>2, <1>3 DEF Larger
        <3>2. MoveTo(Larger(new_size, 2 * my_task_pool_size))
            BY <2>3 DEF Relocate, new_size
        <3> QED BY <3>1, <3>2
    <2> QED BY <2>1, <2>2, <2>3
<1> QED BY <1>1, <1>5 DEF Relocate

LEMMA StoredIs == ASSUME IInv PROVE Stored \subseteq Tasks
    BY NotNull, Typed DEF IInv, Stored

LEMMA TaskNull == \A t \in Tasks : t # NULL
    BY NotNull

LEMMA FilledIs ==
    ASSUME IInv
    PROVE  \A i \in First .. Last : /\ i \in 0 .. my_task_pool_size - 1
                                    /\ task_pool_ptr[i] \in Stored
                                    /\ task_pool_ptr[i] \in Tasks
    BY StoredIs DEF IInv, Filled

\* The tail is below zero only while the owner has it lowered.
LEMMA TailIs ==
    ASSUME IInv, pc[Owner] \notin {"retail", "g_head", "g_lock", "g_arbitrate", "g_reset"}
    PROVE  tail \in Nat
<1>1. Bound = tail
    BY DEF Bound
<1> QED BY <1>1, FirstTyped, Typed DEF IInv

-----------------------------------------------------------------------------
(* The contents of the deque, the hands and the mailboxes. *)

Contents == /\ Filled /\ EntriesDiffer /\ HandsDiffer /\ NothingLost
            /\ Coming /\ ProxyState

SameHands == \A u \in Threads : /\ Holds(u)' <=> Holds(u)
                                /\ Holds(u) => result'[u] = result[u]

SameEnds == First' .. Last' = First .. Last /\ my_task_pool_size' = my_task_pool_size

SameBatch == spawned' = spawned /\ batch' = batch /\ (Unmailed' <=> Unmailed)

SameMail == times' = times /\ task_and_tag' = task_and_tag /\ mailbox' = mailbox

\* The entries are somewhere else.
LEMMA ContentsMoved ==
    ASSUME IInv, SameBatch, SameMail, SameHands,
           Filled', EntriesDiffer', \A t \in Tasks : Lies(t)' <=> Lies(t)
    PROVE  Contents'
<1>1. Stored' = Stored
    BY DEF SameBatch, Stored
<1>2. \A t \in Tasks : Held(t)' <=> Held(t)
    BY HandsStay DEF SameHands
<1>3. HandsDiffer'
    BY <1>1, StoredIs DEF IInv, HandsDiffer, SameHands
<1>4. NothingLost'
    BY <1>1, <1>2, StoredIs DEF IInv, NothingLost, Left, SameMail
<1>5. Coming'
    BY <1>1 DEF IInv, Coming, SameMail, SameBatch
<1>6. ProxyState'
    BY DEF IInv, ProxyState, taken, SameMail
<1> QED BY <1>3, <1>4, <1>5, <1>6 DEF Contents

\* The step is about something else.
LEMMA ContentsStay ==
    ASSUME IInv, SameEnds, SameBatch, SameMail, SameHands,
           \A i \in First .. Last : task_pool_ptr'[i] = task_pool_ptr[i]
    PROVE  Contents'
<1>1. Stored' = Stored
    BY DEF SameBatch, Stored
<1>2. EntriesDiffer' /\ \A t \in Tasks : Lies(t)' <=> Lies(t)
    BY EntriesStay DEF IInv, SameEnds
<1>3. Filled'
    BY <1>1 DEF IInv, Filled, SameEnds
<1> QED BY <1>2, <1>3, ContentsMoved

\* Thread p takes task x out of the deque.
LEMMA ContentsTaken ==
    ASSUME IInv, SameBatch, SameMail, NEW p \in Threads, NEW x \in Stored,
           \A u \in Threads : u # p => Same(u),
           ~ Holds(p), Holds(p)', result'[p] = x, Lies(x),
           Filled', EntriesDiffer', \A t \in Tasks : Lies(t)' <=> Lies(t) /\ t # x
    PROVE  Contents'
<1>1. Stored' = Stored /\ x \in Tasks
    BY StoredIs DEF SameBatch, Stored
<1>2. \A t \in Tasks : Held(t)' <=> Held(t) \/ t = x
    BY HandsGain
<1>3. \A u \in Threads : Holds(u) => result[u] \in Tasks /\ result[u] # x
    BY StoredIs DEF IInv, HandsDiffer
<1>4. HandsDiffer'
    <2> SUFFICES ASSUME NEW u \in Threads, Holds(u)'
                 PROVE  /\ result'[u] \in Stored' /\ ~ Lies(result[u])'
                        /\ \A q \in Threads : Holds(q)' /\ result'[u] = result'[q] => u = q
        BY DEF HandsDiffer
    <2>1. CASE u = p
        BY <1>1, <1>3, <2>1 DEF Same
    <2>2. CASE u # p
        <3>1. Holds(u) /\ result'[u] = result[u]
            BY <2>2 DEF Same
        <3>2. result[u] \in Stored /\ ~ Lies(result[u]) /\ result[u] \in Tasks
            BY <1>3, <3>1 DEF IInv, HandsDiffer
        <3>3. \A q \in Threads : Holds(q)' /\ result'[u] = result'[q] => u = q
            BY <1>3, <3>1 DEF IInv, HandsDiffer, Same
        <3> QED BY <1>1, <3>1, <3>2, <3>3
    <2> QED BY <2>1, <2>2
<1>5. NothingLost'
    BY <1>1, <1>2, StoredIs DEF IInv, NothingLost, Left, SameMail
<1>6. Coming'
    BY <1>1 DEF IInv, Coming, SameMail, SameBatch
<1>7. ProxyState'
    BY DEF IInv, ProxyState, taken, SameMail
<1> QED BY <1>4, <1>5, <1>6, <1>7 DEF Contents

\* Thread p takes the entry at k, one of the ends, out of the deque.
LEMMA EndTaken ==
    ASSUME IInv, SameBatch, SameMail, NEW p \in Threads, NEW k \in First .. Last,
           \A u \in Threads : u # p => Same(u),
           ~ Holds(p), Holds(p)', result'[p] = task_pool_ptr[k],
           my_task_pool_size' = my_task_pool_size,
           \A i \in First' .. Last' : i \in First .. Last /\ i # k,
           \A i \in First .. Last : i # k => i \in First' .. Last',
           \A i \in First .. Last : i # k => task_pool_ptr'[i] = task_pool_ptr[i]
    PROVE  Contents'
<1>1. Stored' = Stored
    BY DEF SameBatch, Stored
<1>2. EntriesDiffer' /\ \A t \in Tasks : Lies(t)' <=> Lies(t) /\ t # task_pool_ptr[k]
    BY EntryTaken DEF IInv
<1>3. Filled'
    BY <1>1 DEF IInv, Filled
<1>4. PICK x \in Stored : x = task_pool_ptr[k]
    BY FilledIs
<1>5. Lies(x)
    BY <1>4 DEF Lies
<1> QED BY <1>2, <1>3, <1>4, <1>5, ContentsTaken

\* n tasks are about to be put into the deque.
LEMMA ContentsSpawned ==
    ASSUME IInv, SameEnds, SameMail, SameHands, NEW n \in 1 .. 2, batch = 0, batch' = n,
           spawned' = spawned + n, Unmailed', task_pool_ptr' = task_pool_ptr
    PROVE  Contents'
<1>1. Stored' = Stored /\ Stored = 1 .. spawned
    BY Typed DEF IInv, Stored
<1>2. EntriesDiffer' /\ \A t \in Tasks : Lies(t)' <=> Lies(t)
    BY EntriesStay DEF IInv, SameEnds
<1>3. \A t \in Tasks : Held(t)' <=> Held(t)
    BY HandsStay DEF SameHands
<1>4. Filled'
    BY <1>1 DEF IInv, Filled, SameEnds
<1>5. HandsDiffer'
    BY <1>1, <1>2, StoredIs DEF IInv, HandsDiffer, SameHands
<1>6. NothingLost'
    BY <1>1, <1>2, <1>3, StoredIs DEF IInv, NothingLost, Left, SameMail
<1>7. Coming'
    BY <1>1, NotNull, Typed DEF IInv, Coming, SameMail
<1>8. ProxyState'
    BY DEF IInv, ProxyState, taken, SameMail
<1> QED BY <1>2, <1>4, <1>5, <1>6, <1>7, <1>8 DEF Contents

\* The proxies of the batch are mailed.
LEMMA ContentsMailed ==
    ASSUME IInv, SameEnds, SameHands, MailBatch, pc[Owner] \in {"mail", "store"},
           spawned' = spawned, batch' = batch, Unmailed, ~ Unmailed', times' = times,
           \A i \in First .. Last : task_pool_ptr'[i] = task_pool_ptr[i]
    PROVE  Contents'
<1>1. Stored' = Stored
    BY DEF Stored
<1>2. EntriesDiffer' /\ \A t \in Tasks : Lies(t)' <=> Lies(t)
    BY EntriesStay DEF IInv, SameEnds
<1>3. \A t \in Tasks : Held(t)' <=> Held(t)
    BY HandsStay DEF SameHands
<1>4. Filled'
    BY <1>1 DEF IInv, Filled, SameEnds
<1>5. HandsDiffer'
    BY <1>1, <1>2, StoredIs DEF IInv, HandsDiffer, SameHands
<1>6. \A t \in Stored : task_and_tag'[t] = task_and_tag[t]
    BY MailIs, StoredIs
<1>7. NothingLost'
    BY <1>1, <1>2, <1>3, <1>6, StoredIs DEF IInv, NothingLost, Left
<1>8. \A t \in Tasks \ Stored : IsProxy(t) /\ t <= spawned =>
          t \in mailbox' /\ task_and_tag'[t] = "both"
    BY MailIs
<1>9. \A t \in Tasks : t \in Stored \/ ~ IsProxy(t) \/ t > spawned =>
          (t \in mailbox' <=> t \in mailbox) /\ task_and_tag'[t] = task_and_tag[t]
    BY MailIs
<1>10. \A t \in Tasks : t <= spawned \/ t > spawned
    BY NotNull, Typed DEF IInv
<1>11. Coming'
    BY <1>1, <1>8, <1>9, <1>10 DEF IInv, Coming, IsProxy
<1>12. \A t \in Tasks \ Stored : IsProxy(t) => task_and_tag[t] = "none"
    BY DEF IInv, Coming
<1>13. ProxyState'
    BY <1>8, <1>9, <1>10, <1>12 DEF IInv, ProxyState, taken, IsProxy
<1> QED BY <1>2, <1>4, <1>5, <1>7, <1>11, <1>13 DEF Contents

\* The batch is in the deque.
LEMMA ContentsCommitted ==
    ASSUME IInv, SameMail, SameHands, pc[Owner] = "commit", ~ Unmailed',
           spawned' = spawned, batch' = 0, First' = First, Last' = Last + batch,
           Last = tail - 1, my_task_pool_size' = my_task_pool_size,
           task_pool_ptr' = task_pool_ptr
    PROVE  Contents'
<1>1. /\ batch \in 1 .. 2 /\ batch <= spawned /\ spawned \in Nat /\ tail \in Nat
      /\ spawned <= NumTasks
    BY Typed, TailIs DEF IInv, Room, SpawnLocs
<1>2. First \in Nat /\ First <= tail
    BY <1>1, FirstTyped DEF Bound
<1>3. Stored' = 1 .. spawned /\ Stored = 1 .. spawned - batch
    BY <1>1 DEF Stored
<1>4. \A i \in tail .. tail + batch - 1 :
          i < my_task_pool_size /\ task_pool_ptr[i] = spawned - (i - tail)
    BY DEF IInv, Room
<1>5. \A i \in First' .. Last' : i \in First .. Last \/ i \in tail .. tail + batch - 1
    BY <1>1, <1>2
<1>6. /\ First .. Last \subseteq First' .. Last'
      /\ tail .. tail + batch - 1 \subseteq First' .. Last'
    BY <1>1, <1>2
<1>7. \A i \in First .. Last : task_pool_ptr[i] \in 1 .. spawned - batch
    BY <1>3, FilledIs
<1>8. Filled'
    <2>1. \A i \in tail .. tail + batch - 1 :
              i \in 0 .. my_task_pool_size - 1 /\ task_pool_ptr[i] \in 1 .. spawned
        BY <1>1, <1>4, Typed DEF IInv
    <2> QED BY <1>1, <1>3, <1>5, <2>1 DEF IInv, Filled
<1>9. EntriesDiffer'
    BY <1>1, <1>4, <1>5, <1>7 DEF IInv, EntriesDiffer
<1>10. \A t \in Tasks : Lies(t)' <=> Lies(t) \/ t \in spawned - batch + 1 .. spawned
    <2>1. ASSUME NEW t \in spawned - batch + 1 .. spawned PROVE Lies(t)'
        <3>1. tail + (spawned - t) \in tail .. tail + batch - 1
            BY <1>1
        <3>2. task_pool_ptr[tail + (spawned - t)] = t
            BY <1>1, <1>4, <3>1
        <3> QED BY <1>6, <3>1, <3>2 DEF Lies
    <2>2. ASSUME NEW i \in tail .. tail + batch - 1
          PROVE  task_pool_ptr[i] \in spawned - batch + 1 .. spawned
        BY <1>1, <1>4
    <2> QED BY <1>5, <1>6, <2>1, <2>2 DEF Lies
<1>11. \A t \in Tasks : Held(t)' <=> Held(t)
    BY HandsStay DEF SameHands
<1>12. HandsDiffer'
    <2>1. \A u \in Threads : Holds(u) => /\ result[u] \in Stored' /\ result[u] \in Tasks
                                         /\ result[u] \notin spawned - batch + 1 .. spawned
        BY <1>1, <1>3, StoredIs DEF IInv, HandsDiffer
    <2> QED BY <1>10, <2>1 DEF IInv, HandsDiffer, SameHands
<1>13. ~ Unmailed
    BY DEF Unmailed
<1>14. \A t \in 1 .. spawned :
           t \in Tasks /\ (t \in Stored \/ t \in spawned - batch + 1 .. spawned)
    BY <1>1, <1>3, NotNull
<1>15. \A t \in spawned - batch + 1 .. spawned :
          t \in Tasks /\ t \notin Stored /\ ~ (t > spawned) /\ t \in 1 .. spawned
    BY <1>1, <1>3, NotNull
<1>16. \A t \in spawned - batch + 1 .. spawned : Left(t)
    BY <1>13, <1>15 DEF IInv, Coming, Left
<1>17. NothingLost'
    BY <1>3, <1>10, <1>11, <1>14, <1>16 DEF IInv, NothingLost, Left, SameMail
<1>18. Coming'
    <2>1. \A t \in Tasks : /\ t \in Stored' <=>
                                t \in Stored \/ t \in spawned - batch + 1 .. spawned
                           /\ t \notin Stored' => t > spawned
        BY <1>1, <1>3, NotNull
    <2> QED BY <1>13, <1>15, <2>1 DEF IInv, Coming, SameMail
<1>19. ProxyState'
    BY DEF IInv, ProxyState, taken, SameMail
<1> QED BY <1>8, <1>9, <1>12, <1>17, <1>18, <1>19 DEF Contents

\* Thread p deals with what it has taken out of the deque.
LEMMA ContentsDealt ==
    ASSUME IInv, SameEnds, SameBatch, NEW p \in Threads, mailbox' = mailbox,
           \A u \in Threads : u # p => Same(u),
           NEW t \in Tasks, result[p] = t, pc[p] # "move", ~ Holds(p)', Extract(t, "mailbox"),
           \A i \in First .. Last : task_pool_ptr'[i] = task_pool_ptr[i]
    PROVE  Contents'
<1>1. Stored' = Stored
    BY DEF SameBatch, Stored
<1>2. EntriesDiffer' /\ \A u \in Tasks : Lies(u)' <=> Lies(u)
    BY EntriesStay DEF IInv, SameEnds
<1>3. Holds(p) /\ t \in Stored
    BY NotNull, TakenIs
<1>4. \A u \in Tasks : Held(u)' <=> Held(u) /\ u # t
    BY <1>3, HandsLose DEF IInv
<1>5. /\ \A u \in Tasks : u # t => times'[u] = times[u] /\ task_and_tag'[u] = task_and_tag[u]
      /\ ~ IsProxy(t) => times'[t] = times[t] + 1 /\ task_and_tag'[t] = task_and_tag[t]
      /\ IsProxy(t) /\ task_and_tag[t] = "both" =>
             times'[t] = times[t] + 1 /\ task_and_tag'[t] = "mailbox"
      /\ IsProxy(t) /\ task_and_tag[t] # "both" =>
             times'[t] = times[t] /\ task_and_tag'[t] = "freed"
    BY NotNull, TakenIs
<1>6. ~ Lies(t)
    BY <1>3 DEF IInv, HandsDiffer
<1>7. Held(t)
    BY <1>3 DEF Held
<1>8. Left(t)
    BY <1>3, <1>7 DEF IInv, NothingLost
<1>9. times[t] \in Nat
    BY <1>3, Typed DEF IInv
<1>10. ~ Left(t)'
    BY <1>5, <1>8, <1>9 DEF Left, IsProxy
<1>11. Filled'
    BY <1>1 DEF IInv, Filled, SameEnds
<1>12. \A u \in Threads : Holds(u) => result[u] \in Tasks
    BY StoredIs DEF IInv, HandsDiffer
<1>13. HandsDiffer'
    BY <1>1, <1>2, <1>12 DEF IInv, HandsDiffer, Same
<1>14. \A u \in Tasks : u # t => (Left(u)' <=> Left(u))
    BY <1>5 DEF Left, IsProxy
<1>15. NothingLost'
    BY <1>1, <1>2, <1>4, <1>6, <1>10, <1>14, StoredIs DEF IInv, NothingLost
<1>16. Coming'
    BY <1>1, <1>3, <1>5 DEF IInv, Coming, SameBatch, IsProxy
<1>17. ProxyState'
    <2> SUFFICES ASSUME NEW u \in Tasks
                 PROVE  IF ~ IsProxy(u) THEN task_and_tag'[u] = "none" /\ u \notin mailbox'
                        ELSE /\ u \in mailbox' <=> task_and_tag'[u] \in {"both", "mailbox"}
                             /\ times'[u] > 0 <=>
                                    task_and_tag'[u] \in {"pool", "mailbox", "freed"}
        BY DEF ProxyState, taken, IsProxy
    <2>1. CASE u = t
        BY <1>3, <1>5, <1>8, <1>9, <2>1 DEF IInv, ProxyState, taken, Left
    <2>2. CASE u # t
        BY <1>5, <2>2 DEF IInv, ProxyState, taken
    <2> QED BY <2>1, <2>2
<1> QED BY <1>2, <1>11, <1>13, <1>15, <1>16, <1>17 DEF Contents

\* A thread takes a proxy out of a mailbox.
LEMMA ContentsReceived ==
    ASSUME IInv, SameEnds, SameBatch, SameHands, NEW t \in mailbox, Extract(t, "pool"),
           mailbox' = mailbox \ {t},
           \A i \in First .. Last : task_pool_ptr'[i] = task_pool_ptr[i]
    PROVE  Contents'
<1>0. t \in Tasks
    BY DEF IInv, TypeOK
<1>1. Stored' = Stored
    BY DEF SameBatch, Stored
<1>2. EntriesDiffer' /\ \A u \in Tasks : Lies(u)' <=> Lies(u)
    BY EntriesStay DEF IInv, SameEnds
<1>3. \A u \in Tasks : Held(u)' <=> Held(u)
    BY HandsStay DEF SameHands
<1>4. /\ IsProxy(t)
      /\ \A u \in Tasks : u # t => times'[u] = times[u] /\ task_and_tag'[u] = task_and_tag[u]
      /\ task_and_tag[t] = "both" => times'[t] = times[t] + 1 /\ task_and_tag'[t] = "pool"
      /\ task_and_tag[t] # "both" => times'[t] = times[t] /\ task_and_tag'[t] = "freed"
    BY <1>0, MailTakenIs
<1>5. Filled'
    BY <1>1 DEF IInv, Filled, SameEnds
<1>6. HandsDiffer'
    BY <1>1, <1>2, StoredIs DEF IInv, HandsDiffer, SameHands
<1>7. task_and_tag[t] \in {"both", "mailbox"} /\ times[t] \in Nat
    BY <1>0, <1>4, Typed DEF IInv, ProxyState
<1>8. \A u \in Tasks : Left(u)' <=> Left(u)
    BY <1>0, <1>4, <1>7 DEF Left, IsProxy
<1>9. NothingLost'
    BY <1>1, <1>2, <1>3, <1>8, StoredIs DEF IInv, NothingLost
<1>10. Coming'
    <2> SUFFICES ASSUME NEW u \in Tasks
                 PROVE  /\ u \in Stored /\ IsProxy(u) => task_and_tag'[u] # "none"
                        /\ u \notin Stored /\ ~ IsProxy(u) => times'[u] = 0
                        /\ u \notin Stored /\ IsProxy(u) =>
                              IF u > spawned \/ Unmailed THEN task_and_tag'[u] = "none"
                              ELSE task_and_tag'[u] \in {"both", "pool"}
        BY <1>1 DEF Coming, SameBatch, IsProxy
    <2>1. CASE u = t
        BY <1>4, <1>7, <2>1 DEF IInv, Coming
    <2>2. CASE u # t
        BY <1>4, <2>2 DEF IInv, Coming
    <2> QED BY <2>1, <2>2
<1>11. ProxyState'
    <2> SUFFICES ASSUME NEW u \in Tasks
                 PROVE  IF ~ IsProxy(u) THEN task_and_tag'[u] = "none" /\ u \notin mailbox'
                        ELSE /\ u \in mailbox' <=> task_and_tag'[u] \in {"both", "mailbox"}
                             /\ times'[u] > 0 <=>
                                    task_and_tag'[u] \in {"pool", "mailbox", "freed"}
        BY DEF ProxyState, taken, IsProxy
    <2>1. CASE u = t
        BY <1>0, <1>4, <1>7, <2>1 DEF IInv, ProxyState, taken
    <2>2. CASE u # t
        BY <1>4, <2>2 DEF IInv, ProxyState, taken
    <2> QED BY <2>1, <2>2
<1> QED BY <1>2, <1>5, <1>6, <1>9, <1>10, <1>11 DEF Contents

-----------------------------------------------------------------------------
(* The ends of the deque. *)

\* The owner's step under the lock, or to it: there is no thief.
LEMMA EndsAlone ==
    ASSUME \A w \in Workers : ~ Stealing(w)',
           pc'[Owner] = "retail" => head' = 0,
           pc'[Owner] # "retail" => head' <= Bound',
           pc'[Owner] = "g_reset" => head' >= tail', pc'[Owner] # "enter"
    PROVE  Ends'
    BY DEF Ends, Stealing

\* The head stays, and the owner has not taken the tail below it.
LEMMA EndsStay ==
    ASSUME IInv, head' = head, Bound' \in Int, Bound' >= Bound \/ head <= Bound',
           \/ /\ pc[Owner] # "retail" /\ pc'[Owner] \notin {"retail", "g_reset"}
              /\ pc'[Owner] = "enter" => head < tail'
           \/ pc'[Owner] = pc[Owner] /\ tail' = tail /\ Bound' = Bound,
           \A u \in Workers : /\ Stealing(u)' <=> Stealing(u)
                              /\ Stealing(u) =>
                                     pc'[u] = pc[u] /\ H0'[u] = H0[u] /\ H'[u] = H[u],
           \A u \in Workers : pc[u] = "move" =>
               /\ result'[u] = result[u]
               /\ task_pool_ptr'[H[u] - 1] = task_pool_ptr[H[u] - 1]
    PROVE  Ends'
<1>1. head \in Nat /\ Bound \in Int /\ \A u \in Workers : H0[u] \in Nat /\ H[u] \in Nat
    BY Typed, FirstTyped DEF IInv
<1>2. (\A u \in Workers : ~ Stealing(u)') /\ pc'[Owner] # "retail" => head' <= Bound'
    <2>1. (\A u \in Workers : ~ Stealing(u)) /\ pc[Owner] # "retail" => head <= Bound
        BY DEF IInv, Ends
    <2> QED BY <1>1, <2>1
<1>3. /\ pc'[Owner] = "retail" => head' = 0
      /\ pc'[Owner] = "g_reset" => head' >= tail'
      /\ pc'[Owner] = "enter" => head' < tail'
    BY DEF IInv, Ends
<1>4. ASSUME NEW u \in Workers, Stealing(u)'
      PROVE  /\ head' = H'[u] /\ H0'[u] <= H'[u]
             /\ pc'[u] = "bump" => H'[u] <= Bound'
             /\ pc'[u] \in {"test", "restore"} => H0'[u] < H'[u] /\ H'[u] <= Bound' + 1
             /\ pc'[u] \in {"look", "move"} => H0'[u] < H'[u] /\ H'[u] <= Bound'
             /\ pc'[u] = "move" =>
                   H0'[u] + 1 < H'[u] /\ result'[u] = task_pool_ptr'[H'[u] - 1]
    <2>1. pc'[u] = pc[u] /\ H0'[u] = H0[u] /\ H'[u] = H[u] /\ head = H[u] /\ Stealing(u)
        BY <1>4 DEF IInv, Ends
    <2>2. pc[u] = "move" => H0[u] + 1 < H[u] /\ result'[u] = task_pool_ptr'[H[u] - 1]
        BY DEF IInv, Ends
    <2>3. /\ pc[u] = "bump" => H[u] <= Bound'
          /\ pc[u] \in {"test", "restore"} => H0[u] < H[u] /\ H[u] <= Bound' + 1
          /\ pc[u] \in {"look", "move"} => H0[u] < H[u] /\ H[u] <= Bound'
          /\ H0[u] <= H[u]
        BY <1>1, <2>1 DEF IInv, Ends
    <2> QED BY <2>1, <2>2, <2>3
<1> QED BY <1>2, <1>3, <1>4 DEF Ends, Stealing

-----------------------------------------------------------------------------
(* A step that leaves the deque alone. *)

Quiet == {"idle"} \cup AdvertiseLocs
QuietWorker == {"idle", "busy", "away", "stolen"} \cup AdvertiseLocs \cup SnapshotLocs

LEMMA Elsewhere ==
    ASSUME IInv, TypeOK', DemandExact', NEW p \in Threads, NEW loc, Moves(p, loc),
           p = Owner => pc[p] \in Quiet /\ loc \in Quiet,
           p # Owner => pc[p] \in QuietWorker /\ loc \in QuietWorker,
           p # Owner /\ loc \notin {"stolen"} \cup AdvertiseLocs => result[p] = NULL,
           UNCHANGED <<task_pool, head, tail, my_task_pool_size, task_pool_ptr>>,
           UNCHANGED <<task_and_tag, mailbox, spawned, times, result, batch, mirror>>,
           UNCHANGED <<H0, skip_and_bump>>,
           \A u \in Workers : u # p => H'[u] = H[u]
    PROVE  IInv'
<1> USE DEF Quiet, QuietWorker, AdvertiseLocs, SnapshotLocs
<1>1. /\ \A u \in Threads : u # p => Same(u)
      /\ Locking(p) = FALSE /\ Locking(p)' = FALSE /\ Stealing(p) = FALSE
      /\ Stealing(p)' = FALSE /\ (Holds(p)' <=> Holds(p))
    <2>1. \A u \in Threads : u # p => Same(u)
        BY Unmoved, NotNull DEF Same, Moves
    <2>2. pc[p] # "move" /\ loc # "move" /\ pc'[p] = loc
        BY DEF Moves
    <2> QED BY <2>1, <2>2 DEF Locking, Stealing, Holds, StealLocs
<1>2. Roles'
    BY <1>1, NotNull DEF IInv, Roles, Same, Moves
<1>3. LockExact'
    BY <1>1, NotNull DEF IInv, LockExact, Same, Moves
<1>4. Bound' = Bound /\ Last' = Last
    BY <1>1, NotNull DEF Moves, Bound, Last, Same
<1>5. First' = First
    <2>1. (\A u \in Workers : ~ Stealing(u)) => \A u \in Workers : ~ Stealing(u)'
        BY <1>1, NotNull DEF Same
    <2>2. ASSUME NEW u \in Workers, Stealing(u) PROVE Stealing(u)' /\ H0'[u] = H0[u]
        BY <1>1, <2>2, NotNull DEF Same
    <2>3. FirstThere /\ FirstThere'
        BY <1>3, FirstIs, FirstIsNext DEF IInv
    <2> QED BY <2>1, <2>2, <2>3 DEF FirstThere
<1>6. Room'
    BY <1>1, NotNull DEF IInv, Room, Moves, SpawnLocs, Same
<1>7. Carried'
    BY <1>1, NotNull DEF IInv, Carried, Moves, Same
<1>8. Ends'
    <2>1. Bound \in Int
        BY FirstTyped
    <2>2. \/ pc[Owner] # "retail" /\ pc'[Owner] \notin {"retail", "g_reset", "enter"}
          \/ pc'[Owner] = pc[Owner]
        BY NotNull DEF Moves
    <2> QED BY <1>1, <1>4, <2>1, <2>2, EndsStay, NotNull DEF Same, Moves
<1>9. Contents'
    <2>1. SameEnds /\ SameMail
        BY <1>4, <1>5 DEF SameEnds, SameMail
    <2>2. SameBatch
        BY <1>1, NotNull DEF SameBatch, Unmailed, Moves
    <2>3. SameHands
        BY <1>1 DEF SameHands, Same
    <2> QED BY <2>1, <2>2, <2>3, ContentsStay
<1> QED BY <1>2, <1>3, <1>6, <1>7, <1>8, <1>9 DEF IInv, Contents

\* The pool is open, or its owner has left: no thief is in it.
LEMMA NotLocked ==
    ASSUME IInv, task_pool # "locked"
    PROVE  \A u \in Workers : ~ Locking(u)
    BY NotNull DEF IInv, LockExact, Roles, Locking, SpawnLocs, GetLocs, StealLocs,
                   AdvertiseLocs, SnapshotLocs

\* A thief that has the lock: after its step nobody else is at the head.
LEMMA EndsThief ==
    ASSUME NEW w \in Workers, \A u \in Workers : u # w => ~ Stealing(u)',
           pc'[Owner] \notin {"retail", "g_reset", "enter"},
           IF Stealing(w)' THEN head' = H'[w] /\ H0'[w] <= H'[w] ELSE head' <= Bound',
           pc'[w] = "bump" => H'[w] <= Bound',
           pc'[w] \in {"test", "restore"} => H0'[w] < H'[w] /\ H'[w] <= Bound' + 1,
           pc'[w] \in {"look", "move"} => H0'[w] < H'[w] /\ H'[w] <= Bound',
           pc'[w] = "move" => H0'[w] + 1 < H'[w] /\ result'[w] = task_pool_ptr'[H'[w] - 1]
    PROVE  Ends'
    BY DEF Ends, Stealing

\* What a thief under the lock knows of the head.
LEMMA ThiefIs ==
    ASSUME IInv, NEW w \in Workers, Locking(w)
    PROVE  /\ H0[w] \in Nat /\ H[w] \in Nat /\ Bound \in Int
           /\ skip_and_bump[w] \in 0 .. 2 /\ pc[w] # "unlock" => skip_and_bump[w] < 2
           /\ pc[Owner] \notin {"retail", "g_reset"} /\ task_pool = "locked"
           /\ \A u \in Workers : u # w => ~ Locking(u) /\ ~ Stealing(u)
           /\ IF Stealing(w) THEN head = H[w] /\ H0[w] <= H[w] ELSE head <= Bound
           /\ pc[w] = "bump" => H[w] <= Bound
           /\ pc[w] \in {"test", "restore"} => H0[w] < H[w] /\ H[w] <= Bound + 1
           /\ pc[w] \in {"look", "move"} => H0[w] < H[w] /\ H[w] <= Bound
           /\ pc[w] = "move" => H0[w] + 1 < H[w] /\ result[w] = task_pool_ptr[H[w] - 1]
<1>1. /\ H0[w] \in Nat /\ H[w] \in Nat /\ Bound \in Int /\ skip_and_bump[w] \in 0 .. 2
      /\ pc[w] # "unlock" => skip_and_bump[w] < 2
    BY Typed, FirstTyped DEF IInv, Carried
<1>2. /\ pc[Owner] \notin {"retail", "g_reset"}
      /\ \A u \in Workers : u # w => ~ Locking(u) /\ ~ Stealing(u)
    BY NotNull DEF IInv, LockExact, Locking, Stealing, StealLocs
<1>3. task_pool = "locked"
    BY NotNull DEF IInv, LockExact, Roles, SpawnLocs, GetLocs, StealLocs, AdvertiseLocs,
                   SnapshotLocs
<1>4. ~ Stealing(w) => head <= Bound
    BY <1>2 DEF IInv, Ends
<1> QED BY <1>1, <1>2, <1>3, <1>4 DEF IInv, Ends, Stealing

\* The thief that closes the hole is below the tail.
LEMMA MoverIs ==
    ASSUME IInv
    PROVE  \A u \in Workers : pc[u] = "move" =>
               H[u] - 1 \in 0 .. my_task_pool_size - 1 /\ H[u] - 1 < Bound
<1> SUFFICES ASSUME NEW u \in Workers, pc[u] = "move"
             PROVE  H[u] - 1 \in 0 .. my_task_pool_size - 1 /\ H[u] - 1 < Bound
    OBVIOUS
<1>1. H[u] - 1 \in 0 .. my_task_pool_size - 1 /\ H[u] \in Nat
    BY LookIs
<1>2. H[u] <= Bound /\ Bound \in Int
    BY FirstTyped DEF IInv, Ends
<1> QED BY <1>1, <1>2

-----------------------------------------------------------------------------
(* local_spawn: the owner makes room, stores the tasks of the batch and moves the tail. *)

LEMMA SpawnOneKeeps ==
    ASSUME IInv, NEW n \in 1 .. 2, Spawn(n), n = 1
    PROVE  IInv'
<1>1. /\ pc[Owner] = "idle" /\ pc' = [pc EXCEPT ![Owner] = "prepare"]
      /\ spawned' = spawned + 1 /\ batch' = 1
      /\ UNCHANGED <<task_pool, head, tail, my_task_pool_size, task_pool_ptr, task_and_tag>>
      /\ UNCHANGED <<mailbox, my_pool_state, demand, times, result, mirror>>
      /\ UNCHANGED <<H0, H, skip_and_bump, snapshot>>
    BY DEF Goto, deque, mail, arena, thief, own, Spawn
<1>2. /\ spawned + 1 <= NumTasks /\ batch = 0
    BY NotNull, Typed, <1>1 DEF IInv, Room, SpawnLocs, Spawn
<1>3. /\ batch' \in Nat /\ spawned' \in 0 .. NumTasks
    BY NotNull, Typed, <1>1, <1>2 DEF IInv
<1>4. TypeOK'
    BY NotNull, LocsAre, <1>1, <1>2, <1>3 DEF IInv, TypeOK
<1>5. /\ Moves(Owner, "prepare") /\ spawned' = spawned + 1 /\ batch' = 1
    BY NotNull, <1>1, <1>2 DEF IInv, TypeOK, Moves
<1>6. \A u \in Threads : u # Owner => Same(u)
    BY <1>1, <1>5, Unmoved, NotNull DEF Moves, Same
<1>7. /\ ~ Locking(Owner) /\ ~ Locking(Owner)' /\ ~ Stealing(Owner) /\ ~ Stealing(Owner)'
      /\ (Holds(Owner)' <=> Holds(Owner))
    BY <1>1, <1>5, <1>2, NotNull DEF Moves, Locking, Stealing, Holds, StealLocs
<1>8. Roles'
    BY <1>1, <1>5, <1>6, NotNull DEF IInv, Roles, Same, Moves, SpawnLocs, GetLocs,
        AdvertiseLocs, StealLocs, SnapshotLocs
<1>9. LockExact'
    BY <1>1, <1>5, <1>2, <1>6, <1>7, NotNull DEF IInv, LockExact, Same, Moves
<1>10. /\ Bound = tail /\ Bound' = tail' /\ Last = tail - 1 /\ Last' = tail' - 1
    BY <1>1, <1>5, <1>6, NotNull DEF Moves, Bound, Last, Same
<1>11. First' = First
    BY <1>1, <1>5, <1>2, <1>6, <1>7, <1>9, FirstStays, NotNull DEF IInv, Same, OthersKeep
<1>12. Room'
    BY Typed, NotNull, <1>1, <1>5, <1>2, <1>6 DEF IInv, Moves, Same, Room, SpawnLocs
<1>13. Carried'
    BY NotNull, <1>1, <1>5, <1>2, <1>6 DEF IInv, Moves, Same, Carried, AdvertiseLocs
<1>14. Ends'
    BY Typed, FirstTyped, <1>1, <1>5, <1>2, <1>6, <1>7, <1>11, <1>10, EndsStay, NotNull DEF
        IInv, Moves, Same
<1>15. SameEnds
    BY <1>1, <1>5, <1>2, <1>11, <1>10 DEF SameEnds
<1>16. Unmailed'
    BY <1>1, <1>5, <1>2 DEF Unmailed, Moves
<1>17. SameMail
    BY <1>1 DEF SameMail
<1>18. SameHands
    BY <1>1, <1>5, <1>6, <1>7 DEF SameHands, Same, Holds
<1>19. Contents'
    BY <1>1, <1>5, <1>2, <1>15, <1>16, <1>17, <1>18, NotNull, ContentsSpawned
<1>20. DemandExact'
    BY <1>1, <1>5, DemandStays, NotNull DEF IInv
<1> QED
    BY <1>4, <1>8, <1>9, <1>12, <1>13, <1>14, <1>19, <1>20 DEF IInv, Contents

LEMMA SpawnTwoKeeps ==
    ASSUME IInv, NEW n \in 1 .. 2, Spawn(n), n = 2
    PROVE  IInv'
<1>1. /\ pc[Owner] = "idle" /\ pc' = [pc EXCEPT ![Owner] = "mail"]
      /\ spawned' = spawned + 2 /\ batch' = 2
      /\ UNCHANGED <<task_pool, head, tail, my_task_pool_size, task_pool_ptr, task_and_tag>>
      /\ UNCHANGED <<mailbox, my_pool_state, demand, times, result, mirror>>
      /\ UNCHANGED <<H0, H, skip_and_bump, snapshot>>
    BY DEF Goto, deque, mail, arena, thief, own, Spawn
<1>2. /\ spawned + 2 <= NumTasks /\ batch = 0
    BY NotNull, Typed, <1>1 DEF IInv, Room, SpawnLocs, Spawn
<1>3. /\ batch' \in Nat /\ spawned' \in 0 .. NumTasks
    BY NotNull, Typed, <1>1, <1>2 DEF IInv
<1>4. TypeOK'
    BY NotNull, LocsAre, <1>1, <1>2, <1>3 DEF IInv, TypeOK
<1>5. /\ Moves(Owner, "mail") /\ spawned' = spawned + 2 /\ batch' = 2
    BY NotNull, <1>1, <1>2 DEF IInv, TypeOK, Moves
<1>6. \A u \in Threads : u # Owner => Same(u)
    BY <1>1, <1>5, Unmoved, NotNull DEF Moves, Same
<1>7. /\ ~ Locking(Owner) /\ ~ Locking(Owner)' /\ ~ Stealing(Owner) /\ ~ Stealing(Owner)'
      /\ (Holds(Owner)' <=> Holds(Owner))
    BY <1>1, <1>5, <1>2, NotNull DEF Moves, Locking, Stealing, Holds, StealLocs
<1>8. Roles'
    BY <1>1, <1>5, <1>6, NotNull DEF IInv, Roles, Same, Moves, SpawnLocs, GetLocs,
        AdvertiseLocs, StealLocs, SnapshotLocs
<1>9. LockExact'
    BY <1>1, <1>5, <1>2, <1>6, <1>7, NotNull DEF IInv, LockExact, Same, Moves
<1>10. /\ Bound = tail /\ Bound' = tail' /\ Last = tail - 1 /\ Last' = tail' - 1
    BY <1>1, <1>5, <1>6, NotNull DEF Moves, Bound, Last, Same
<1>11. First' = First
    BY <1>1, <1>5, <1>2, <1>6, <1>7, <1>9, FirstStays, NotNull DEF IInv, Same, OthersKeep
<1>12. Room'
    BY Typed, NotNull, <1>1, <1>5, <1>2, <1>6 DEF IInv, Moves, Same, Room, SpawnLocs
<1>13. Carried'
    BY NotNull, <1>1, <1>5, <1>2, <1>6 DEF IInv, Moves, Same, Carried, AdvertiseLocs
<1>14. Ends'
    BY Typed, FirstTyped, <1>1, <1>5, <1>2, <1>6, <1>7, <1>11, <1>10, EndsStay, NotNull DEF
        IInv, Moves, Same
<1>15. SameEnds
    BY <1>1, <1>5, <1>2, <1>11, <1>10 DEF SameEnds
<1>16. Unmailed'
    BY <1>1, <1>5, <1>2 DEF Unmailed, Moves
<1>17. SameMail
    BY <1>1 DEF SameMail
<1>18. SameHands
    BY <1>1, <1>5, <1>6, <1>7 DEF SameHands, Same, Holds
<1>19. Contents'
    BY <1>1, <1>5, <1>2, <1>15, <1>16, <1>17, <1>18, NotNull, ContentsSpawned
<1>20. DemandExact'
    BY <1>1, <1>5, DemandStays, NotNull DEF IInv
<1> QED
    BY <1>4, <1>8, <1>9, <1>12, <1>13, <1>14, <1>19, <1>20 DEF IInv, Contents

LEMMA MailListKeeps ==
    ASSUME IInv, MailList
    PROVE  IInv'
<1>1. /\ pc[Owner] = "mail" /\ pc' = [pc EXCEPT ![Owner] = "prepare"] /\ MailBatch
      /\ UNCHANGED <<task_pool, head, tail, my_task_pool_size, task_pool_ptr, my_pool_state>>
      /\ UNCHANGED <<demand, spawned, times, result, batch, mirror>>
      /\ UNCHANGED <<H0, H, skip_and_bump, snapshot>>
    BY DEF Goto, deque, mail, arena, thief, own, MailList
<1>2. /\ batch = 2
    BY NotNull, Typed, <1>1 DEF IInv, Room
<1>3. /\ task_and_tag' \in [Tasks -> {"none", "both", "pool", "mailbox", "freed"}]
      /\ mailbox' \subseteq Tasks
    BY NotNull, Typed, <1>1, <1>2, MailIs DEF IInv
<1>4. TypeOK'
    BY NotNull, LocsAre, <1>1, <1>2, <1>3 DEF IInv, TypeOK
<1>5. /\ Moves(Owner, "prepare")
    BY NotNull, <1>1, <1>2 DEF IInv, TypeOK, Moves
<1>6. \A u \in Threads : u # Owner => Same(u)
    BY <1>1, <1>5, Unmoved, NotNull DEF Moves, Same
<1>7. /\ ~ Locking(Owner) /\ ~ Locking(Owner)' /\ ~ Stealing(Owner) /\ ~ Stealing(Owner)'
      /\ (Holds(Owner)' <=> Holds(Owner))
    BY <1>1, <1>5, <1>2, NotNull DEF Moves, Locking, Stealing, Holds, StealLocs
<1>8. Roles'
    BY <1>1, <1>5, <1>6, NotNull DEF IInv, Roles, Same, Moves, SpawnLocs, GetLocs,
        AdvertiseLocs, StealLocs, SnapshotLocs
<1>9. LockExact'
    BY <1>1, <1>5, <1>2, <1>6, <1>7, NotNull DEF IInv, LockExact, Same, Moves
<1>10. /\ Bound = tail /\ Bound' = tail' /\ Last = tail - 1 /\ Last' = tail' - 1
    BY <1>1, <1>5, <1>6, NotNull DEF Moves, Bound, Last, Same
<1>11. First' = First
    BY <1>1, <1>5, <1>2, <1>6, <1>7, <1>9, FirstStays, NotNull DEF IInv, Same, OthersKeep
<1>12. Room'
    BY Typed, NotNull, <1>1, <1>5, <1>2, <1>6 DEF IInv, Moves, Same, Room, SpawnLocs
<1>13. Carried'
    BY NotNull, <1>1, <1>5, <1>2, <1>6 DEF IInv, Moves, Same, Carried, AdvertiseLocs
<1>14. Ends'
    BY Typed, FirstTyped, <1>1, <1>5, <1>2, <1>6, <1>7, <1>11, <1>10, EndsStay, NotNull DEF
        IInv, Moves, Same
<1>15. SameEnds
    BY <1>1, <1>5, <1>2, <1>11, <1>10 DEF SameEnds
<1>16. Unmailed /\ ~ Unmailed'
    BY <1>1, <1>5, <1>2 DEF Unmailed, Moves
<1>17. SameHands
    BY <1>1, <1>5, <1>6, <1>7 DEF SameHands, Same, Holds
<1>18. Contents'
    BY <1>1, <1>5, <1>2, <1>15, <1>16, <1>17, NotNull, ContentsMailed
<1>19. DemandExact'
    BY <1>1, <1>5, DemandStays, NotNull DEF IInv
<1> QED
    BY <1>4, <1>8, <1>9, <1>12, <1>13, <1>14, <1>18, <1>19 DEF IInv, Contents

LEMMA PrepareFitsKeeps ==
    ASSUME IInv, Prepare, tail + batch <= my_task_pool_size
    PROVE  IInv'
<1>1. /\ pc[Owner] = "prepare" /\ pc' = [pc EXCEPT ![Owner] = "store"]
      /\ UNCHANGED <<task_pool, head, tail, my_task_pool_size, task_pool_ptr, task_and_tag>>
      /\ UNCHANGED <<mailbox, my_pool_state, demand, spawned, times, result>>
      /\ UNCHANGED <<batch, mirror, H0, H, skip_and_bump, snapshot>>
    BY Typed DEF Goto, deque, mail, arena, thief, own, Prepare, AcquirePool, IInv
<1>2. TypeOK'
    BY NotNull, LocsAre, <1>1 DEF IInv, TypeOK
<1>3. /\ Moves(Owner, "store")
    BY NotNull, <1>1 DEF IInv, TypeOK, Moves
<1>4. \A u \in Threads : u # Owner => Same(u)
    BY <1>1, <1>3, Unmoved, NotNull DEF Moves, Same
<1>5. /\ ~ Locking(Owner) /\ ~ Locking(Owner)' /\ ~ Stealing(Owner) /\ ~ Stealing(Owner)'
      /\ (Holds(Owner)' <=> Holds(Owner))
    BY <1>1, <1>3, NotNull DEF Moves, Locking, Stealing, Holds, StealLocs
<1>6. Roles'
    BY <1>1, <1>3, <1>4, NotNull DEF IInv, Roles, Same, Moves, SpawnLocs, GetLocs,
        AdvertiseLocs, StealLocs, SnapshotLocs
<1>7. LockExact'
    BY <1>1, <1>3, <1>4, <1>5, NotNull DEF IInv, LockExact, Same, Moves
<1>8. /\ Bound = tail /\ Bound' = tail' /\ Last = tail - 1 /\ Last' = tail' - 1
    BY <1>1, <1>3, <1>4, NotNull DEF Moves, Bound, Last, Same
<1>9. First' = First
    BY <1>1, <1>3, <1>4, <1>5, <1>7, FirstStays, NotNull DEF IInv, Same, OthersKeep
<1>10. Room'
    BY Typed, NotNull, <1>1, <1>3, <1>4 DEF IInv, Moves, Same, Room, SpawnLocs
<1>11. Carried'
    BY NotNull, <1>1, <1>3, <1>4 DEF IInv, Moves, Same, Carried, AdvertiseLocs
<1>12. Ends'
    BY Typed, FirstTyped, <1>1, <1>3, <1>4, <1>5, <1>9, <1>8, EndsStay, NotNull DEF IInv,
        Moves, Same
<1>13. SameEnds
    BY <1>1, <1>3, <1>9, <1>8 DEF SameEnds
<1>14. SameBatch
    BY <1>1, <1>3, <1>4, NotNull DEF SameBatch, Unmailed, Moves, Same
<1>15. SameMail
    BY <1>1 DEF SameMail
<1>16. SameHands
    BY <1>1, <1>3, <1>4, <1>5 DEF SameHands, Same, Holds
<1>17. Contents'
    BY <1>1, <1>3, <1>13, <1>14, <1>15, <1>16, NotNull, ContentsStay
<1>18. DemandExact'
    BY <1>1, <1>3, DemandStays, NotNull DEF IInv
<1> QED
    BY <1>2, <1>6, <1>7, <1>10, <1>11, <1>12, <1>17, <1>18 DEF IInv, Contents

LEMMA PrepareLocksKeeps ==
    ASSUME IInv,
           Prepare,
           task_pool = "published", ~ (tail + batch <= my_task_pool_size)
    PROVE  IInv'
<1>1. /\ pc[Owner] = "prepare" /\ pc' = [pc EXCEPT ![Owner] = "relocate"]
      /\ task_pool' = "locked"
      /\ UNCHANGED <<head, tail, my_task_pool_size, task_pool_ptr, task_and_tag, mailbox>>
      /\ UNCHANGED <<my_pool_state, demand, spawned, times, result, batch>>
      /\ UNCHANGED <<mirror, H0, H, skip_and_bump, snapshot>>
    BY DEF Goto, deque, mail, arena, thief, own, Prepare, AcquirePool
<1>2. TypeOK'
    BY NotNull, LocsAre, <1>1 DEF IInv, TypeOK
<1>3. /\ Moves(Owner, "relocate") /\ task_pool' = "locked"
    BY NotNull, <1>1 DEF IInv, TypeOK, Moves
<1>4. \A u \in Threads : u # Owner => Same(u)
    BY <1>1, <1>3, Unmoved, NotNull DEF Moves, Same
<1>5. /\ ~ Locking(Owner) /\ Locking(Owner)' /\ ~ Stealing(Owner) /\ ~ Stealing(Owner)'
      /\ (Holds(Owner)' <=> Holds(Owner))
    BY <1>1, <1>3, NotNull DEF Moves, Locking, Stealing, Holds, StealLocs
<1>6. Roles'
    BY <1>1, <1>3, <1>4, NotNull DEF IInv, Roles, Same, Moves, SpawnLocs, GetLocs,
        AdvertiseLocs, StealLocs, SnapshotLocs
<1>7. LockExact'
    BY <1>1, <1>3, <1>4, <1>5, NotNull DEF IInv, LockExact, Same, Moves
<1>8. /\ Bound = tail /\ Bound' = tail' /\ Last = tail - 1 /\ Last' = tail' - 1
    BY <1>1, <1>3, <1>4, NotNull DEF Moves, Bound, Last, Same
<1>9. \A u \in Workers : ~ Stealing(u) /\ ~ Stealing(u)'
    BY <1>1, <1>3, <1>4, <1>5, NotNull DEF IInv, LockExact, Same, Locking, Stealing,
        StealLocs
<1>10. /\ First = head /\ First' = head'
    BY <1>5, <1>7, <1>9, FirstIs, FirstIsNext DEF IInv, FirstThere
<1>11. Room'
    BY Typed, NotNull, <1>1, <1>3, <1>4 DEF IInv, Moves, Same, Room, SpawnLocs
<1>12. Carried'
    BY NotNull, <1>1, <1>3, <1>4 DEF IInv, Moves, Same, Carried, AdvertiseLocs
<1>13. head' <= Bound'
    BY Typed, FirstTyped, <1>1, <1>3, <1>10, <1>8, <1>9 DEF IInv, Ends
<1>14. Ends'
    BY <1>1, <1>3, <1>13, <1>9, EndsAlone DEF Moves
<1>15. SameEnds
    BY <1>1, <1>3, <1>10, <1>8, <1>9 DEF SameEnds
<1>16. SameBatch
    BY <1>1, <1>3, <1>4, NotNull DEF SameBatch, Unmailed, Moves, Same
<1>17. SameMail
    BY <1>1 DEF SameMail
<1>18. SameHands
    BY <1>1, <1>3, <1>4, <1>5 DEF SameHands, Same, Holds
<1>19. Contents'
    BY <1>1, <1>3, <1>15, <1>16, <1>17, <1>18, NotNull, ContentsStay
<1>20. DemandExact'
    BY <1>1, <1>3, DemandStays, NotNull DEF IInv
<1> QED
    BY <1>2, <1>6, <1>7, <1>11, <1>12, <1>14, <1>19, <1>20 DEF IInv, Contents

LEMMA PrepareAloneKeeps ==
    ASSUME IInv,
           Prepare,
           task_pool # "published", ~ (tail + batch <= my_task_pool_size)
    PROVE  IInv'
<1>1. /\ pc[Owner] = "prepare" /\ pc' = [pc EXCEPT ![Owner] = "relocate"]
      /\ UNCHANGED <<task_pool, head, tail, my_task_pool_size, task_pool_ptr, task_and_tag>>
      /\ UNCHANGED <<mailbox, my_pool_state, demand, spawned, times, result>>
      /\ UNCHANGED <<batch, mirror, H0, H, skip_and_bump, snapshot>>
    BY DEF Goto, deque, mail, arena, thief, own, Prepare, AcquirePool
<1>2. /\ task_pool = "empty" /\ (\A u \in Workers : ~ Locking(u))
    BY NotNull, Typed, <1>1, NotLocked DEF IInv, Prepare, AcquirePool
<1>3. TypeOK'
    BY NotNull, LocsAre, <1>1, <1>2 DEF IInv, TypeOK
<1>4. /\ Moves(Owner, "relocate")
    BY NotNull, <1>1, <1>2 DEF IInv, TypeOK, Moves
<1>5. \A u \in Threads : u # Owner => Same(u)
    BY <1>1, <1>4, Unmoved, NotNull DEF Moves, Same
<1>6. /\ ~ Locking(Owner) /\ Locking(Owner)' /\ ~ Stealing(Owner) /\ ~ Stealing(Owner)'
      /\ (Holds(Owner)' <=> Holds(Owner))
    BY <1>1, <1>4, <1>2, NotNull DEF Moves, Locking, Stealing, Holds, StealLocs
<1>7. Roles'
    BY <1>1, <1>4, <1>5, NotNull DEF IInv, Roles, Same, Moves, SpawnLocs, GetLocs,
        AdvertiseLocs, StealLocs, SnapshotLocs
<1>8. LockExact'
    BY <1>1, <1>4, <1>2, <1>5, <1>6, NotNull DEF IInv, LockExact, Same, Moves
<1>9. /\ Bound = tail /\ Bound' = tail' /\ Last = tail - 1 /\ Last' = tail' - 1
    BY <1>1, <1>4, <1>5, NotNull DEF Moves, Bound, Last, Same
<1>10. \A u \in Workers : ~ Stealing(u) /\ ~ Stealing(u)'
    BY <1>1, <1>4, <1>2, <1>5, <1>6, NotNull DEF IInv, LockExact, Same, Locking, Stealing,
        StealLocs
<1>11. /\ First = head /\ First' = head'
    BY <1>6, <1>8, <1>10, FirstIs, FirstIsNext DEF IInv, FirstThere
<1>12. Room'
    BY Typed, NotNull, <1>1, <1>4, <1>2, <1>5 DEF IInv, Moves, Same, Room, SpawnLocs
<1>13. Carried'
    BY NotNull, <1>1, <1>4, <1>2, <1>5 DEF IInv, Moves, Same, Carried, AdvertiseLocs
<1>14. head' <= Bound'
    BY Typed, FirstTyped, <1>1, <1>4, <1>2, <1>11, <1>9, <1>10 DEF IInv, Ends
<1>15. Ends'
    BY <1>1, <1>4, <1>14, <1>10, EndsAlone DEF Moves
<1>16. SameEnds
    BY <1>1, <1>4, <1>2, <1>11, <1>9, <1>10 DEF SameEnds
<1>17. SameBatch
    BY <1>1, <1>4, <1>5, NotNull, <1>2 DEF SameBatch, Unmailed, Moves, Same
<1>18. SameMail
    BY <1>1 DEF SameMail
<1>19. SameHands
    BY <1>1, <1>4, <1>5, <1>6 DEF SameHands, Same, Holds
<1>20. Contents'
    BY <1>1, <1>4, <1>2, <1>16, <1>17, <1>18, <1>19, NotNull, ContentsStay
<1>21. DemandExact'
    BY <1>1, <1>4, DemandStays, NotNull DEF IInv
<1> QED
    BY <1>3, <1>7, <1>8, <1>12, <1>13, <1>15, <1>20, <1>21 DEF IInv, Contents

LEMMA RelocateKeeps ==
    ASSUME IInv, Relocate
    PROVE  IInv'
<1>1. PICK n \in Nat : /\ n >= tail - head + batch /\ MoveTo(n)
             /\ pc[Owner] = "relocate" /\ Goto(Owner, "retail")
             /\ UNCHANGED <<task_pool, tail, mail, arena, spawned, times, result, batch,
                            thief, snapshot>>
    BY RelocateIs
<1>2. /\ pc[Owner] = "relocate" /\ pc' = [pc EXCEPT ![Owner] = "retail"] /\ head' = 0
      /\ my_task_pool_size' = n
      /\ task_pool_ptr' = [i \in 0 .. n - 1 |-> IF i < tail - head
             THEN task_pool_ptr[head + i] ELSE NULL]
      /\ mirror' = tail - head
      /\ UNCHANGED <<task_pool, tail, task_and_tag, mailbox, my_pool_state, demand>>
      /\ UNCHANGED <<spawned, times, result, batch, H0, H>>
      /\ UNCHANGED <<skip_and_bump, snapshot>>
    BY <1>1 DEF Goto, deque, mail, arena, thief, own, MoveTo
<1>3. /\ tail - head + batch <= n /\ head <= tail /\ batch \in Nat /\ tail \in Nat
      /\ head \in Nat /\ First = head /\ Last = tail - 1
      /\ (\A i \in 0 .. tail - head - 1 : head + i \in First .. Last /\ i \in 0 .. n - 1)
      /\ (\A k \in First .. Last : k - head \in 0 .. tail - head - 1 /\ head + (k - head) = k)
      /\ (\A i \in 0 .. tail - head - 1 : task_pool_ptr[head + i] \in Stored)
    <2>1. First = head /\ tail \in Int /\ head \in Nat /\ batch \in Nat
        BY <1>2, NoThief, Typed DEF IInv, Locking
    <2>2. head <= tail
        BY <1>2, NoThief DEF IInv, Ends, Bound, Locking
    <2>3. Last = tail - 1
        BY <1>2 DEF Last
    <2>4. tail - head + batch <= n
        BY <1>1, <2>1
    <2>5. \A i \in 0 .. tail - head - 1 : head + i \in First .. Last /\ i \in 0 .. n - 1
        BY <2>1, <2>2, <2>3, <2>4
    <2>6. \A k \in First .. Last : k - head \in 0 .. tail - head - 1 /\ head + (k - head) = k
        BY <2>1, <2>2, <2>3
    <2> QED BY <2>1, <2>2, <2>3, <2>4, <2>5, <2>6, FilledIs
<1>4. /\ head' \in Nat /\ my_task_pool_size' \in Nat /\ mirror' \in Nat
      /\ task_pool_ptr' \in [0 .. n - 1 -> Tasks \cup {NULL}]
    <2>1. tail - head \in Nat /\ n \in Nat /\ \A i \in 0 .. n - 1 : i < tail - head =>
              i \in 0 .. tail - head - 1
        BY <1>1, <1>3
    <2>2. \A i \in 0 .. n - 1 : i < tail - head => task_pool_ptr[head + i] \in Tasks
        BY <2>1, <1>3, StoredIs
    <2>3. task_pool_ptr' \in [0 .. n - 1 -> Tasks \cup {NULL}]
        BY <2>2, <1>2
    <2> QED BY <2>1, <2>3, <1>2
<1>5. TypeOK'
    BY NotNull, LocsAre, <1>2, <1>3, <1>4 DEF IInv, TypeOK
<1>6. /\ Moves(Owner, "retail") /\ head' = 0 /\ my_task_pool_size' = n
      /\ (\A i \in 0 .. n - 1 : i < tail - head => task_pool_ptr'[i] = task_pool_ptr[head + i])
      /\ mirror' = tail - head
    BY NotNull, <1>2, <1>3 DEF IInv, TypeOK, Moves
<1>7. \A u \in Threads : u # Owner => Same(u)
    BY <1>2, <1>6, Unmoved, NotNull DEF Moves, Same
<1>8. /\ Locking(Owner) /\ Locking(Owner)' /\ ~ Stealing(Owner) /\ ~ Stealing(Owner)'
      /\ (Holds(Owner)' <=> Holds(Owner))
    BY <1>2, <1>6, <1>3, NotNull DEF Moves, Locking, Stealing, Holds, StealLocs
<1>9. Roles'
    BY <1>2, <1>6, <1>7, NotNull DEF IInv, Roles, Same, Moves, SpawnLocs, GetLocs,
        AdvertiseLocs, StealLocs, SnapshotLocs
<1>10. LockExact'
    BY <1>2, <1>6, <1>3, <1>7, <1>8, NotNull DEF IInv, LockExact, Same, Moves
<1>11. /\ Bound = tail /\ Bound' = tail' /\ Last = tail - 1 /\ Last' = mirror' - 1
    BY <1>2, <1>6, <1>7, NotNull DEF Moves, Bound, Last, Same
<1>12. \A u \in Workers : ~ Stealing(u) /\ ~ Stealing(u)'
    BY <1>2, <1>6, <1>3, <1>7, <1>8, NotNull DEF IInv, LockExact, Same, Locking, Stealing,
        StealLocs
<1>13. /\ First = head /\ First' = head'
    BY <1>8, <1>10, <1>12, FirstIs, FirstIsNext DEF IInv, FirstThere
<1>14. Room'
    BY Typed, NotNull, <1>2, <1>6, <1>3, <1>7 DEF IInv, Moves, Same, Room, SpawnLocs
<1>15. Carried'
    BY NotNull, <1>2, <1>6, <1>3, <1>7 DEF IInv, Moves, Same, Carried, AdvertiseLocs
<1>16. head' = 0
    BY Typed, FirstTyped, <1>2, <1>6, <1>3, <1>13, <1>11, <1>12 DEF IInv, Ends
<1>17. Ends'
    BY <1>2, <1>6, <1>16, <1>12, EndsAlone DEF Moves
<1>18. SameBatch
    BY <1>2, <1>6, <1>7, NotNull, <1>3 DEF SameBatch, Unmailed, Moves, Same
<1>19. SameMail
    BY <1>2 DEF SameMail
<1>20. SameHands
    BY <1>2, <1>6, <1>7, <1>8 DEF SameHands, Same, Holds
<1>21. Filled'
    <2>K. \A i \in First' .. Last' : /\ i \in 0 .. tail - head - 1 /\ i \in 0 .. n - 1
                                     /\ task_pool_ptr'[i] = task_pool_ptr[head + i]
        BY <1>6, <1>3, <1>13, <1>11
    <2>1. Stored' = Stored
        BY <1>2 DEF Stored
    <2> QED BY <2>K, <2>1, <1>6, <1>3 DEF Filled
<1>22. EntriesDiffer'
    BY <1>2, <1>6, <1>3, <1>13, <1>11, <1>12, FilledIs, Typed DEF IInv, EntriesDiffer
<1>23. \A u \in Tasks : Lies(u)' <=> Lies(u)
    <2>K. \A i \in First' .. Last' : /\ i \in 0 .. tail - head - 1 /\ i \in 0 .. n - 1
                                     /\ task_pool_ptr'[i] = task_pool_ptr[head + i]
        BY <1>6, <1>3, <1>13, <1>11
    <2>1. ASSUME NEW k \in First .. Last
          PROVE  k - head \in First' .. Last' /\ task_pool_ptr'[k - head] = task_pool_ptr[k]
        <3>1. k - head \in First' .. Last'
            BY <1>6, <1>3, <1>13, <1>11
        <3> QED BY <2>K, <3>1, <1>3
    <2>2. \A i \in First' .. Last' : head + i \in First .. Last
        BY <2>K, <1>3
    <2> QED BY <2>K, <2>1, <2>2 DEF Lies
<1>24. Contents'
    BY <1>2, <1>6, <1>3, <1>18, <1>19, <1>20, <1>21, <1>22, <1>23, NotNull, ContentsMoved
<1>25. DemandExact'
    BY <1>2, <1>6, DemandStays, NotNull DEF IInv
<1> QED
    BY <1>5, <1>9, <1>10, <1>14, <1>15, <1>17, <1>24, <1>25 DEF IInv, Contents

LEMMA StoreTailLockedKeeps ==
    ASSUME IInv, StoreTail, task_pool = "locked"
    PROVE  IInv'
<1>1. /\ pc[Owner] = "retail" /\ pc' = [pc EXCEPT ![Owner] = "p_release"]
      /\ tail' = mirror /\ mirror' = 0
      /\ UNCHANGED <<task_pool, head, my_task_pool_size, task_pool_ptr, task_and_tag, mailbox>>
      /\ UNCHANGED <<my_pool_state, demand, spawned, times, result, batch>>
      /\ UNCHANGED <<H0, H, skip_and_bump, snapshot>>
    BY DEF Goto, deque, mail, arena, thief, own, StoreTail
<1>2. /\ mirror + batch <= my_task_pool_size /\ task_pool = "locked"
    BY NotNull, Typed, <1>1 DEF IInv, Room, LockExact, Locking
<1>3. /\ tail' \in Nat \cup {-1} /\ mirror' \in Nat
    BY NotNull, Typed, <1>1, <1>2 DEF IInv
<1>4. TypeOK'
    BY NotNull, LocsAre, <1>1, <1>2, <1>3 DEF IInv, TypeOK
<1>5. /\ Moves(Owner, "p_release") /\ tail' = mirror /\ mirror' = 0
    BY NotNull, <1>1, <1>2 DEF IInv, TypeOK, Moves
<1>6. \A u \in Threads : u # Owner => Same(u)
    BY <1>1, <1>5, Unmoved, NotNull DEF Moves, Same
<1>7. /\ Locking(Owner) /\ Locking(Owner)' /\ ~ Stealing(Owner) /\ ~ Stealing(Owner)'
      /\ (Holds(Owner)' <=> Holds(Owner))
    BY <1>1, <1>5, <1>2, NotNull DEF Moves, Locking, Stealing, Holds, StealLocs
<1>8. Roles'
    BY <1>1, <1>5, <1>6, NotNull DEF IInv, Roles, Same, Moves, SpawnLocs, GetLocs,
        AdvertiseLocs, StealLocs, SnapshotLocs
<1>9. LockExact'
    BY <1>1, <1>5, <1>2, <1>6, <1>7, NotNull DEF IInv, LockExact, Same, Moves
<1>10. /\ Bound = tail /\ Bound' = tail' /\ Last = mirror - 1 /\ Last' = tail' - 1
    BY <1>1, <1>5, <1>6, NotNull DEF Moves, Bound, Last, Same
<1>11. \A u \in Workers : ~ Stealing(u) /\ ~ Stealing(u)'
    BY <1>1, <1>5, <1>2, <1>6, <1>7, NotNull DEF IInv, LockExact, Same, Locking, Stealing,
        StealLocs
<1>12. /\ First = head /\ First' = head'
    BY <1>7, <1>9, <1>11, FirstIs, FirstIsNext DEF IInv, FirstThere
<1>13. Room'
    BY Typed, NotNull, <1>1, <1>5, <1>2, <1>6 DEF IInv, Moves, Same, Room, SpawnLocs
<1>14. Carried'
    BY NotNull, <1>1, <1>5, <1>2, <1>6 DEF IInv, Moves, Same, Carried, AdvertiseLocs
<1>15. head' <= Bound'
    BY Typed, FirstTyped, <1>1, <1>5, <1>2, <1>12, <1>10, <1>11 DEF IInv, Ends
<1>16. Ends'
    BY <1>1, <1>5, <1>15, <1>11, EndsAlone DEF Moves
<1>17. SameEnds
    BY <1>1, <1>5, <1>2, <1>12, <1>10, <1>11 DEF SameEnds
<1>18. SameBatch
    BY <1>1, <1>5, <1>6, NotNull, <1>2 DEF SameBatch, Unmailed, Moves, Same
<1>19. SameMail
    BY <1>1 DEF SameMail
<1>20. SameHands
    BY <1>1, <1>5, <1>6, <1>7 DEF SameHands, Same, Holds
<1>21. Contents'
    BY <1>1, <1>5, <1>2, <1>17, <1>18, <1>19, <1>20, NotNull, ContentsStay
<1>22. DemandExact'
    BY <1>1, <1>5, DemandStays, NotNull DEF IInv
<1> QED
    BY <1>4, <1>8, <1>9, <1>13, <1>14, <1>16, <1>21, <1>22 DEF IInv, Contents

LEMMA StoreTailAloneKeeps ==
    ASSUME IInv, StoreTail, task_pool # "locked"
    PROVE  IInv'
<1>1. /\ pc[Owner] = "retail" /\ pc' = [pc EXCEPT ![Owner] = "store"] /\ tail' = mirror
      /\ mirror' = 0
      /\ UNCHANGED <<task_pool, head, my_task_pool_size, task_pool_ptr, task_and_tag, mailbox>>
      /\ UNCHANGED <<my_pool_state, demand, spawned, times, result, batch>>
      /\ UNCHANGED <<H0, H, skip_and_bump, snapshot>>
    BY DEF Goto, deque, mail, arena, thief, own, StoreTail
<1>2. /\ mirror + batch <= my_task_pool_size /\ task_pool = "empty"
    BY NotNull, Typed, <1>1 DEF IInv, Room, LockExact, Locking
<1>3. /\ tail' \in Nat \cup {-1} /\ mirror' \in Nat
    BY NotNull, Typed, <1>1, <1>2 DEF IInv
<1>4. TypeOK'
    BY NotNull, LocsAre, <1>1, <1>2, <1>3 DEF IInv, TypeOK
<1>5. /\ Moves(Owner, "store") /\ tail' = mirror /\ mirror' = 0
    BY NotNull, <1>1, <1>2 DEF IInv, TypeOK, Moves
<1>6. \A u \in Threads : u # Owner => Same(u)
    BY <1>1, <1>5, Unmoved, NotNull DEF Moves, Same
<1>7. /\ Locking(Owner) /\ ~ Locking(Owner)' /\ ~ Stealing(Owner) /\ ~ Stealing(Owner)'
      /\ (Holds(Owner)' <=> Holds(Owner))
    BY <1>1, <1>5, <1>2, NotNull DEF Moves, Locking, Stealing, Holds, StealLocs
<1>8. Roles'
    BY <1>1, <1>5, <1>6, NotNull DEF IInv, Roles, Same, Moves, SpawnLocs, GetLocs,
        AdvertiseLocs, StealLocs, SnapshotLocs
<1>9. LockExact'
    BY <1>1, <1>5, <1>2, <1>6, <1>7, NotNull DEF IInv, LockExact, Same, Moves
<1>10. /\ Bound = tail /\ Bound' = tail' /\ Last = mirror - 1 /\ Last' = tail' - 1
    BY <1>1, <1>5, <1>6, NotNull DEF Moves, Bound, Last, Same
<1>11. \A u \in Workers : ~ Stealing(u) /\ ~ Stealing(u)'
    BY <1>1, <1>5, <1>2, <1>6, <1>7, NotNull DEF IInv, LockExact, Same, Locking, Stealing,
        StealLocs
<1>12. /\ First = head /\ First' = head'
    BY <1>7, <1>9, <1>11, FirstIs, FirstIsNext DEF IInv, FirstThere
<1>13. Room'
    BY Typed, NotNull, <1>1, <1>5, <1>2, <1>6 DEF IInv, Moves, Same, Room, SpawnLocs
<1>14. Carried'
    BY NotNull, <1>1, <1>5, <1>2, <1>6 DEF IInv, Moves, Same, Carried, AdvertiseLocs
<1>15. head' <= Bound'
    BY Typed, FirstTyped, <1>1, <1>5, <1>2, <1>12, <1>10, <1>11 DEF IInv, Ends
<1>16. Ends'
    BY <1>1, <1>5, <1>15, <1>11, EndsAlone DEF Moves
<1>17. SameEnds
    BY <1>1, <1>5, <1>2, <1>12, <1>10, <1>11 DEF SameEnds
<1>18. SameBatch
    BY <1>1, <1>5, <1>6, NotNull, <1>2 DEF SameBatch, Unmailed, Moves, Same
<1>19. SameMail
    BY <1>1 DEF SameMail
<1>20. SameHands
    BY <1>1, <1>5, <1>6, <1>7 DEF SameHands, Same, Holds
<1>21. Contents'
    BY <1>1, <1>5, <1>2, <1>17, <1>18, <1>19, <1>20, NotNull, ContentsStay
<1>22. DemandExact'
    BY <1>1, <1>5, DemandStays, NotNull DEF IInv
<1> QED
    BY <1>4, <1>8, <1>9, <1>13, <1>14, <1>16, <1>21, <1>22 DEF IInv, Contents

LEMMA PReleaseKeeps ==
    ASSUME IInv, OwnerRelease("p_release", "store")
    PROVE  IInv'
<1>1. /\ pc[Owner] = "p_release" /\ pc' = [pc EXCEPT ![Owner] = "store"]
      /\ task_pool' = "published"
      /\ UNCHANGED <<head, tail, my_task_pool_size, task_pool_ptr, task_and_tag, mailbox>>
      /\ UNCHANGED <<my_pool_state, demand, spawned, times, result, batch>>
      /\ UNCHANGED <<mirror, H0, H, skip_and_bump, snapshot>>
    BY DEF Goto, deque, mail, arena, thief, own, OwnerRelease, ReleasePool
<1>2. TypeOK'
    BY NotNull, LocsAre, <1>1 DEF IInv, TypeOK
<1>3. /\ Moves(Owner, "store") /\ task_pool' = "published"
    BY NotNull, <1>1 DEF IInv, TypeOK, Moves
<1>4. \A u \in Threads : u # Owner => Same(u)
    BY <1>1, <1>3, Unmoved, NotNull DEF Moves, Same
<1>5. /\ Locking(Owner) /\ ~ Locking(Owner)' /\ ~ Stealing(Owner) /\ ~ Stealing(Owner)'
      /\ (Holds(Owner)' <=> Holds(Owner))
    BY <1>1, <1>3, NotNull DEF Moves, Locking, Stealing, Holds, StealLocs
<1>6. Roles'
    BY <1>1, <1>3, <1>4, NotNull DEF IInv, Roles, Same, Moves, SpawnLocs, GetLocs,
        AdvertiseLocs, StealLocs, SnapshotLocs
<1>7. LockExact'
    BY <1>1, <1>3, <1>4, <1>5, NotNull DEF IInv, LockExact, Same, Moves
<1>8. /\ Bound = tail /\ Bound' = tail' /\ Last = tail - 1 /\ Last' = tail' - 1
    BY <1>1, <1>3, <1>4, NotNull DEF Moves, Bound, Last, Same
<1>9. \A u \in Workers : ~ Stealing(u) /\ ~ Stealing(u)'
    BY <1>1, <1>3, <1>4, <1>5, NotNull DEF IInv, LockExact, Same, Locking, Stealing,
        StealLocs
<1>10. /\ First = head /\ First' = head'
    BY <1>5, <1>7, <1>9, FirstIs, FirstIsNext DEF IInv, FirstThere
<1>11. Room'
    BY Typed, NotNull, <1>1, <1>3, <1>4 DEF IInv, Moves, Same, Room, SpawnLocs
<1>12. Carried'
    BY NotNull, <1>1, <1>3, <1>4 DEF IInv, Moves, Same, Carried, AdvertiseLocs
<1>13. head' <= Bound'
    BY Typed, FirstTyped, <1>1, <1>3, <1>10, <1>8, <1>9 DEF IInv, Ends
<1>14. Ends'
    BY <1>1, <1>3, <1>13, <1>9, EndsAlone DEF Moves
<1>15. SameEnds
    BY <1>1, <1>3, <1>10, <1>8, <1>9 DEF SameEnds
<1>16. SameBatch
    BY <1>1, <1>3, <1>4, NotNull DEF SameBatch, Unmailed, Moves, Same
<1>17. SameMail
    BY <1>1 DEF SameMail
<1>18. SameHands
    BY <1>1, <1>3, <1>4, <1>5 DEF SameHands, Same, Holds
<1>19. Contents'
    BY <1>1, <1>3, <1>15, <1>16, <1>17, <1>18, NotNull, ContentsStay
<1>20. DemandExact'
    BY <1>1, <1>3, DemandStays, NotNull DEF IInv
<1> QED
    BY <1>2, <1>6, <1>7, <1>11, <1>12, <1>14, <1>19, <1>20 DEF IInv, Contents

LEMMA StoreOneKeeps ==
    ASSUME IInv, Store, batch = 1
    PROVE  IInv'
<1>1. /\ pc[Owner] = "store" /\ pc' = [pc EXCEPT ![Owner] = "commit"]
      /\ task_pool_ptr' = [i \in 0 .. my_task_pool_size - 1 |->
             IF i \in tail .. tail + batch - 1 THEN spawned - (i - tail) ELSE task_pool_ptr[i]]
      /\ MailBatch
      /\ UNCHANGED <<task_pool, head, tail, my_task_pool_size, my_pool_state, demand>>
      /\ UNCHANGED <<spawned, times, result, batch, mirror, H0>>
      /\ UNCHANGED <<H, skip_and_bump, snapshot>>
    BY DEF Goto, deque, mail, arena, thief, own, Store
<1>2. /\ tail + batch <= my_task_pool_size /\ batch \in 1 .. 2 /\ batch <= spawned
      /\ tail \in Nat
      /\ (\A i \in First .. Last : i \in 0 .. my_task_pool_size - 1 /\ i < tail)
      /\ (\A u \in Workers : pc[u] = "move" =>
             H[u] - 1 \in 0 .. my_task_pool_size - 1 /\ H[u] - 1 < tail)
    BY NotNull, Typed, <1>1, TailIs, FilledIs, FirstTyped, MoverIs DEF IInv, Room,
        SpawnLocs, Last, Bound
<1>3. /\ task_and_tag' \in [Tasks -> {"none", "both", "pool", "mailbox", "freed"}]
      /\ mailbox' \subseteq Tasks
      /\ task_pool_ptr' \in [0 .. my_task_pool_size - 1 -> Tasks \cup {NULL}]
    BY NotNull, Typed, <1>1, <1>2, MailIs DEF IInv
<1>4. TypeOK'
    BY NotNull, LocsAre, <1>1, <1>2, <1>3 DEF IInv, TypeOK
<1>5. /\ Moves(Owner, "commit")
      /\ (\A i \in 0 .. my_task_pool_size - 1 : task_pool_ptr'[i] =
             IF i \in tail .. tail + batch - 1 THEN spawned - (i - tail) ELSE task_pool_ptr[i])
    BY NotNull, <1>1, <1>2 DEF IInv, TypeOK, Moves
<1>6. \A u \in Threads : u # Owner => Same(u)
    BY <1>1, <1>5, Unmoved, NotNull DEF Moves, Same
<1>7. /\ ~ Locking(Owner) /\ ~ Locking(Owner)' /\ ~ Stealing(Owner) /\ ~ Stealing(Owner)'
      /\ (Holds(Owner)' <=> Holds(Owner))
    BY <1>1, <1>5, <1>2, NotNull DEF Moves, Locking, Stealing, Holds, StealLocs
<1>8. Roles'
    BY <1>1, <1>5, <1>6, NotNull DEF IInv, Roles, Same, Moves, SpawnLocs, GetLocs,
        AdvertiseLocs, StealLocs, SnapshotLocs
<1>9. LockExact'
    BY <1>1, <1>5, <1>2, <1>6, <1>7, NotNull DEF IInv, LockExact, Same, Moves
<1>10. /\ Bound = tail /\ Bound' = tail' /\ Last = tail - 1 /\ Last' = tail' - 1
    BY <1>1, <1>5, <1>6, NotNull DEF Moves, Bound, Last, Same
<1>11. First' = First
    BY <1>1, <1>5, <1>2, <1>6, <1>7, <1>9, FirstStays, NotNull DEF IInv, Same, OthersKeep
<1>12. Room'
    BY Typed, NotNull, <1>1, <1>5, <1>2, <1>6 DEF IInv, Moves, Same, Room, SpawnLocs
<1>13. Carried'
    BY NotNull, <1>1, <1>5, <1>2, <1>6 DEF IInv, Moves, Same, Carried, AdvertiseLocs
<1>14. /\ pc[Owner] = "store" /\ Moves(Owner, "commit") /\ head' = head /\ tail' = tail
       /\ \A u \in Workers : pc[u] = "move" =>
           task_pool_ptr'[H[u] - 1] = task_pool_ptr[H[u] - 1]
    BY <1>1, <1>5, <1>2, MoverIs, Typed DEF IInv
<1>15. Ends'
    BY Typed, FirstTyped, <1>14, <1>6, <1>7, <1>11, <1>10, EndsStay, NotNull DEF IInv,
        Moves, Same
<1>16. SameEnds
    BY <1>1, <1>5, <1>2, <1>11, <1>10 DEF SameEnds
<1>17. Unmailed /\ ~ Unmailed'
    BY <1>1, <1>5, <1>2 DEF Unmailed, Moves
<1>18. SameHands
    BY <1>1, <1>5, <1>6, <1>7 DEF SameHands, Same, Holds
<1>19. \A i \in First .. Last : task_pool_ptr'[i] = task_pool_ptr[i]
    BY <1>1, <1>5, <1>2, <1>11, <1>10, FilledIs
<1>20. Contents'
    BY <1>1, <1>5, <1>2, <1>16, <1>17, <1>18, <1>19, NotNull, ContentsMailed
<1>21. DemandExact'
    BY <1>1, <1>5, DemandStays, NotNull DEF IInv
<1> QED
    BY <1>4, <1>8, <1>9, <1>12, <1>13, <1>15, <1>20, <1>21 DEF IInv, Contents

LEMMA StoreListKeeps ==
    ASSUME IInv, Store, batch # 1
    PROVE  IInv'
<1>1. /\ pc[Owner] = "store" /\ pc' = [pc EXCEPT ![Owner] = "commit"]
      /\ task_pool_ptr' = [i \in 0 .. my_task_pool_size - 1 |->
             IF i \in tail .. tail + batch - 1 THEN spawned - (i - tail) ELSE task_pool_ptr[i]]
      /\ UNCHANGED <<task_pool, head, tail, my_task_pool_size, task_and_tag, mailbox>>
      /\ UNCHANGED <<my_pool_state, demand, spawned, times, result, batch>>
      /\ UNCHANGED <<mirror, H0, H, skip_and_bump, snapshot>>
    BY DEF Goto, deque, mail, arena, thief, own, Store
<1>2. /\ tail + batch <= my_task_pool_size /\ batch \in 1 .. 2 /\ batch <= spawned
      /\ tail \in Nat
      /\ (\A i \in First .. Last : i \in 0 .. my_task_pool_size - 1 /\ i < tail)
      /\ (\A u \in Workers : pc[u] = "move" =>
             H[u] - 1 \in 0 .. my_task_pool_size - 1 /\ H[u] - 1 < tail)
    BY NotNull, Typed, <1>1, TailIs, FilledIs, FirstTyped, MoverIs DEF IInv, Room,
        SpawnLocs, Last, Bound
<1>3. /\ task_pool_ptr' \in [0 .. my_task_pool_size - 1 -> Tasks \cup {NULL}]
    BY NotNull, Typed, <1>1, <1>2 DEF IInv
<1>4. TypeOK'
    BY NotNull, LocsAre, <1>1, <1>2, <1>3 DEF IInv, TypeOK
<1>5. /\ Moves(Owner, "commit")
      /\ (\A i \in 0 .. my_task_pool_size - 1 : task_pool_ptr'[i] =
             IF i \in tail .. tail + batch - 1 THEN spawned - (i - tail) ELSE task_pool_ptr[i])
    BY NotNull, <1>1, <1>2 DEF IInv, TypeOK, Moves
<1>6. \A u \in Threads : u # Owner => Same(u)
    BY <1>1, <1>5, Unmoved, NotNull DEF Moves, Same
<1>7. /\ ~ Locking(Owner) /\ ~ Locking(Owner)' /\ ~ Stealing(Owner) /\ ~ Stealing(Owner)'
      /\ (Holds(Owner)' <=> Holds(Owner))
    BY <1>1, <1>5, <1>2, NotNull DEF Moves, Locking, Stealing, Holds, StealLocs
<1>8. Roles'
    BY <1>1, <1>5, <1>6, NotNull DEF IInv, Roles, Same, Moves, SpawnLocs, GetLocs,
        AdvertiseLocs, StealLocs, SnapshotLocs
<1>9. LockExact'
    BY <1>1, <1>5, <1>2, <1>6, <1>7, NotNull DEF IInv, LockExact, Same, Moves
<1>10. /\ Bound = tail /\ Bound' = tail' /\ Last = tail - 1 /\ Last' = tail' - 1
    BY <1>1, <1>5, <1>6, NotNull DEF Moves, Bound, Last, Same
<1>11. First' = First
    BY <1>1, <1>5, <1>2, <1>6, <1>7, <1>9, FirstStays, NotNull DEF IInv, Same, OthersKeep
<1>12. Room'
    BY Typed, NotNull, <1>1, <1>5, <1>2, <1>6 DEF IInv, Moves, Same, Room, SpawnLocs
<1>13. Carried'
    BY NotNull, <1>1, <1>5, <1>2, <1>6 DEF IInv, Moves, Same, Carried, AdvertiseLocs
<1>14. /\ pc[Owner] = "store" /\ Moves(Owner, "commit") /\ head' = head /\ tail' = tail
       /\ \A u \in Workers : pc[u] = "move" =>
           task_pool_ptr'[H[u] - 1] = task_pool_ptr[H[u] - 1]
    BY <1>1, <1>5, <1>2, MoverIs, Typed DEF IInv
<1>15. Ends'
    BY Typed, FirstTyped, <1>14, <1>6, <1>7, <1>11, <1>10, EndsStay, NotNull DEF IInv,
        Moves, Same
<1>16. SameEnds
    BY <1>1, <1>5, <1>2, <1>11, <1>10 DEF SameEnds
<1>17. SameBatch
    BY <1>1, <1>5, <1>6, NotNull, <1>2 DEF SameBatch, Unmailed, Moves, Same
<1>18. SameMail
    BY <1>1 DEF SameMail
<1>19. SameHands
    BY <1>1, <1>5, <1>6, <1>7 DEF SameHands, Same, Holds
<1>20. \A i \in First .. Last : task_pool_ptr'[i] = task_pool_ptr[i]
    BY <1>1, <1>5, <1>2, <1>11, <1>10, FilledIs
<1>21. Contents'
    BY <1>1, <1>5, <1>2, <1>16, <1>17, <1>18, <1>19, <1>20, NotNull, ContentsStay
<1>22. DemandExact'
    BY <1>1, <1>5, DemandStays, NotNull DEF IInv
<1> QED
    BY <1>4, <1>8, <1>9, <1>12, <1>13, <1>15, <1>21, <1>22 DEF IInv, Contents

LEMMA CommitFirstKeeps ==
    ASSUME IInv, Commit, task_pool = "empty"
    PROVE  IInv'
<1>1. /\ pc[Owner] = "commit" /\ pc' = [pc EXCEPT ![Owner] = "enter"]
      /\ tail' = tail + batch /\ batch' = 0
      /\ UNCHANGED <<task_pool, head, my_task_pool_size, task_pool_ptr, task_and_tag, mailbox>>
      /\ UNCHANGED <<my_pool_state, demand, spawned, times, result, mirror>>
      /\ UNCHANGED <<H0, H, skip_and_bump, snapshot>>
    BY DEF Goto, deque, mail, arena, thief, own, Commit
<1>2. /\ batch \in 1 .. 2 /\ batch <= spawned /\ tail \in Nat
      /\ (\A i \in tail .. tail + batch - 1 :
             i < my_task_pool_size /\ task_pool_ptr[i] = spawned - (i - tail))
      /\ head <= tail
    BY NotNull, Typed, <1>1, TailIs, NotLocked DEF IInv, Room, SpawnLocs, Locking, Stealing,
        StealLocs, Ends, Bound
<1>3. /\ tail' \in Nat \cup {-1} /\ batch' \in Nat
    BY NotNull, Typed, <1>1, <1>2 DEF IInv
<1>4. TypeOK'
    BY NotNull, LocsAre, <1>1, <1>2, <1>3 DEF IInv, TypeOK
<1>5. /\ Moves(Owner, "enter") /\ tail' = tail + batch /\ batch' = 0
    BY NotNull, <1>1, <1>2 DEF IInv, TypeOK, Moves
<1>6. \A u \in Threads : u # Owner => Same(u)
    BY <1>1, <1>5, Unmoved, NotNull DEF Moves, Same
<1>7. /\ ~ Locking(Owner) /\ ~ Locking(Owner)' /\ ~ Stealing(Owner) /\ ~ Stealing(Owner)'
      /\ (Holds(Owner)' <=> Holds(Owner))
    BY <1>1, <1>5, <1>2, NotNull DEF Moves, Locking, Stealing, Holds, StealLocs
<1>8. Roles'
    BY <1>1, <1>5, <1>6, NotNull DEF IInv, Roles, Same, Moves, SpawnLocs, GetLocs,
        AdvertiseLocs, StealLocs, SnapshotLocs
<1>9. LockExact'
    BY <1>1, <1>5, <1>2, <1>6, <1>7, NotNull DEF IInv, LockExact, Same, Moves
<1>10. /\ Bound = tail /\ Bound' = tail' /\ Last = tail - 1 /\ Last' = tail' - 1
    BY <1>1, <1>5, <1>6, NotNull DEF Moves, Bound, Last, Same
<1>11. First' = First
    BY <1>1, <1>5, <1>2, <1>6, <1>7, <1>9, FirstStays, NotNull DEF IInv, Same, OthersKeep
<1>12. Room'
    BY Typed, NotNull, <1>1, <1>5, <1>2, <1>6 DEF IInv, Moves, Same, Room, SpawnLocs
<1>13. Carried'
    BY NotNull, <1>1, <1>5, <1>2, <1>6 DEF IInv, Moves, Same, Carried, AdvertiseLocs
<1>14. Ends'
    BY Typed, FirstTyped, <1>1, <1>5, <1>2, <1>6, <1>7, <1>11, <1>10, EndsStay, NotNull DEF
        IInv, Moves, Same
<1>15. ~ Unmailed'
    BY <1>1, <1>5, <1>2 DEF Unmailed, Moves
<1>16. SameMail
    BY <1>1 DEF SameMail
<1>17. SameHands
    BY <1>1, <1>5, <1>6, <1>7 DEF SameHands, Same, Holds
<1>18. Contents'
    BY <1>1, <1>5, <1>2, <1>15, <1>16, <1>17, <1>11, <1>10, NotNull, ContentsCommitted
<1>19. DemandExact'
    BY <1>1, <1>5, DemandStays, NotNull DEF IInv
<1> QED
    BY <1>4, <1>8, <1>9, <1>12, <1>13, <1>14, <1>18, <1>19 DEF IInv, Contents

LEMMA CommitKeeps ==
    ASSUME IInv, Commit, task_pool # "empty"
    PROVE  IInv'
<1>1. /\ pc[Owner] = "commit" /\ pc' = [pc EXCEPT ![Owner] = "adv_load"]
      /\ tail' = tail + batch /\ batch' = 0
      /\ UNCHANGED <<task_pool, head, my_task_pool_size, task_pool_ptr, task_and_tag, mailbox>>
      /\ UNCHANGED <<my_pool_state, demand, spawned, times, result, mirror>>
      /\ UNCHANGED <<H0, H, skip_and_bump, snapshot>>
    BY DEF Goto, deque, mail, arena, thief, own, Commit
<1>2. /\ batch \in 1 .. 2 /\ batch <= spawned /\ tail \in Nat
      /\ (\A i \in tail .. tail + batch - 1 :
             i < my_task_pool_size /\ task_pool_ptr[i] = spawned - (i - tail))
    BY NotNull, Typed, <1>1, TailIs DEF IInv, Room, SpawnLocs
<1>3. /\ tail' \in Nat \cup {-1} /\ batch' \in Nat
    BY NotNull, Typed, <1>1, <1>2 DEF IInv
<1>4. TypeOK'
    BY NotNull, LocsAre, <1>1, <1>2, <1>3 DEF IInv, TypeOK
<1>5. /\ Moves(Owner, "adv_load") /\ tail' = tail + batch /\ batch' = 0
    BY NotNull, <1>1, <1>2 DEF IInv, TypeOK, Moves
<1>6. \A u \in Threads : u # Owner => Same(u)
    BY <1>1, <1>5, Unmoved, NotNull DEF Moves, Same
<1>7. /\ ~ Locking(Owner) /\ ~ Locking(Owner)' /\ ~ Stealing(Owner) /\ ~ Stealing(Owner)'
      /\ (Holds(Owner)' <=> Holds(Owner))
    BY <1>1, <1>5, <1>2, NotNull DEF Moves, Locking, Stealing, Holds, StealLocs
<1>8. Roles'
    BY <1>1, <1>5, <1>6, NotNull DEF IInv, Roles, Same, Moves, SpawnLocs, GetLocs,
        AdvertiseLocs, StealLocs, SnapshotLocs
<1>9. LockExact'
    BY <1>1, <1>5, <1>2, <1>6, <1>7, NotNull DEF IInv, LockExact, Same, Moves
<1>10. /\ Bound = tail /\ Bound' = tail' /\ Last = tail - 1 /\ Last' = tail' - 1
    BY <1>1, <1>5, <1>6, NotNull DEF Moves, Bound, Last, Same
<1>11. First' = First
    BY <1>1, <1>5, <1>2, <1>6, <1>7, <1>9, FirstStays, NotNull DEF IInv, Same, OthersKeep
<1>12. Room'
    BY Typed, NotNull, <1>1, <1>5, <1>2, <1>6 DEF IInv, Moves, Same, Room, SpawnLocs
<1>13. Carried'
    BY NotNull, <1>1, <1>5, <1>2, <1>6 DEF IInv, Moves, Same, Carried, AdvertiseLocs
<1>14. Ends'
    BY Typed, FirstTyped, <1>1, <1>5, <1>2, <1>6, <1>7, <1>11, <1>10, EndsStay, NotNull DEF
        IInv, Moves, Same
<1>15. ~ Unmailed'
    BY <1>1, <1>5, <1>2 DEF Unmailed, Moves
<1>16. SameMail
    BY <1>1 DEF SameMail
<1>17. SameHands
    BY <1>1, <1>5, <1>6, <1>7 DEF SameHands, Same, Holds
<1>18. Contents'
    BY <1>1, <1>5, <1>2, <1>15, <1>16, <1>17, <1>11, <1>10, NotNull, ContentsCommitted
<1>19. DemandExact'
    BY <1>1, <1>5, DemandStays, NotNull DEF IInv
<1> QED
    BY <1>4, <1>8, <1>9, <1>12, <1>13, <1>14, <1>18, <1>19 DEF IInv, Contents

LEMMA EnterArenaKeeps ==
    ASSUME IInv, EnterArena
    PROVE  IInv'
<1>1. /\ pc[Owner] = "enter" /\ pc' = [pc EXCEPT ![Owner] = "adv_load"]
      /\ task_pool' = "published"
      /\ UNCHANGED <<head, tail, my_task_pool_size, task_pool_ptr, task_and_tag, mailbox>>
      /\ UNCHANGED <<my_pool_state, demand, spawned, times, result, batch>>
      /\ UNCHANGED <<mirror, H0, H, skip_and_bump, snapshot>>
    BY DEF Goto, deque, mail, arena, thief, own, EnterArena, ReleasePool
<1>2. /\ (\A u \in Workers : ~ Locking(u))
    BY NotNull, Typed, <1>1, NotLocked DEF IInv, LockExact
<1>3. TypeOK'
    BY NotNull, LocsAre, <1>1, <1>2 DEF IInv, TypeOK
<1>4. /\ Moves(Owner, "adv_load") /\ task_pool' = "published"
    BY NotNull, <1>1, <1>2 DEF IInv, TypeOK, Moves
<1>5. \A u \in Threads : u # Owner => Same(u)
    BY <1>1, <1>4, Unmoved, NotNull DEF Moves, Same
<1>6. /\ ~ Locking(Owner) /\ ~ Locking(Owner)' /\ ~ Stealing(Owner) /\ ~ Stealing(Owner)'
      /\ (Holds(Owner)' <=> Holds(Owner))
    BY <1>1, <1>4, <1>2, NotNull DEF Moves, Locking, Stealing, Holds, StealLocs
<1>7. Roles'
    BY <1>1, <1>4, <1>5, NotNull DEF IInv, Roles, Same, Moves, SpawnLocs, GetLocs,
        AdvertiseLocs, StealLocs, SnapshotLocs
<1>8. LockExact'
    BY <1>1, <1>4, <1>2, <1>5, <1>6, NotNull DEF IInv, LockExact, Same, Moves
<1>9. /\ Bound = tail /\ Bound' = tail' /\ Last = tail - 1 /\ Last' = tail' - 1
    BY <1>1, <1>4, <1>5, NotNull DEF Moves, Bound, Last, Same
<1>10. First' = First
    BY <1>1, <1>4, <1>2, <1>5, <1>6, <1>8, FirstStays, NotNull DEF IInv, Same, OthersKeep
<1>11. Room'
    BY Typed, NotNull, <1>1, <1>4, <1>2, <1>5 DEF IInv, Moves, Same, Room, SpawnLocs
<1>12. Carried'
    BY NotNull, <1>1, <1>4, <1>2, <1>5 DEF IInv, Moves, Same, Carried, AdvertiseLocs
<1>13. Ends'
    BY Typed, FirstTyped, <1>1, <1>4, <1>2, <1>5, <1>6, <1>10, <1>9, EndsStay, NotNull DEF
        IInv, Moves, Same
<1>14. SameEnds
    BY <1>1, <1>4, <1>2, <1>10, <1>9 DEF SameEnds
<1>15. SameBatch
    BY <1>1, <1>4, <1>5, NotNull, <1>2 DEF SameBatch, Unmailed, Moves, Same
<1>16. SameMail
    BY <1>1 DEF SameMail
<1>17. SameHands
    BY <1>1, <1>4, <1>5, <1>6 DEF SameHands, Same, Holds
<1>18. Contents'
    BY <1>1, <1>4, <1>2, <1>14, <1>15, <1>16, <1>17, NotNull, ContentsStay
<1>19. DemandExact'
    BY <1>1, <1>4, DemandStays, NotNull DEF IInv
<1> QED
    BY <1>3, <1>7, <1>8, <1>11, <1>12, <1>13, <1>18, <1>19 DEF IInv, Contents

-----------------------------------------------------------------------------
(* get_task: the owner lowers the tail, and arbitrates when a thief may be there. *)

LEMMA GetTaskKeeps ==
    ASSUME IInv, GetTask
    PROVE  IInv'
<1>1. /\ pc[Owner] = "idle" /\ pc' = [pc EXCEPT ![Owner] = "g_head"] /\ tail' = tail - 1
      /\ UNCHANGED <<task_pool, head, my_task_pool_size, task_pool_ptr, task_and_tag, mailbox>>
      /\ UNCHANGED <<my_pool_state, demand, spawned, times, result, batch>>
      /\ UNCHANGED <<mirror, H0, H, skip_and_bump, snapshot>>
    BY DEF Goto, deque, mail, arena, thief, own, GetTask, LowerTail
<1>2. /\ tail \in Nat
    BY NotNull, Typed, <1>1, TailIs DEF IInv
<1>3. /\ tail' \in Nat \cup {-1}
    BY NotNull, Typed, <1>1, <1>2 DEF IInv
<1>4. TypeOK'
    BY NotNull, LocsAre, <1>1, <1>2, <1>3 DEF IInv, TypeOK
<1>5. /\ Moves(Owner, "g_head") /\ tail' = tail - 1
    BY NotNull, <1>1, <1>2 DEF IInv, TypeOK, Moves
<1>6. \A u \in Threads : u # Owner => Same(u)
    BY <1>1, <1>5, Unmoved, NotNull DEF Moves, Same
<1>7. /\ ~ Locking(Owner) /\ ~ Locking(Owner)' /\ ~ Stealing(Owner) /\ ~ Stealing(Owner)'
      /\ (Holds(Owner)' <=> Holds(Owner))
    BY <1>1, <1>5, <1>2, NotNull DEF Moves, Locking, Stealing, Holds, StealLocs
<1>8. Roles'
    BY <1>1, <1>5, <1>6, NotNull DEF IInv, Roles, Same, Moves, SpawnLocs, GetLocs,
        AdvertiseLocs, StealLocs, SnapshotLocs
<1>9. LockExact'
    BY <1>1, <1>5, <1>2, <1>6, <1>7, NotNull DEF IInv, LockExact, Same, Moves
<1>10. /\ Bound = tail /\ Bound' = tail' + 1 /\ Last = tail - 1 /\ Last' = tail'
    BY <1>1, <1>5, <1>6, NotNull DEF Moves, Bound, Last, Same
<1>11. First' = First
    BY <1>1, <1>5, <1>2, <1>6, <1>7, <1>9, FirstStays, NotNull DEF IInv, Same, OthersKeep
<1>12. Room'
    BY Typed, NotNull, <1>1, <1>5, <1>2, <1>6 DEF IInv, Moves, Same, Room, SpawnLocs
<1>13. Carried'
    BY NotNull, <1>1, <1>5, <1>2, <1>6 DEF IInv, Moves, Same, Carried, AdvertiseLocs
<1>14. Ends'
    BY Typed, FirstTyped, <1>1, <1>5, <1>2, <1>6, <1>7, <1>11, <1>10, EndsStay, NotNull DEF
        IInv, Moves, Same
<1>15. SameEnds
    BY <1>1, <1>5, <1>2, <1>11, <1>10 DEF SameEnds
<1>16. SameBatch
    BY <1>1, <1>5, <1>6, NotNull, <1>2 DEF SameBatch, Unmailed, Moves, Same
<1>17. SameMail
    BY <1>1 DEF SameMail
<1>18. SameHands
    BY <1>1, <1>5, <1>6, <1>7 DEF SameHands, Same, Holds
<1>19. Contents'
    BY <1>1, <1>5, <1>2, <1>15, <1>16, <1>17, <1>18, NotNull, ContentsStay
<1>20. DemandExact'
    BY <1>1, <1>5, DemandStays, NotNull DEF IInv
<1> QED
    BY <1>4, <1>8, <1>9, <1>12, <1>13, <1>14, <1>19, <1>20 DEF IInv, Contents

LEMMA TestHeadLostKeeps ==
    ASSUME IInv, TestHead, head > tail
    PROVE  IInv'
<1>1. /\ pc[Owner] = "g_head" /\ pc' = [pc EXCEPT ![Owner] = "g_lock"]
      /\ UNCHANGED <<task_pool, head, tail, my_task_pool_size, task_pool_ptr, task_and_tag>>
      /\ UNCHANGED <<mailbox, my_pool_state, demand, spawned, times, result>>
      /\ UNCHANGED <<batch, mirror, H0, H, skip_and_bump, snapshot>>
    BY DEF Goto, deque, mail, arena, thief, own, TestHead
<1>2. TypeOK'
    BY NotNull, LocsAre, <1>1 DEF IInv, TypeOK
<1>3. /\ Moves(Owner, "g_lock")
    BY NotNull, <1>1 DEF IInv, TypeOK, Moves
<1>4. \A u \in Threads : u # Owner => Same(u)
    BY <1>1, <1>3, Unmoved, NotNull DEF Moves, Same
<1>5. /\ ~ Locking(Owner) /\ ~ Locking(Owner)' /\ ~ Stealing(Owner) /\ ~ Stealing(Owner)'
      /\ (Holds(Owner)' <=> Holds(Owner))
    BY <1>1, <1>3, NotNull DEF Moves, Locking, Stealing, Holds, StealLocs
<1>6. Roles'
    BY <1>1, <1>3, <1>4, NotNull DEF IInv, Roles, Same, Moves, SpawnLocs, GetLocs,
        AdvertiseLocs, StealLocs, SnapshotLocs
<1>7. LockExact'
    BY <1>1, <1>3, <1>4, <1>5, NotNull DEF IInv, LockExact, Same, Moves
<1>8. /\ Bound = tail + 1 /\ Bound' = tail' + 1 /\ Last = tail /\ Last' = tail'
    BY <1>1, <1>3, <1>4, NotNull DEF Moves, Bound, Last, Same
<1>9. First' = First
    BY <1>1, <1>3, <1>4, <1>5, <1>7, FirstStays, NotNull DEF IInv, Same, OthersKeep
<1>10. Room'
    BY Typed, NotNull, <1>1, <1>3, <1>4 DEF IInv, Moves, Same, Room, SpawnLocs
<1>11. Carried'
    BY NotNull, <1>1, <1>3, <1>4 DEF IInv, Moves, Same, Carried, AdvertiseLocs
<1>12. Ends'
    BY Typed, FirstTyped, <1>1, <1>3, <1>4, <1>5, <1>9, <1>8, EndsStay, NotNull DEF IInv,
        Moves, Same
<1>13. SameEnds
    BY <1>1, <1>3, <1>9, <1>8 DEF SameEnds
<1>14. SameBatch
    BY <1>1, <1>3, <1>4, NotNull DEF SameBatch, Unmailed, Moves, Same
<1>15. SameMail
    BY <1>1 DEF SameMail
<1>16. SameHands
    BY <1>1, <1>3, <1>4, <1>5 DEF SameHands, Same, Holds
<1>17. Contents'
    BY <1>1, <1>3, <1>13, <1>14, <1>15, <1>16, NotNull, ContentsStay
<1>18. DemandExact'
    BY <1>1, <1>3, DemandStays, NotNull DEF IInv
<1> QED
    BY <1>2, <1>6, <1>7, <1>10, <1>11, <1>12, <1>17, <1>18 DEF IInv, Contents

LEMMA TestHeadKeeps ==
    ASSUME IInv, TestHead, ~ (head > tail)
    PROVE  IInv'
<1>1. /\ pc[Owner] = "g_head" /\ pc' = [pc EXCEPT ![Owner] = "g_take"]
      /\ UNCHANGED <<task_pool, head, tail, my_task_pool_size, task_pool_ptr, task_and_tag>>
      /\ UNCHANGED <<mailbox, my_pool_state, demand, spawned, times, result>>
      /\ UNCHANGED <<batch, mirror, H0, H, skip_and_bump, snapshot>>
    BY DEF Goto, deque, mail, arena, thief, own, TestHead
<1>2. /\ head <= tail
    BY NotNull, Typed, <1>1 DEF IInv
<1>3. TypeOK'
    BY NotNull, LocsAre, <1>1, <1>2 DEF IInv, TypeOK
<1>4. /\ Moves(Owner, "g_take")
    BY NotNull, <1>1, <1>2 DEF IInv, TypeOK, Moves
<1>5. \A u \in Threads : u # Owner => Same(u)
    BY <1>1, <1>4, Unmoved, NotNull DEF Moves, Same
<1>6. /\ ~ Locking(Owner) /\ ~ Locking(Owner)' /\ ~ Stealing(Owner) /\ ~ Stealing(Owner)'
      /\ (Holds(Owner)' <=> Holds(Owner))
    BY <1>1, <1>4, <1>2, NotNull DEF Moves, Locking, Stealing, Holds, StealLocs
<1>7. Roles'
    BY <1>1, <1>4, <1>5, NotNull DEF IInv, Roles, Same, Moves, SpawnLocs, GetLocs,
        AdvertiseLocs, StealLocs, SnapshotLocs
<1>8. LockExact'
    BY <1>1, <1>4, <1>2, <1>5, <1>6, NotNull DEF IInv, LockExact, Same, Moves
<1>9. /\ Bound = tail + 1 /\ Bound' = tail' /\ Last = tail /\ Last' = tail'
    BY <1>1, <1>4, <1>5, NotNull DEF Moves, Bound, Last, Same
<1>10. First' = First
    BY <1>1, <1>4, <1>2, <1>5, <1>6, <1>8, FirstStays, NotNull DEF IInv, Same, OthersKeep
<1>11. Room'
    BY Typed, NotNull, <1>1, <1>4, <1>2, <1>5 DEF IInv, Moves, Same, Room, SpawnLocs
<1>12. Carried'
    BY NotNull, <1>1, <1>4, <1>2, <1>5 DEF IInv, Moves, Same, Carried, AdvertiseLocs
<1>13. Ends'
    BY Typed, FirstTyped, <1>1, <1>4, <1>2, <1>5, <1>6, <1>10, <1>9, EndsStay, NotNull DEF
        IInv, Moves, Same, Stealing
<1>14. SameEnds
    BY <1>1, <1>4, <1>2, <1>10, <1>9 DEF SameEnds
<1>15. SameBatch
    BY <1>1, <1>4, <1>5, NotNull, <1>2 DEF SameBatch, Unmailed, Moves, Same
<1>16. SameMail
    BY <1>1 DEF SameMail
<1>17. SameHands
    BY <1>1, <1>4, <1>5, <1>6 DEF SameHands, Same, Holds
<1>18. Contents'
    BY <1>1, <1>4, <1>2, <1>14, <1>15, <1>16, <1>17, NotNull, ContentsStay
<1>19. DemandExact'
    BY <1>1, <1>4, DemandStays, NotNull DEF IInv
<1> QED
    BY <1>3, <1>7, <1>8, <1>11, <1>12, <1>13, <1>18, <1>19 DEF IInv, Contents

LEMMA TakeTailKeeps ==
    ASSUME IInv, TakeTail
    PROVE  IInv'
<1>1. /\ pc[Owner] = "g_take" /\ pc' = [pc EXCEPT ![Owner] = "g_got"]
      /\ task_pool_ptr' = [task_pool_ptr EXCEPT ![tail] = NULL]
      /\ result' = [result EXCEPT ![Owner] = task_pool_ptr[tail]]
      /\ UNCHANGED <<task_pool, head, tail, my_task_pool_size, task_and_tag, mailbox>>
      /\ UNCHANGED <<my_pool_state, demand, spawned, times, batch, mirror>>
      /\ UNCHANGED <<H0, H, skip_and_bump, snapshot>>
    BY DEF Goto, deque, mail, arena, thief, own, TakeTail, TakeEntry
<1>2. /\ (\A u \in Workers : pc[u] = "move" =>
             H[u] - 1 \in 0 .. my_task_pool_size - 1 /\ H[u] - 1 < tail)
      /\ tail \in First .. Last /\ tail \in 0 .. my_task_pool_size - 1
      /\ task_pool_ptr[tail] \in Stored /\ task_pool_ptr[tail] \in Tasks
      /\ result[Owner] = NULL
    BY NotNull, Typed, <1>1, FirstTyped, FilledIs, MoverIs DEF IInv, Last, Bound, Carried
<1>3. TypeOK'
    BY NotNull, LocsAre, <1>1, <1>2 DEF IInv, TypeOK
<1>4. /\ Moves(Owner, "g_got")
      /\ (\A i \in 0 .. my_task_pool_size - 1 : i # tail =>
             task_pool_ptr'[i] = task_pool_ptr[i])
      /\ result'[Owner] = task_pool_ptr[tail]
      /\ (\A u \in Threads : u # Owner => result'[u] = result[u])
    BY NotNull, <1>1, <1>2 DEF IInv, TypeOK, Moves
<1>5. \A u \in Threads : u # Owner => Same(u)
    BY <1>1, <1>4, Unmoved, NotNull DEF Moves, Same
<1>6. /\ ~ Locking(Owner) /\ ~ Locking(Owner)' /\ ~ Stealing(Owner) /\ ~ Stealing(Owner)'
      /\ ~ Holds(Owner) /\ Holds(Owner)'
    BY <1>1, <1>4, <1>2, NotNull, TaskNull DEF Moves, Locking, Stealing, Holds, StealLocs
<1>7. Roles'
    BY <1>1, <1>4, <1>5, NotNull DEF IInv, Roles, Same, Moves, SpawnLocs, GetLocs,
        AdvertiseLocs, StealLocs, SnapshotLocs
<1>8. LockExact'
    BY <1>1, <1>4, <1>2, <1>5, <1>6, NotNull DEF IInv, LockExact, Same, Moves
<1>9. /\ Bound = tail /\ Bound' = tail' /\ Last = tail /\ Last' = tail' - 1
    BY <1>1, <1>4, <1>5, NotNull DEF Moves, Bound, Last, Same
<1>10. First' = First
    BY <1>1, <1>4, <1>2, <1>5, <1>6, <1>8, FirstStays, NotNull DEF IInv, Same, OthersKeep
<1>11. Room'
    BY Typed, NotNull, <1>1, <1>4, <1>2, <1>5 DEF IInv, Moves, Same, Room, SpawnLocs
<1>12. Carried'
    BY NotNull, <1>1, <1>4, <1>2, <1>5 DEF IInv, Moves, Same, Carried, AdvertiseLocs
<1>13. /\ pc[Owner] = "g_take" /\ Moves(Owner, "g_got") /\ head' = head /\ tail' = tail
       /\ \A u \in Workers : pc[u] = "move" =>
           task_pool_ptr'[H[u] - 1] = task_pool_ptr[H[u] - 1]
    BY <1>1, <1>4, <1>2, MoverIs, Typed DEF IInv
<1>14. Ends'
    BY Typed, FirstTyped, <1>13, <1>5, <1>6, <1>10, <1>9, EndsStay, NotNull DEF IInv, Moves,
        Same
<1>15. SameBatch
    BY <1>1, <1>4, <1>5, NotNull, <1>2 DEF SameBatch, Unmailed, Moves, Same
<1>16. SameMail
    BY <1>1 DEF SameMail
<1>17. /\ \A i \in First' .. Last' : i \in First .. Last /\ i # tail
       /\ \A i \in First .. Last : i # tail => i \in First' .. Last'
       /\ \A i \in First .. Last : i # tail => task_pool_ptr'[i] = task_pool_ptr[i]
    BY Typed, FirstTyped, FilledIs, <1>1, <1>4, <1>2, <1>10, <1>9 DEF IInv
<1>18. Contents'
    BY <1>1, <1>4, <1>2, <1>15, <1>16, <1>17, <1>5, <1>6, NotNull, EndTaken
<1>19. DemandExact'
    BY <1>1, <1>4, DemandStays, NotNull DEF IInv
<1> QED
    BY <1>3, <1>7, <1>8, <1>11, <1>12, <1>14, <1>18, <1>19 DEF IInv, Contents

LEMMA LockOwnPoolKeeps ==
    ASSUME IInv, LockOwnPool
    PROVE  IInv'
<1>1. /\ pc[Owner] = "g_lock" /\ pc' = [pc EXCEPT ![Owner] = "g_arbitrate"]
      /\ task_pool' = "locked"
      /\ UNCHANGED <<head, tail, my_task_pool_size, task_pool_ptr, task_and_tag, mailbox>>
      /\ UNCHANGED <<my_pool_state, demand, spawned, times, result, batch>>
      /\ UNCHANGED <<mirror, H0, H, skip_and_bump, snapshot>>
    BY DEF Goto, deque, mail, arena, thief, own, LockOwnPool, AcquirePool
<1>2. /\ task_pool = "published"
    BY NotNull, Typed, <1>1 DEF IInv, LockOwnPool, AcquirePool
<1>3. TypeOK'
    BY NotNull, LocsAre, <1>1, <1>2 DEF IInv, TypeOK
<1>4. /\ Moves(Owner, "g_arbitrate") /\ task_pool' = "locked"
    BY NotNull, <1>1, <1>2 DEF IInv, TypeOK, Moves
<1>5. \A u \in Threads : u # Owner => Same(u)
    BY <1>1, <1>4, Unmoved, NotNull DEF Moves, Same
<1>6. /\ ~ Locking(Owner) /\ Locking(Owner)' /\ ~ Stealing(Owner) /\ ~ Stealing(Owner)'
      /\ (Holds(Owner)' <=> Holds(Owner))
    BY <1>1, <1>4, <1>2, NotNull DEF Moves, Locking, Stealing, Holds, StealLocs
<1>7. Roles'
    BY <1>1, <1>4, <1>5, NotNull DEF IInv, Roles, Same, Moves, SpawnLocs, GetLocs,
        AdvertiseLocs, StealLocs, SnapshotLocs
<1>8. LockExact'
    BY <1>1, <1>4, <1>2, <1>5, <1>6, NotNull DEF IInv, LockExact, Same, Moves
<1>9. /\ Bound = tail + 1 /\ Bound' = tail' + 1 /\ Last = tail /\ Last' = tail'
    BY <1>1, <1>4, <1>5, NotNull DEF Moves, Bound, Last, Same
<1>10. \A u \in Workers : ~ Stealing(u) /\ ~ Stealing(u)'
    BY <1>1, <1>4, <1>2, <1>5, <1>6, NotNull DEF IInv, LockExact, Same, Locking, Stealing,
        StealLocs
<1>11. /\ First = head /\ First' = head'
    BY <1>6, <1>8, <1>10, FirstIs, FirstIsNext DEF IInv, FirstThere
<1>12. Room'
    BY Typed, NotNull, <1>1, <1>4, <1>2, <1>5 DEF IInv, Moves, Same, Room, SpawnLocs
<1>13. Carried'
    BY NotNull, <1>1, <1>4, <1>2, <1>5 DEF IInv, Moves, Same, Carried, AdvertiseLocs
<1>14. head' <= Bound'
    BY Typed, FirstTyped, <1>1, <1>4, <1>2, <1>11, <1>9, <1>10 DEF IInv, Ends
<1>15. Ends'
    BY <1>1, <1>4, <1>14, <1>10, EndsAlone DEF Moves
<1>16. SameEnds
    BY <1>1, <1>4, <1>2, <1>11, <1>9, <1>10 DEF SameEnds
<1>17. SameBatch
    BY <1>1, <1>4, <1>5, NotNull, <1>2 DEF SameBatch, Unmailed, Moves, Same
<1>18. SameMail
    BY <1>1 DEF SameMail
<1>19. SameHands
    BY <1>1, <1>4, <1>5, <1>6 DEF SameHands, Same, Holds
<1>20. Contents'
    BY <1>1, <1>4, <1>2, <1>16, <1>17, <1>18, <1>19, NotNull, ContentsStay
<1>21. DemandExact'
    BY <1>1, <1>4, DemandStays, NotNull DEF IInv
<1> QED
    BY <1>3, <1>7, <1>8, <1>12, <1>13, <1>15, <1>20, <1>21 DEF IInv, Contents

LEMMA ArbitrateWinsKeeps ==
    ASSUME IInv, Arbitrate, head < tail
    PROVE  IInv'
<1>1. /\ pc[Owner] = "g_arbitrate" /\ pc' = [pc EXCEPT ![Owner] = "g_release"]
      /\ task_pool_ptr' = [task_pool_ptr EXCEPT ![tail] = NULL]
      /\ result' = [result EXCEPT ![Owner] = task_pool_ptr[tail]]
      /\ UNCHANGED <<task_pool, head, tail, my_task_pool_size, task_and_tag, mailbox>>
      /\ UNCHANGED <<my_pool_state, demand, spawned, times, batch, mirror>>
      /\ UNCHANGED <<H0, H, skip_and_bump, snapshot>>
    BY Typed DEF Goto, deque, mail, arena, thief, own, Arbitrate, TakeEntry, IInv
<1>2. /\ tail \in First .. Last /\ tail \in 0 .. my_task_pool_size - 1
      /\ task_pool_ptr[tail] \in Stored /\ task_pool_ptr[tail] \in Tasks
      /\ result[Owner] = NULL
    BY NotNull, Typed, <1>1, NoThief, FilledIs DEF IInv, Last, Carried, Locking
<1>3. TypeOK'
    BY NotNull, LocsAre, <1>1, <1>2 DEF IInv, TypeOK
<1>4. /\ Moves(Owner, "g_release")
      /\ (\A i \in 0 .. my_task_pool_size - 1 : i # tail =>
             task_pool_ptr'[i] = task_pool_ptr[i])
      /\ result'[Owner] = task_pool_ptr[tail]
      /\ (\A u \in Threads : u # Owner => result'[u] = result[u])
    BY NotNull, <1>1, <1>2 DEF IInv, TypeOK, Moves
<1>5. \A u \in Threads : u # Owner => Same(u)
    BY <1>1, <1>4, Unmoved, NotNull DEF Moves, Same
<1>6. /\ Locking(Owner) /\ Locking(Owner)' /\ ~ Stealing(Owner) /\ ~ Stealing(Owner)'
      /\ ~ Holds(Owner) /\ Holds(Owner)'
    BY <1>1, <1>4, <1>2, NotNull, TaskNull DEF Moves, Locking, Stealing, Holds, StealLocs
<1>7. Roles'
    BY <1>1, <1>4, <1>5, NotNull DEF IInv, Roles, Same, Moves, SpawnLocs, GetLocs,
        AdvertiseLocs, StealLocs, SnapshotLocs
<1>8. LockExact'
    BY <1>1, <1>4, <1>2, <1>5, <1>6, NotNull DEF IInv, LockExact, Same, Moves
<1>9. /\ Bound = tail + 1 /\ Bound' = tail' /\ Last = tail /\ Last' = tail' - 1
    BY <1>1, <1>4, <1>5, NotNull DEF Moves, Bound, Last, Same
<1>10. \A u \in Workers : ~ Stealing(u) /\ ~ Stealing(u)'
    BY <1>1, <1>4, <1>2, <1>5, <1>6, NotNull DEF IInv, LockExact, Same, Locking, Stealing,
        StealLocs
<1>11. /\ First = head /\ First' = head'
    BY <1>6, <1>8, <1>10, FirstIs, FirstIsNext DEF IInv, FirstThere
<1>12. Room'
    BY Typed, NotNull, <1>1, <1>4, <1>2, <1>5 DEF IInv, Moves, Same, Room, SpawnLocs
<1>13. Carried'
    BY NotNull, <1>1, <1>4, <1>2, <1>5 DEF IInv, Moves, Same, Carried, AdvertiseLocs
<1>14. head' <= Bound'
    BY Typed, FirstTyped, <1>1, <1>4, <1>2, <1>11, <1>9, <1>10 DEF IInv, Ends
<1>15. Ends'
    BY <1>1, <1>4, <1>14, <1>10, EndsAlone DEF Moves
<1>16. SameBatch
    BY <1>1, <1>4, <1>5, NotNull, <1>2 DEF SameBatch, Unmailed, Moves, Same
<1>17. SameMail
    BY <1>1 DEF SameMail
<1>18. /\ \A i \in First' .. Last' : i \in First .. Last /\ i # tail
       /\ \A i \in First .. Last : i # tail => i \in First' .. Last'
       /\ \A i \in First .. Last : i # tail => task_pool_ptr'[i] = task_pool_ptr[i]
    BY Typed, FirstTyped, FilledIs, <1>1, <1>4, <1>2, <1>11, <1>9, <1>10 DEF IInv
<1>19. Contents'
    BY <1>1, <1>4, <1>2, <1>16, <1>17, <1>18, <1>5, <1>6, NotNull, EndTaken
<1>20. DemandExact'
    BY <1>1, <1>4, DemandStays, NotNull DEF IInv
<1> QED
    BY <1>3, <1>7, <1>8, <1>12, <1>13, <1>15, <1>19, <1>20 DEF IInv, Contents

LEMMA ArbitrateLastKeeps ==
    ASSUME IInv, Arbitrate, head = tail
    PROVE  IInv'
<1>1. head <= tail /\ ~ (head < tail)
    BY Typed DEF IInv
<1>2. /\ pc[Owner] = "g_arbitrate" /\ pc' = [pc EXCEPT ![Owner] = "g_reset"]
      /\ task_pool_ptr' = [task_pool_ptr EXCEPT ![tail] = NULL]
      /\ result' = [result EXCEPT ![Owner] = task_pool_ptr[tail]]
      /\ UNCHANGED <<task_pool, head, tail, my_task_pool_size, task_and_tag, mailbox>>
      /\ UNCHANGED <<my_pool_state, demand, spawned, times, batch, mirror>>
      /\ UNCHANGED <<H0, H, skip_and_bump, snapshot>>
    BY <1>1 DEF Goto, deque, mail, arena, thief, own, Arbitrate, TakeEntry
<1>3. /\ tail \in First .. Last /\ tail \in 0 .. my_task_pool_size - 1
      /\ task_pool_ptr[tail] \in Stored /\ task_pool_ptr[tail] \in Tasks
      /\ result[Owner] = NULL
    BY NotNull, Typed, <1>2, NoThief, FilledIs DEF IInv, Last, Carried, Locking
<1>4. TypeOK'
    BY NotNull, LocsAre, <1>2, <1>3 DEF IInv, TypeOK
<1>5. /\ Moves(Owner, "g_reset")
      /\ (\A i \in 0 .. my_task_pool_size - 1 : i # tail =>
             task_pool_ptr'[i] = task_pool_ptr[i])
      /\ result'[Owner] = task_pool_ptr[tail]
      /\ (\A u \in Threads : u # Owner => result'[u] = result[u])
    BY NotNull, <1>2, <1>3 DEF IInv, TypeOK, Moves
<1>6. \A u \in Threads : u # Owner => Same(u)
    BY <1>2, <1>5, Unmoved, NotNull DEF Moves, Same
<1>7. /\ Locking(Owner) /\ Locking(Owner)' /\ ~ Stealing(Owner) /\ ~ Stealing(Owner)'
      /\ ~ Holds(Owner) /\ Holds(Owner)'
    BY <1>2, <1>5, <1>3, NotNull, TaskNull DEF Moves, Locking, Stealing, Holds, StealLocs
<1>8. Roles'
    BY <1>2, <1>5, <1>6, NotNull DEF IInv, Roles, Same, Moves, SpawnLocs, GetLocs,
        AdvertiseLocs, StealLocs, SnapshotLocs
<1>9. LockExact'
    BY <1>2, <1>5, <1>3, <1>6, <1>7, NotNull DEF IInv, LockExact, Same, Moves
<1>10. /\ Bound = tail + 1 /\ Bound' = tail' + 1 /\ Last = tail /\ Last' = tail' - 1
    BY <1>2, <1>5, <1>6, NotNull DEF Moves, Bound, Last, Same
<1>11. \A u \in Workers : ~ Stealing(u) /\ ~ Stealing(u)'
    BY <1>2, <1>5, <1>3, <1>6, <1>7, NotNull DEF IInv, LockExact, Same, Locking, Stealing,
        StealLocs
<1>12. /\ First = head /\ First' = head'
    BY <1>7, <1>9, <1>11, FirstIs, FirstIsNext DEF IInv, FirstThere
<1>13. Room'
    BY Typed, NotNull, <1>2, <1>5, <1>3, <1>6 DEF IInv, Moves, Same, Room, SpawnLocs
<1>14. Carried'
    BY NotNull, <1>2, <1>5, <1>3, <1>6 DEF IInv, Moves, Same, Carried, AdvertiseLocs
<1>15. head' <= Bound' /\ head' >= tail'
    BY Typed, FirstTyped, <1>2, <1>5, <1>3, <1>12, <1>10, <1>11 DEF IInv, Ends
<1>16. Ends'
    BY <1>2, <1>5, <1>15, <1>11, EndsAlone DEF Moves
<1>17. SameBatch
    BY <1>2, <1>5, <1>6, NotNull, <1>3 DEF SameBatch, Unmailed, Moves, Same
<1>18. SameMail
    BY <1>2 DEF SameMail
<1>19. /\ \A i \in First' .. Last' : i \in First .. Last /\ i # tail
       /\ \A i \in First .. Last : i # tail => i \in First' .. Last'
       /\ \A i \in First .. Last : i # tail => task_pool_ptr'[i] = task_pool_ptr[i]
    BY Typed, FirstTyped, FilledIs, <1>2, <1>5, <1>3, <1>12, <1>10, <1>11 DEF IInv
<1>20. Contents'
    BY <1>2, <1>5, <1>3, <1>17, <1>18, <1>19, <1>6, <1>7, NotNull, EndTaken
<1>21. DemandExact'
    BY <1>2, <1>5, DemandStays, NotNull DEF IInv
<1> QED
    BY <1>4, <1>8, <1>9, <1>13, <1>14, <1>16, <1>20, <1>21 DEF IInv, Contents

LEMMA ArbitrateLosesKeeps ==
    ASSUME IInv, Arbitrate, head > tail
    PROVE  IInv'
<1>1. ~ (head <= tail) /\ ~ (head < tail)
    BY Typed DEF IInv
<1>2. /\ pc[Owner] = "g_arbitrate" /\ pc' = [pc EXCEPT ![Owner] = "g_reset"]
      /\ UNCHANGED <<task_pool, head, tail, my_task_pool_size, task_pool_ptr, task_and_tag>>
      /\ UNCHANGED <<mailbox, my_pool_state, demand, spawned, times, result>>
      /\ UNCHANGED <<batch, mirror, H0, H, skip_and_bump, snapshot>>
    BY <1>1 DEF Goto, deque, mail, arena, thief, own, Arbitrate
<1>3. /\ head > tail
    BY NotNull, Typed, <1>2 DEF IInv
<1>4. TypeOK'
    BY NotNull, LocsAre, <1>2, <1>3 DEF IInv, TypeOK
<1>5. /\ Moves(Owner, "g_reset")
    BY NotNull, <1>2, <1>3 DEF IInv, TypeOK, Moves
<1>6. \A u \in Threads : u # Owner => Same(u)
    BY <1>2, <1>5, Unmoved, NotNull DEF Moves, Same
<1>7. /\ Locking(Owner) /\ Locking(Owner)' /\ ~ Stealing(Owner) /\ ~ Stealing(Owner)'
      /\ (Holds(Owner)' <=> Holds(Owner))
    BY <1>2, <1>5, <1>3, NotNull DEF Moves, Locking, Stealing, Holds, StealLocs
<1>8. Roles'
    BY <1>2, <1>5, <1>6, NotNull DEF IInv, Roles, Same, Moves, SpawnLocs, GetLocs,
        AdvertiseLocs, StealLocs, SnapshotLocs
<1>9. LockExact'
    BY <1>2, <1>5, <1>3, <1>6, <1>7, NotNull DEF IInv, LockExact, Same, Moves
<1>10. /\ Bound = tail + 1 /\ Bound' = tail' + 1 /\ Last = tail /\ Last' = tail' - 1
    BY <1>2, <1>5, <1>6, NotNull DEF Moves, Bound, Last, Same
<1>11. \A u \in Workers : ~ Stealing(u) /\ ~ Stealing(u)'
    BY <1>2, <1>5, <1>3, <1>6, <1>7, NotNull DEF IInv, LockExact, Same, Locking, Stealing,
        StealLocs
<1>12. /\ First = head /\ First' = head'
    BY <1>7, <1>9, <1>11, FirstIs, FirstIsNext DEF IInv, FirstThere
<1>13. Room'
    BY Typed, NotNull, <1>2, <1>5, <1>3, <1>6 DEF IInv, Moves, Same, Room, SpawnLocs
<1>14. Carried'
    BY NotNull, <1>2, <1>5, <1>3, <1>6 DEF IInv, Moves, Same, Carried, AdvertiseLocs
<1>15. head' <= Bound' /\ head' >= tail'
    BY Typed, FirstTyped, <1>2, <1>5, <1>3, <1>12, <1>10, <1>11 DEF IInv, Ends
<1>16. Ends'
    BY <1>2, <1>5, <1>15, <1>11, EndsAlone DEF Moves
<1>17. SameEnds
    BY <1>2, <1>5, <1>3, <1>12, <1>10, <1>11, Typed DEF SameEnds, IInv
<1>18. SameBatch
    BY <1>2, <1>5, <1>6, NotNull, <1>3 DEF SameBatch, Unmailed, Moves, Same
<1>19. SameMail
    BY <1>2 DEF SameMail
<1>20. SameHands
    BY <1>2, <1>5, <1>6, <1>7 DEF SameHands, Same, Holds
<1>21. Contents'
    BY <1>2, <1>5, <1>3, <1>17, <1>18, <1>19, <1>20, NotNull, ContentsStay
<1>22. DemandExact'
    BY <1>2, <1>5, DemandStays, NotNull DEF IInv
<1> QED
    BY <1>4, <1>8, <1>9, <1>13, <1>14, <1>16, <1>21, <1>22 DEF IInv, Contents

LEMMA LeaveArenaKeeps ==
    ASSUME IInv, LeaveArena
    PROVE  IInv'
<1>1. /\ pc[Owner] = "g_reset" /\ pc' = [pc EXCEPT ![Owner] = "g_got"]
      /\ task_pool' = "empty" /\ head' = 0 /\ tail' = 0
      /\ UNCHANGED <<my_task_pool_size, task_pool_ptr, task_and_tag, mailbox, my_pool_state,
             demand>>
      /\ UNCHANGED <<spawned, times, result, batch, mirror, H0>>
      /\ UNCHANGED <<H, skip_and_bump, snapshot>>
    BY DEF Goto, deque, mail, arena, thief, own, LeaveArena
<1>2. /\ head >= tail
    BY NotNull, Typed, <1>1 DEF IInv, Ends
<1>3. /\ head' \in Nat /\ tail' \in Nat \cup {-1}
    BY NotNull, Typed, <1>1, <1>2 DEF IInv
<1>4. TypeOK'
    BY NotNull, LocsAre, <1>1, <1>2, <1>3 DEF IInv, TypeOK
<1>5. /\ Moves(Owner, "g_got") /\ task_pool' = "empty" /\ head' = 0 /\ tail' = 0
    BY NotNull, <1>1, <1>2 DEF IInv, TypeOK, Moves
<1>6. \A u \in Threads : u # Owner => Same(u)
    BY <1>1, <1>5, Unmoved, NotNull DEF Moves, Same
<1>7. /\ Locking(Owner) /\ ~ Locking(Owner)' /\ ~ Stealing(Owner) /\ ~ Stealing(Owner)'
      /\ (Holds(Owner)' <=> Holds(Owner))
    BY <1>1, <1>5, <1>2, NotNull DEF Moves, Locking, Stealing, Holds, StealLocs
<1>8. Roles'
    BY <1>1, <1>5, <1>6, NotNull DEF IInv, Roles, Same, Moves, SpawnLocs, GetLocs,
        AdvertiseLocs, StealLocs, SnapshotLocs
<1>9. LockExact'
    BY <1>1, <1>5, <1>2, <1>6, <1>7, NotNull DEF IInv, LockExact, Same, Moves
<1>10. /\ Bound = tail + 1 /\ Bound' = tail' /\ Last = tail - 1 /\ Last' = tail' - 1
    BY <1>1, <1>5, <1>6, NotNull DEF Moves, Bound, Last, Same
<1>11. \A u \in Workers : ~ Stealing(u) /\ ~ Stealing(u)'
    BY <1>1, <1>5, <1>2, <1>6, <1>7, NotNull DEF IInv, LockExact, Same, Locking, Stealing,
        StealLocs
<1>12. /\ First = head /\ First' = head'
    BY <1>7, <1>9, <1>11, FirstIs, FirstIsNext DEF IInv, FirstThere
<1>13. Room'
    BY Typed, NotNull, <1>1, <1>5, <1>2, <1>6 DEF IInv, Moves, Same, Room, SpawnLocs
<1>14. Carried'
    BY NotNull, <1>1, <1>5, <1>2, <1>6 DEF IInv, Moves, Same, Carried, AdvertiseLocs
<1>15. head' <= Bound'
    BY Typed, FirstTyped, <1>1, <1>5, <1>2, <1>12, <1>10, <1>11 DEF IInv, Ends
<1>16. Ends'
    BY <1>1, <1>5, <1>15, <1>11, EndsAlone DEF Moves
<1>17. SameEnds
    BY <1>1, <1>5, <1>2, <1>12, <1>10, <1>11, Typed DEF SameEnds, IInv
<1>18. SameBatch
    BY <1>1, <1>5, <1>6, NotNull, <1>2 DEF SameBatch, Unmailed, Moves, Same
<1>19. SameMail
    BY <1>1 DEF SameMail
<1>20. SameHands
    BY <1>1, <1>5, <1>6, <1>7 DEF SameHands, Same, Holds
<1>21. Contents'
    BY <1>1, <1>5, <1>2, <1>17, <1>18, <1>19, <1>20, NotNull, ContentsStay
<1>22. DemandExact'
    BY <1>1, <1>5, DemandStays, NotNull DEF IInv
<1> QED
    BY <1>4, <1>8, <1>9, <1>13, <1>14, <1>16, <1>21, <1>22 DEF IInv, Contents

LEMMA GReleaseKeeps ==
    ASSUME IInv, OwnerRelease("g_release", "g_got")
    PROVE  IInv'
<1>1. /\ pc[Owner] = "g_release" /\ pc' = [pc EXCEPT ![Owner] = "g_got"]
      /\ task_pool' = "published"
      /\ UNCHANGED <<head, tail, my_task_pool_size, task_pool_ptr, task_and_tag, mailbox>>
      /\ UNCHANGED <<my_pool_state, demand, spawned, times, result, batch>>
      /\ UNCHANGED <<mirror, H0, H, skip_and_bump, snapshot>>
    BY DEF Goto, deque, mail, arena, thief, own, OwnerRelease, ReleasePool
<1>2. TypeOK'
    BY NotNull, LocsAre, <1>1 DEF IInv, TypeOK
<1>3. /\ Moves(Owner, "g_got") /\ task_pool' = "published"
    BY NotNull, <1>1 DEF IInv, TypeOK, Moves
<1>4. \A u \in Threads : u # Owner => Same(u)
    BY <1>1, <1>3, Unmoved, NotNull DEF Moves, Same
<1>5. /\ Locking(Owner) /\ ~ Locking(Owner)' /\ ~ Stealing(Owner) /\ ~ Stealing(Owner)'
      /\ (Holds(Owner)' <=> Holds(Owner))
    BY <1>1, <1>3, NotNull DEF Moves, Locking, Stealing, Holds, StealLocs
<1>6. Roles'
    BY <1>1, <1>3, <1>4, NotNull DEF IInv, Roles, Same, Moves, SpawnLocs, GetLocs,
        AdvertiseLocs, StealLocs, SnapshotLocs
<1>7. LockExact'
    BY <1>1, <1>3, <1>4, <1>5, NotNull DEF IInv, LockExact, Same, Moves
<1>8. /\ Bound = tail /\ Bound' = tail' /\ Last = tail - 1 /\ Last' = tail' - 1
    BY <1>1, <1>3, <1>4, NotNull DEF Moves, Bound, Last, Same
<1>9. \A u \in Workers : ~ Stealing(u) /\ ~ Stealing(u)'
    BY <1>1, <1>3, <1>4, <1>5, NotNull DEF IInv, LockExact, Same, Locking, Stealing,
        StealLocs
<1>10. /\ First = head /\ First' = head'
    BY <1>5, <1>7, <1>9, FirstIs, FirstIsNext DEF IInv, FirstThere
<1>11. Room'
    BY Typed, NotNull, <1>1, <1>3, <1>4 DEF IInv, Moves, Same, Room, SpawnLocs
<1>12. Carried'
    BY NotNull, <1>1, <1>3, <1>4 DEF IInv, Moves, Same, Carried, AdvertiseLocs
<1>13. head' <= Bound'
    BY Typed, FirstTyped, <1>1, <1>3, <1>10, <1>8, <1>9 DEF IInv, Ends
<1>14. Ends'
    BY <1>1, <1>3, <1>13, <1>9, EndsAlone DEF Moves
<1>15. SameEnds
    BY <1>1, <1>3, <1>10, <1>8, <1>9 DEF SameEnds
<1>16. SameBatch
    BY <1>1, <1>3, <1>4, NotNull DEF SameBatch, Unmailed, Moves, Same
<1>17. SameMail
    BY <1>1 DEF SameMail
<1>18. SameHands
    BY <1>1, <1>3, <1>4, <1>5 DEF SameHands, Same, Holds
<1>19. Contents'
    BY <1>1, <1>3, <1>15, <1>16, <1>17, <1>18, NotNull, ContentsStay
<1>20. DemandExact'
    BY <1>1, <1>3, DemandStays, NotNull DEF IInv
<1> QED
    BY <1>2, <1>6, <1>7, <1>11, <1>12, <1>14, <1>19, <1>20 DEF IInv, Contents

LEMMA GotNothingKeeps ==
    ASSUME IInv, Got, result[Owner] = NULL
    PROVE  IInv'
<1>1. /\ pc[Owner] = "g_got" /\ pc' = [pc EXCEPT ![Owner] = "idle"]
      /\ result' = [result EXCEPT ![Owner] = NULL]
      /\ UNCHANGED <<task_pool, head, tail, my_task_pool_size, task_pool_ptr, task_and_tag>>
      /\ UNCHANGED <<mailbox, my_pool_state, demand, spawned, times, batch>>
      /\ UNCHANGED <<mirror, H0, H, skip_and_bump, snapshot>>
    BY DEF Goto, deque, mail, arena, thief, own, Got, HasTask
<1>2. TypeOK'
    BY NotNull, LocsAre, <1>1 DEF IInv, TypeOK
<1>3. /\ Moves(Owner, "idle") /\ result'[Owner] = NULL
      /\ (\A u \in Threads : u # Owner => result'[u] = result[u])
    BY NotNull, <1>1 DEF IInv, TypeOK, Moves
<1>4. \A u \in Threads : u # Owner => Same(u)
    BY <1>1, <1>3, Unmoved, NotNull DEF Moves, Same
<1>5. /\ ~ Locking(Owner) /\ ~ Locking(Owner)' /\ ~ Stealing(Owner) /\ ~ Stealing(Owner)'
      /\ ~ Holds(Owner) /\ ~ Holds(Owner)'
    BY <1>1, <1>3, NotNull DEF Moves, Locking, Stealing, Holds, StealLocs
<1>6. Roles'
    BY <1>1, <1>3, <1>4, NotNull DEF IInv, Roles, Same, Moves, SpawnLocs, GetLocs,
        AdvertiseLocs, StealLocs, SnapshotLocs
<1>7. LockExact'
    BY <1>1, <1>3, <1>4, <1>5, NotNull DEF IInv, LockExact, Same, Moves
<1>8. /\ Bound = tail /\ Bound' = tail' /\ Last = tail - 1 /\ Last' = tail' - 1
    BY <1>1, <1>3, <1>4, NotNull DEF Moves, Bound, Last, Same
<1>9. First' = First
    BY <1>1, <1>3, <1>4, <1>5, <1>7, FirstStays, NotNull DEF IInv, Same, OthersKeep
<1>10. Room'
    BY Typed, NotNull, <1>1, <1>3, <1>4 DEF IInv, Moves, Same, Room, SpawnLocs
<1>11. Carried'
    BY NotNull, <1>1, <1>3, <1>4 DEF IInv, Moves, Same, Carried, AdvertiseLocs
<1>12. Ends'
    BY Typed, FirstTyped, <1>1, <1>3, <1>4, <1>5, <1>9, <1>8, EndsStay, NotNull DEF IInv,
        Moves, Same
<1>13. SameEnds
    BY <1>1, <1>3, <1>9, <1>8 DEF SameEnds
<1>14. SameBatch
    BY <1>1, <1>3, <1>4, NotNull DEF SameBatch, Unmailed, Moves, Same
<1>15. SameMail
    BY <1>1 DEF SameMail
<1>16. SameHands
    BY <1>1, <1>3, <1>4, <1>5 DEF SameHands, Same
<1>17. Contents'
    BY <1>1, <1>3, <1>13, <1>14, <1>15, <1>16, NotNull, ContentsStay
<1>18. DemandExact'
    BY <1>1, <1>3, DemandStays, NotNull DEF IInv
<1> QED
    BY <1>2, <1>6, <1>7, <1>10, <1>11, <1>12, <1>17, <1>18 DEF IInv, Contents

LEMMA GotAgainKeeps ==
    ASSUME IInv,
           Got,
           result[Owner] # NULL, ~ HasTask(result[Owner]), task_pool # "empty"
    PROVE  IInv'
<1>1. /\ pc[Owner] = "g_got" /\ pc' = [pc EXCEPT ![Owner] = "g_head"] /\ tail' = tail - 1
      /\ Extract(result[Owner], "mailbox") /\ result' = [result EXCEPT ![Owner] = NULL]
      /\ UNCHANGED <<task_pool, head, my_task_pool_size, task_pool_ptr, mailbox, my_pool_state>>
      /\ UNCHANGED <<demand, spawned, batch, mirror, H0, H>>
      /\ UNCHANGED <<skip_and_bump, snapshot>>
    BY DEF Goto, deque, mail, arena, thief, own, Got, LowerTail
<1>2. /\ result[Owner] \in Stored /\ result[Owner] \in Tasks /\ tail \in Nat
    BY NotNull, Typed, <1>1, TakenIs, TailIs DEF IInv
<1>3. /\ tail' \in Nat \cup {-1}
      /\ task_and_tag' \in [Tasks -> {"none", "both", "pool", "mailbox", "freed"}]
      /\ times' \in [Tasks -> Nat]
    BY NotNull, Typed, <1>1, <1>2, TakenIs DEF IInv
<1>4. TypeOK'
    BY NotNull, LocsAre, <1>1, <1>2, <1>3 DEF IInv, TypeOK
<1>5. /\ Moves(Owner, "g_head") /\ tail' = tail - 1 /\ result'[Owner] = NULL
      /\ (\A u \in Threads : u # Owner => result'[u] = result[u])
    BY NotNull, <1>1, <1>2 DEF IInv, TypeOK, Moves
<1>6. \A u \in Threads : u # Owner => Same(u)
    BY <1>1, <1>5, Unmoved, NotNull DEF Moves, Same
<1>7. /\ ~ Locking(Owner) /\ ~ Locking(Owner)' /\ ~ Stealing(Owner) /\ ~ Stealing(Owner)'
      /\ Holds(Owner) /\ ~ Holds(Owner)'
    BY <1>1, <1>5, <1>2, NotNull DEF Moves, Locking, Stealing, Holds, StealLocs
<1>8. Roles'
    BY <1>1, <1>5, <1>6, NotNull DEF IInv, Roles, Same, Moves, SpawnLocs, GetLocs,
        AdvertiseLocs, StealLocs, SnapshotLocs
<1>9. LockExact'
    BY <1>1, <1>5, <1>2, <1>6, <1>7, NotNull DEF IInv, LockExact, Same, Moves
<1>10. /\ Bound = tail /\ Bound' = tail' + 1 /\ Last = tail - 1 /\ Last' = tail'
    BY <1>1, <1>5, <1>6, NotNull DEF Moves, Bound, Last, Same
<1>11. First' = First
    BY <1>1, <1>5, <1>2, <1>6, <1>7, <1>9, FirstStays, NotNull DEF IInv, Same, OthersKeep
<1>12. Room'
    BY Typed, NotNull, <1>1, <1>5, <1>2, <1>6 DEF IInv, Moves, Same, Room, SpawnLocs
<1>13. Carried'
    BY NotNull, <1>1, <1>5, <1>2, <1>6 DEF IInv, Moves, Same, Carried, AdvertiseLocs
<1>14. Ends'
    BY Typed, FirstTyped, <1>1, <1>5, <1>2, <1>6, <1>7, <1>11, <1>10, EndsStay, NotNull DEF
        IInv, Moves, Same
<1>15. SameEnds
    BY <1>1, <1>5, <1>2, <1>11, <1>10 DEF SameEnds
<1>16. SameBatch
    BY <1>1, <1>5, <1>6, NotNull, <1>2 DEF SameBatch, Unmailed, Moves, Same
<1>17. Contents'
    BY <1>1, <1>5, <1>2, <1>15, <1>16, <1>6, <1>7, NotNull, ContentsDealt
<1>18. DemandExact'
    BY <1>1, <1>5, DemandStays, NotNull DEF IInv
<1> QED
    BY <1>4, <1>8, <1>9, <1>12, <1>13, <1>14, <1>17, <1>18 DEF IInv, Contents

LEMMA GotKeeps ==
    ASSUME IInv,
           Got,
           result[Owner] # NULL, HasTask(result[Owner]) \/ task_pool = "empty"
    PROVE  IInv'
<1>1. /\ pc[Owner] = "g_got" /\ pc' = [pc EXCEPT ![Owner] = "idle"]
      /\ Extract(result[Owner], "mailbox") /\ result' = [result EXCEPT ![Owner] = NULL]
      /\ UNCHANGED <<task_pool, head, tail, my_task_pool_size, task_pool_ptr, mailbox>>
      /\ UNCHANGED <<my_pool_state, demand, spawned, batch, mirror, H0>>
      /\ UNCHANGED <<H, skip_and_bump, snapshot>>
    BY DEF Goto, deque, mail, arena, thief, own, Got
<1>2. /\ result[Owner] \in Stored /\ result[Owner] \in Tasks
    BY NotNull, Typed, <1>1, TakenIs DEF IInv
<1>3. /\ task_and_tag' \in [Tasks -> {"none", "both", "pool", "mailbox", "freed"}]
      /\ times' \in [Tasks -> Nat]
    BY NotNull, Typed, <1>1, <1>2, TakenIs DEF IInv
<1>4. TypeOK'
    BY NotNull, LocsAre, <1>1, <1>2, <1>3 DEF IInv, TypeOK
<1>5. /\ Moves(Owner, "idle") /\ result'[Owner] = NULL
      /\ (\A u \in Threads : u # Owner => result'[u] = result[u])
    BY NotNull, <1>1, <1>2 DEF IInv, TypeOK, Moves
<1>6. \A u \in Threads : u # Owner => Same(u)
    BY <1>1, <1>5, Unmoved, NotNull DEF Moves, Same
<1>7. /\ ~ Locking(Owner) /\ ~ Locking(Owner)' /\ ~ Stealing(Owner) /\ ~ Stealing(Owner)'
      /\ Holds(Owner) /\ ~ Holds(Owner)'
    BY <1>1, <1>5, <1>2, NotNull DEF Moves, Locking, Stealing, Holds, StealLocs
<1>8. Roles'
    BY <1>1, <1>5, <1>6, NotNull DEF IInv, Roles, Same, Moves, SpawnLocs, GetLocs,
        AdvertiseLocs, StealLocs, SnapshotLocs
<1>9. LockExact'
    BY <1>1, <1>5, <1>2, <1>6, <1>7, NotNull DEF IInv, LockExact, Same, Moves
<1>10. /\ Bound = tail /\ Bound' = tail' /\ Last = tail - 1 /\ Last' = tail' - 1
    BY <1>1, <1>5, <1>6, NotNull DEF Moves, Bound, Last, Same
<1>11. First' = First
    BY <1>1, <1>5, <1>2, <1>6, <1>7, <1>9, FirstStays, NotNull DEF IInv, Same, OthersKeep
<1>12. Room'
    BY Typed, NotNull, <1>1, <1>5, <1>2, <1>6 DEF IInv, Moves, Same, Room, SpawnLocs
<1>13. Carried'
    BY NotNull, <1>1, <1>5, <1>2, <1>6 DEF IInv, Moves, Same, Carried, AdvertiseLocs
<1>14. Ends'
    BY Typed, FirstTyped, <1>1, <1>5, <1>2, <1>6, <1>7, <1>11, <1>10, EndsStay, NotNull DEF
        IInv, Moves, Same
<1>15. SameEnds
    BY <1>1, <1>5, <1>2, <1>11, <1>10 DEF SameEnds
<1>16. SameBatch
    BY <1>1, <1>5, <1>6, NotNull, <1>2 DEF SameBatch, Unmailed, Moves, Same
<1>17. Contents'
    BY <1>1, <1>5, <1>2, <1>15, <1>16, <1>6, <1>7, NotNull, ContentsDealt
<1>18. DemandExact'
    BY <1>1, <1>5, DemandStays, NotNull DEF IInv
<1> QED
    BY <1>4, <1>8, <1>9, <1>12, <1>13, <1>14, <1>17, <1>18 DEF IInv, Contents

-----------------------------------------------------------------------------
(* steal_task: a thief raises the head, skips proxies, and closes the hole it leaves. *)

LEMMA LockVictimKeeps ==
    ASSUME IInv, NEW w \in Workers, LockVictim(w)
    PROVE  IInv'
<1>1. /\ pc[w] = "idle" /\ pc' = [pc EXCEPT ![w] = "bump"] /\ task_pool' = "locked"
      /\ H0' = [H0 EXCEPT ![w] = head] /\ H' = [H EXCEPT ![w] = head]
      /\ UNCHANGED <<head, tail, my_task_pool_size, task_pool_ptr, task_and_tag, mailbox>>
      /\ UNCHANGED <<my_pool_state, demand, spawned, times, result, batch>>
      /\ UNCHANGED <<mirror, skip_and_bump, snapshot>>
    BY DEF Goto, deque, mail, arena, thief, own, LockVictim, AcquirePool
<1>2. /\ task_pool = "published" /\ head <= Bound /\ head \in Nat
    <2>1. task_pool = "published" /\ head \in Nat
        BY Typed DEF IInv, LockVictim, AcquirePool
    <2>2. (\A u \in Workers : ~ Stealing(u)) /\ pc[Owner] # "retail"
        BY <2>1, NotLocked, NotNull DEF IInv, LockExact, Locking, Stealing, StealLocs
    <2> QED BY <2>1, <2>2 DEF IInv, Ends
<1>3. TypeOK'
    BY NotNull, LocsAre, <1>1, <1>2, Typed DEF IInv, TypeOK
<1>4. /\ Moves(w, "bump") /\ task_pool' = "locked" /\ H0'[w] = head
      /\ (\A u \in Workers : u # w => H0'[u] = H0[u]) /\ H'[w] = head
      /\ (\A u \in Workers : u # w => H'[u] = H[u])
    BY NotNull, <1>1, <1>2 DEF IInv, TypeOK, Moves
<1>5. \A u \in Threads : u # w => Same(u)
    BY <1>1, <1>4, Unmoved, NotNull DEF Moves, Same
<1>6. /\ ~ Locking(w) /\ Locking(w)' /\ ~ Stealing(w) /\ Stealing(w)'
      /\ (Holds(w)' <=> Holds(w))
    BY <1>1, <1>4, <1>2, NotNull DEF Moves, Locking, Stealing, Holds, StealLocs
<1>7. Roles'
    BY <1>1, <1>4, <1>5, NotNull DEF IInv, Roles, Same, Moves, SpawnLocs, GetLocs,
        AdvertiseLocs, StealLocs, SnapshotLocs
<1>8. LockExact'
    BY <1>1, <1>4, <1>2, <1>5, <1>6, NotNull DEF IInv, LockExact, Same, Moves
<1>9. /\ Bound' = Bound /\ Last' = Last
    BY <1>1, <1>4, <1>5, NotNull DEF Moves, Bound, Last, Same
<1>10. pc[Owner] \notin {"retail", "g_reset", "enter"} /\ pc'[Owner] = pc[Owner]
      /\ \A u \in Workers : u # w => ~ Stealing(u) /\ ~ Stealing(u)'
    BY <1>1, <1>4, <1>2, <1>5, <1>6, NotNull DEF IInv, LockExact, Same, Locking, Stealing,
        StealLocs, Moves
<1>11. /\ First = head /\ First' = H0'[w]
    BY <1>6, <1>8, <1>10, FirstIs, FirstIsNext DEF IInv, FirstThere
<1>12. Room'
    BY Typed, NotNull, <1>1, <1>4, <1>2, <1>5 DEF IInv, Moves, Same, Room, SpawnLocs
<1>13. Carried'
    BY NotNull, <1>1, <1>4, <1>2, <1>5 DEF IInv, Moves, Same, Carried, AdvertiseLocs
<1>14. /\ head' = H'[w] /\ H0'[w] <= H'[w] /\ H'[w] <= Bound' /\ H0'[w] \in Int
       /\ H'[w] \in Int
    BY Typed, <1>1, <1>4, <1>2, <1>6, <1>9 DEF IInv
<1>15. Ends'
    BY <1>1, <1>4, <1>14, <1>6, <1>10, EndsThief DEF Moves
<1>16. SameEnds
    BY <1>1, <1>4, <1>2, <1>11, <1>9, <1>10 DEF SameEnds
<1>17. SameBatch
    BY <1>1, <1>4, <1>5, NotNull, <1>2 DEF SameBatch, Unmailed, Moves, Same
<1>18. SameMail
    BY <1>1 DEF SameMail
<1>19. SameHands
    BY <1>1, <1>4, <1>5, <1>6 DEF SameHands, Same, Holds
<1>20. Contents'
    BY <1>1, <1>4, <1>2, <1>16, <1>17, <1>18, <1>19, NotNull, ContentsStay
<1>21. DemandExact'
    BY <1>1, <1>4, DemandStays, NotNull DEF IInv
<1> QED
    BY <1>3, <1>7, <1>8, <1>12, <1>13, <1>15, <1>20, <1>21 DEF IInv, Contents

LEMMA BumpHeadKeeps ==
    ASSUME IInv, NEW w \in Workers, BumpHead(w)
    PROVE  IInv'
<1>1. /\ pc[w] = "bump" /\ pc' = [pc EXCEPT ![w] = "test"] /\ head' = H[w] + 1
      /\ H' = [H EXCEPT ![w] = H[w] + 1]
      /\ UNCHANGED <<task_pool, tail, my_task_pool_size, task_pool_ptr, task_and_tag, mailbox>>
      /\ UNCHANGED <<my_pool_state, demand, spawned, times, result, batch>>
      /\ UNCHANGED <<mirror, H0, skip_and_bump, snapshot>>
    BY DEF Goto, deque, mail, arena, thief, own, BumpHead
<1>2. /\ head' \in Nat /\ H[w] + 1 \in Nat
    BY NotNull, Typed, <1>1 DEF IInv
<1>3. TypeOK'
    BY NotNull, LocsAre, <1>1, <1>2, Typed DEF IInv, TypeOK
<1>4. /\ Moves(w, "test") /\ head' = H[w] + 1 /\ H'[w] = H[w] + 1
      /\ (\A u \in Workers : u # w => H'[u] = H[u])
    BY NotNull, <1>1 DEF IInv, TypeOK, Moves
<1>5. \A u \in Threads : u # w => Same(u)
    BY <1>1, <1>4, Unmoved, NotNull DEF Moves, Same
<1>6. /\ Locking(w) /\ Locking(w)' /\ Stealing(w) /\ Stealing(w)'
      /\ (Holds(w)' <=> Holds(w))
    BY <1>1, <1>4, NotNull DEF Moves, Locking, Stealing, Holds, StealLocs
<1>7. Roles'
    BY <1>1, <1>4, <1>5, NotNull DEF IInv, Roles, Same, Moves, SpawnLocs, GetLocs,
        AdvertiseLocs, StealLocs, SnapshotLocs
<1>8. LockExact'
    BY <1>1, <1>4, <1>5, <1>6, NotNull DEF IInv, LockExact, Same, Moves
<1>9. /\ Bound' = Bound /\ Last' = Last
    BY <1>1, <1>4, <1>5, NotNull DEF Moves, Bound, Last, Same
<1>10. pc[Owner] \notin {"retail", "g_reset", "enter"} /\ pc'[Owner] = pc[Owner]
      /\ \A u \in Workers : u # w => ~ Stealing(u) /\ ~ Stealing(u)'
    BY <1>1, <1>4, <1>5, <1>6, NotNull DEF IInv, LockExact, Same, Locking, Stealing,
        StealLocs, Moves
<1>11. /\ First = H0[w] /\ First' = H0'[w]
    BY <1>6, <1>8, <1>10, FirstIs, FirstIsNext DEF IInv, FirstThere
<1>12. Room'
    BY Typed, NotNull, <1>1, <1>4, <1>5 DEF IInv, Moves, Same, Room, SpawnLocs
<1>13. Carried'
    BY NotNull, <1>1, <1>4, <1>5 DEF IInv, Moves, Same, Carried, AdvertiseLocs
<1>14. /\ head' = H'[w] /\ H0'[w] < H'[w] /\ H'[w] <= Bound' + 1 /\ H0'[w] \in Int
       /\ H'[w] \in Int
    BY ThiefIs, Typed, <1>1, <1>4, <1>6, <1>9 DEF IInv
<1>15. Ends'
    BY <1>1, <1>4, <1>14, <1>6, <1>10, EndsThief DEF Moves
<1>16. SameEnds
    BY <1>1, <1>4, <1>11, <1>9, <1>10 DEF SameEnds
<1>17. SameBatch
    BY <1>1, <1>4, <1>5, NotNull DEF SameBatch, Unmailed, Moves, Same
<1>18. SameMail
    BY <1>1 DEF SameMail
<1>19. SameHands
    BY <1>1, <1>4, <1>5, <1>6 DEF SameHands, Same, Holds
<1>20. Contents'
    BY <1>1, <1>4, <1>16, <1>17, <1>18, <1>19, NotNull, ContentsStay
<1>21. DemandExact'
    BY <1>1, <1>4, DemandStays, NotNull DEF IInv
<1> QED
    BY <1>3, <1>7, <1>8, <1>12, <1>13, <1>15, <1>20, <1>21 DEF IInv, Contents

LEMMA TestTailFailsKeeps ==
    ASSUME IInv, NEW w \in Workers, TestTail(w), H[w] > tail
    PROVE  IInv'
<1>1. /\ pc[w] = "test" /\ pc' = [pc EXCEPT ![w] = "restore"]
      /\ UNCHANGED <<task_pool, head, tail, my_task_pool_size, task_pool_ptr, task_and_tag>>
      /\ UNCHANGED <<mailbox, my_pool_state, demand, spawned, times, result>>
      /\ UNCHANGED <<batch, mirror, H0, H, skip_and_bump, snapshot>>
    BY DEF Goto, deque, mail, arena, thief, own, TestTail
<1>2. TypeOK'
    BY NotNull, LocsAre, <1>1 DEF IInv, TypeOK
<1>3. /\ Moves(w, "restore")
    BY NotNull, <1>1 DEF IInv, TypeOK, Moves
<1>4. \A u \in Threads : u # w => Same(u)
    BY <1>1, <1>3, Unmoved, NotNull DEF Moves, Same
<1>5. /\ Locking(w) /\ Locking(w)' /\ Stealing(w) /\ Stealing(w)'
      /\ (Holds(w)' <=> Holds(w))
    BY <1>1, <1>3, NotNull DEF Moves, Locking, Stealing, Holds, StealLocs
<1>6. Roles'
    BY <1>1, <1>3, <1>4, NotNull DEF IInv, Roles, Same, Moves, SpawnLocs, GetLocs,
        AdvertiseLocs, StealLocs, SnapshotLocs
<1>7. LockExact'
    BY <1>1, <1>3, <1>4, <1>5, NotNull DEF IInv, LockExact, Same, Moves
<1>8. /\ Bound' = Bound /\ Last' = Last
    BY <1>1, <1>3, <1>4, NotNull DEF Moves, Bound, Last, Same
<1>9. pc[Owner] \notin {"retail", "g_reset", "enter"} /\ pc'[Owner] = pc[Owner]
      /\ \A u \in Workers : u # w => ~ Stealing(u) /\ ~ Stealing(u)'
    BY <1>1, <1>3, <1>4, <1>5, NotNull DEF IInv, LockExact, Same, Locking, Stealing,
        StealLocs, Moves
<1>10. /\ First = H0[w] /\ First' = H0'[w]
    BY <1>5, <1>7, <1>9, FirstIs, FirstIsNext DEF IInv, FirstThere
<1>11. Room'
    BY Typed, NotNull, <1>1, <1>3, <1>4 DEF IInv, Moves, Same, Room, SpawnLocs
<1>12. Carried'
    BY NotNull, <1>1, <1>3, <1>4 DEF IInv, Moves, Same, Carried, AdvertiseLocs
<1>13. /\ head' = H'[w] /\ H0'[w] < H'[w] /\ H'[w] <= Bound' + 1 /\ H0'[w] \in Int
       /\ H'[w] \in Int
    BY ThiefIs, Typed, <1>1, <1>3, <1>5, <1>8 DEF IInv
<1>14. Ends'
    BY <1>1, <1>3, <1>13, <1>5, <1>9, EndsThief DEF Moves
<1>15. SameEnds
    BY <1>1, <1>3, <1>10, <1>8, <1>9 DEF SameEnds
<1>16. SameBatch
    BY <1>1, <1>3, <1>4, NotNull DEF SameBatch, Unmailed, Moves, Same
<1>17. SameMail
    BY <1>1 DEF SameMail
<1>18. SameHands
    BY <1>1, <1>3, <1>4, <1>5 DEF SameHands, Same, Holds
<1>19. Contents'
    BY <1>1, <1>3, <1>15, <1>16, <1>17, <1>18, NotNull, ContentsStay
<1>20. DemandExact'
    BY <1>1, <1>3, DemandStays, NotNull DEF IInv
<1> QED
    BY <1>2, <1>6, <1>7, <1>11, <1>12, <1>14, <1>19, <1>20 DEF IInv, Contents

LEMMA TestTailKeeps ==
    ASSUME IInv, NEW w \in Workers, TestTail(w), ~ (H[w] > tail)
    PROVE  IInv'
<1>1. /\ pc[w] = "test" /\ pc' = [pc EXCEPT ![w] = "look"]
      /\ UNCHANGED <<task_pool, head, tail, my_task_pool_size, task_pool_ptr, task_and_tag>>
      /\ UNCHANGED <<mailbox, my_pool_state, demand, spawned, times, result>>
      /\ UNCHANGED <<batch, mirror, H0, H, skip_and_bump, snapshot>>
    BY DEF Goto, deque, mail, arena, thief, own, TestTail
<1>2. /\ H[w] <= tail /\ tail <= Bound
    BY NotNull, Typed, <1>1 DEF IInv, Bound
<1>3. TypeOK'
    BY NotNull, LocsAre, <1>1, <1>2 DEF IInv, TypeOK
<1>4. /\ Moves(w, "look")
    BY NotNull, <1>1, <1>2 DEF IInv, TypeOK, Moves
<1>5. \A u \in Threads : u # w => Same(u)
    BY <1>1, <1>4, Unmoved, NotNull DEF Moves, Same
<1>6. /\ Locking(w) /\ Locking(w)' /\ Stealing(w) /\ Stealing(w)'
      /\ (Holds(w)' <=> Holds(w))
    BY <1>1, <1>4, <1>2, NotNull DEF Moves, Locking, Stealing, Holds, StealLocs
<1>7. Roles'
    BY <1>1, <1>4, <1>5, NotNull DEF IInv, Roles, Same, Moves, SpawnLocs, GetLocs,
        AdvertiseLocs, StealLocs, SnapshotLocs
<1>8. LockExact'
    BY <1>1, <1>4, <1>2, <1>5, <1>6, NotNull DEF IInv, LockExact, Same, Moves
<1>9. /\ Bound' = Bound /\ Last' = Last
    BY <1>1, <1>4, <1>5, NotNull DEF Moves, Bound, Last, Same
<1>10. pc[Owner] \notin {"retail", "g_reset", "enter"} /\ pc'[Owner] = pc[Owner]
      /\ \A u \in Workers : u # w => ~ Stealing(u) /\ ~ Stealing(u)'
    BY <1>1, <1>4, <1>2, <1>5, <1>6, NotNull DEF IInv, LockExact, Same, Locking, Stealing,
        StealLocs, Moves
<1>11. /\ First = H0[w] /\ First' = H0'[w]
    BY <1>6, <1>8, <1>10, FirstIs, FirstIsNext DEF IInv, FirstThere
<1>12. Room'
    BY Typed, NotNull, <1>1, <1>4, <1>2, <1>5 DEF IInv, Moves, Same, Room, SpawnLocs
<1>13. Carried'
    BY NotNull, <1>1, <1>4, <1>2, <1>5 DEF IInv, Moves, Same, Carried, AdvertiseLocs
<1>14. /\ head' = H'[w] /\ H0'[w] < H'[w] /\ H'[w] <= Bound' /\ H0'[w] \in Int
       /\ H'[w] \in Int
    BY ThiefIs, Typed, <1>1, <1>4, <1>2, <1>6, <1>9 DEF IInv
<1>15. Ends'
    BY <1>1, <1>4, <1>14, <1>6, <1>10, EndsThief DEF Moves
<1>16. SameEnds
    BY <1>1, <1>4, <1>2, <1>11, <1>9, <1>10 DEF SameEnds
<1>17. SameBatch
    BY <1>1, <1>4, <1>5, NotNull, <1>2 DEF SameBatch, Unmailed, Moves, Same
<1>18. SameMail
    BY <1>1 DEF SameMail
<1>19. SameHands
    BY <1>1, <1>4, <1>5, <1>6 DEF SameHands, Same, Holds
<1>20. Contents'
    BY <1>1, <1>4, <1>2, <1>16, <1>17, <1>18, <1>19, NotNull, ContentsStay
<1>21. DemandExact'
    BY <1>1, <1>4, DemandStays, NotNull DEF IInv
<1> QED
    BY <1>3, <1>7, <1>8, <1>12, <1>13, <1>15, <1>20, <1>21 DEF IInv, Contents

LEMMA RestoreHeadKeeps ==
    ASSUME IInv, NEW w \in Workers, RestoreHead(w)
    PROVE  IInv'
<1>1. /\ pc[w] = "restore" /\ pc' = [pc EXCEPT ![w] = "unlock"] /\ head' = H0[w]
      /\ skip_and_bump' = [skip_and_bump EXCEPT ![w] = skip_and_bump[w] + 1]
      /\ UNCHANGED <<task_pool, tail, my_task_pool_size, task_pool_ptr, task_and_tag, mailbox>>
      /\ UNCHANGED <<my_pool_state, demand, spawned, times, result, batch>>
      /\ UNCHANGED <<mirror, H0, H, snapshot>>
    BY DEF Goto, deque, mail, arena, thief, own, RestoreHead
<1>2. /\ head' \in Nat /\ skip_and_bump[w] + 1 \in 0 .. 2
    BY NotNull, Typed, <1>1 DEF IInv, Carried
<1>3. TypeOK'
    BY NotNull, LocsAre, <1>1, <1>2 DEF IInv, TypeOK
<1>4. /\ Moves(w, "unlock") /\ head' = H0[w] /\ skip_and_bump'[w] = skip_and_bump[w] + 1
      /\ (\A u \in Workers : u # w => skip_and_bump'[u] = skip_and_bump[u])
    BY NotNull, <1>1 DEF IInv, TypeOK, Moves
<1>5. \A u \in Threads : u # w => Same(u)
    BY <1>1, <1>4, Unmoved, NotNull DEF Moves, Same
<1>6. /\ Locking(w) /\ Locking(w)' /\ Stealing(w) /\ ~ Stealing(w)'
      /\ (Holds(w)' <=> Holds(w))
    BY <1>1, <1>4, NotNull DEF Moves, Locking, Stealing, Holds, StealLocs
<1>7. Roles'
    BY <1>1, <1>4, <1>5, NotNull DEF IInv, Roles, Same, Moves, SpawnLocs, GetLocs,
        AdvertiseLocs, StealLocs, SnapshotLocs
<1>8. LockExact'
    BY <1>1, <1>4, <1>5, <1>6, NotNull DEF IInv, LockExact, Same, Moves
<1>9. /\ Bound' = Bound /\ Last' = Last
    BY <1>1, <1>4, <1>5, NotNull DEF Moves, Bound, Last, Same
<1>10. pc[Owner] \notin {"retail", "g_reset", "enter"} /\ pc'[Owner] = pc[Owner]
      /\ \A u \in Workers : u # w => ~ Stealing(u) /\ ~ Stealing(u)'
    BY <1>1, <1>4, <1>5, <1>6, NotNull DEF IInv, LockExact, Same, Locking, Stealing,
        StealLocs, Moves
<1>11. /\ First = H0[w] /\ First' = head'
    BY <1>6, <1>8, <1>10, FirstIs, FirstIsNext DEF IInv, FirstThere
<1>12. Room'
    BY Typed, NotNull, <1>1, <1>4, <1>5 DEF IInv, Moves, Same, Room, SpawnLocs
<1>13. Carried'
    BY NotNull, <1>1, <1>4, <1>5 DEF IInv, Moves, Same, Carried, AdvertiseLocs
<1>14. /\ head' <= Bound'
    BY ThiefIs, Typed, <1>1, <1>4, <1>6, <1>9 DEF IInv
<1>15. Ends'
    BY <1>1, <1>4, <1>14, <1>6, <1>10, EndsThief DEF Moves
<1>16. SameEnds
    BY <1>1, <1>4, <1>11, <1>9, <1>10 DEF SameEnds
<1>17. SameBatch
    BY <1>1, <1>4, <1>5, NotNull DEF SameBatch, Unmailed, Moves, Same
<1>18. SameMail
    BY <1>1 DEF SameMail
<1>19. SameHands
    BY <1>1, <1>4, <1>5, <1>6 DEF SameHands, Same, Holds
<1>20. Contents'
    BY <1>1, <1>4, <1>16, <1>17, <1>18, <1>19, NotNull, ContentsStay
<1>21. DemandExact'
    BY <1>1, <1>4, DemandStays, NotNull DEF IInv
<1> QED
    BY <1>3, <1>7, <1>8, <1>12, <1>13, <1>15, <1>20, <1>21 DEF IInv, Contents

LEMMA SkipKeeps ==
    ASSUME IInv, NEW w \in Workers, LookAtHead(w), Skipped(task_pool_ptr[H[w] - 1])
    PROVE  IInv'
<1>1. /\ pc[w] = "look" /\ pc' = [pc EXCEPT ![w] = "bump"]
      /\ skip_and_bump' = [skip_and_bump EXCEPT ![w] = 1]
      /\ UNCHANGED <<task_pool, head, tail, my_task_pool_size, task_pool_ptr, task_and_tag>>
      /\ UNCHANGED <<mailbox, my_pool_state, demand, spawned, times, result>>
      /\ UNCHANGED <<batch, mirror, H0, H, snapshot>>
    BY DEF Goto, deque, mail, arena, thief, own, LookAtHead
<1>2. TypeOK'
    BY NotNull, LocsAre, <1>1 DEF IInv, TypeOK
<1>3. /\ Moves(w, "bump") /\ skip_and_bump'[w] = 1
      /\ (\A u \in Workers : u # w => skip_and_bump'[u] = skip_and_bump[u])
    BY NotNull, <1>1 DEF IInv, TypeOK, Moves
<1>4. \A u \in Threads : u # w => Same(u)
    BY <1>1, <1>3, Unmoved, NotNull DEF Moves, Same
<1>5. /\ Locking(w) /\ Locking(w)' /\ Stealing(w) /\ Stealing(w)'
      /\ (Holds(w)' <=> Holds(w))
    BY <1>1, <1>3, NotNull DEF Moves, Locking, Stealing, Holds, StealLocs
<1>6. Roles'
    BY <1>1, <1>3, <1>4, NotNull DEF IInv, Roles, Same, Moves, SpawnLocs, GetLocs,
        AdvertiseLocs, StealLocs, SnapshotLocs
<1>7. LockExact'
    BY <1>1, <1>3, <1>4, <1>5, NotNull DEF IInv, LockExact, Same, Moves
<1>8. /\ Bound' = Bound /\ Last' = Last
    BY <1>1, <1>3, <1>4, NotNull DEF Moves, Bound, Last, Same
<1>9. pc[Owner] \notin {"retail", "g_reset", "enter"} /\ pc'[Owner] = pc[Owner]
      /\ \A u \in Workers : u # w => ~ Stealing(u) /\ ~ Stealing(u)'
    BY <1>1, <1>3, <1>4, <1>5, NotNull DEF IInv, LockExact, Same, Locking, Stealing,
        StealLocs, Moves
<1>10. /\ First = H0[w] /\ First' = H0'[w]
    BY <1>5, <1>7, <1>9, FirstIs, FirstIsNext DEF IInv, FirstThere
<1>11. Room'
    BY Typed, NotNull, <1>1, <1>3, <1>4 DEF IInv, Moves, Same, Room, SpawnLocs
<1>12. Carried'
    BY NotNull, <1>1, <1>3, <1>4 DEF IInv, Moves, Same, Carried, AdvertiseLocs
<1>13. /\ head' = H'[w] /\ H0'[w] <= H'[w] /\ H'[w] <= Bound' /\ H0'[w] \in Int
       /\ H'[w] \in Int
    BY ThiefIs, Typed, <1>1, <1>3, <1>5, <1>8 DEF IInv
<1>14. Ends'
    BY <1>1, <1>3, <1>13, <1>5, <1>9, EndsThief DEF Moves
<1>15. SameEnds
    BY <1>1, <1>3, <1>10, <1>8, <1>9 DEF SameEnds
<1>16. SameBatch
    BY <1>1, <1>3, <1>4, NotNull DEF SameBatch, Unmailed, Moves, Same
<1>17. SameMail
    BY <1>1 DEF SameMail
<1>18. SameHands
    BY <1>1, <1>3, <1>4, <1>5 DEF SameHands, Same, Holds
<1>19. Contents'
    BY <1>1, <1>3, <1>15, <1>16, <1>17, <1>18, NotNull, ContentsStay
<1>20. DemandExact'
    BY <1>1, <1>3, DemandStays, NotNull DEF IInv
<1> QED
    BY <1>2, <1>6, <1>7, <1>11, <1>12, <1>14, <1>19, <1>20 DEF IInv, Contents

LEMMA StealFirstKeeps ==
    ASSUME IInv,
           NEW w \in Workers,
           LookAtHead(w),
           ~ Skipped(task_pool_ptr[H[w] - 1]), ~ (H0[w] + 1 < H[w])
    PROVE  IInv'
<1>1. /\ pc[w] = "look" /\ pc' = [pc EXCEPT ![w] = "unlock"]
      /\ task_pool_ptr' = [task_pool_ptr EXCEPT ![H0[w]] = NULL]
      /\ result' = [result EXCEPT ![w] = task_pool_ptr[H0[w]]]
      /\ UNCHANGED <<task_pool, head, tail, my_task_pool_size, task_and_tag, mailbox>>
      /\ UNCHANGED <<my_pool_state, demand, spawned, times, batch, mirror>>
      /\ UNCHANGED <<H0, H, skip_and_bump, snapshot>>
    BY DEF Goto, deque, mail, arena, thief, own, LookAtHead, TakeEntry
<1>2. /\ H[w] = H0[w] + 1 /\ H0[w] \in Nat /\ H0[w] \in First .. Last
      /\ H0[w] \in 0 .. my_task_pool_size - 1 /\ task_pool_ptr[H0[w]] \in Stored
      /\ task_pool_ptr[H0[w]] \in Tasks /\ result[w] = NULL
    <2>1. /\ First = H0[w] /\ H0[w] \in Nat /\ H[w] \in Nat /\ result[w] = NULL
          /\ H0[w] \in First .. Last
        BY <1>1, LookIs
    <2>2. H[w] = H0[w] + 1
        BY <1>1, <2>1 DEF IInv, Ends
    <2> QED BY <2>1, <2>2, FilledIs
<1>3. TypeOK'
    BY NotNull, LocsAre, <1>1, <1>2 DEF IInv, TypeOK
<1>4. /\ Moves(w, "unlock")
      /\ (\A i \in 0 .. my_task_pool_size - 1 : i # H0[w] =>
             task_pool_ptr'[i] = task_pool_ptr[i])
      /\ result'[w] = task_pool_ptr[H0[w]]
      /\ (\A u \in Threads : u # w => result'[u] = result[u])
    BY NotNull, <1>1, <1>2 DEF IInv, TypeOK, Moves
<1>5. \A u \in Threads : u # w => Same(u)
    BY <1>1, <1>4, Unmoved, NotNull DEF Moves, Same
<1>6. /\ Locking(w) /\ Locking(w)' /\ Stealing(w) /\ ~ Stealing(w)' /\ ~ Holds(w)
      /\ Holds(w)'
    BY <1>1, <1>4, <1>2, NotNull, TaskNull DEF Moves, Locking, Stealing, Holds, StealLocs
<1>7. Roles'
    BY <1>1, <1>4, <1>5, NotNull DEF IInv, Roles, Same, Moves, SpawnLocs, GetLocs,
        AdvertiseLocs, StealLocs, SnapshotLocs
<1>8. LockExact'
    BY <1>1, <1>4, <1>2, <1>5, <1>6, NotNull DEF IInv, LockExact, Same, Moves
<1>9. /\ Bound' = Bound /\ Last' = Last
    BY <1>1, <1>4, <1>5, NotNull DEF Moves, Bound, Last, Same
<1>10. pc[Owner] \notin {"retail", "g_reset", "enter"} /\ pc'[Owner] = pc[Owner]
      /\ \A u \in Workers : u # w => ~ Stealing(u) /\ ~ Stealing(u)'
    BY <1>1, <1>4, <1>2, <1>5, <1>6, NotNull DEF IInv, LockExact, Same, Locking, Stealing,
        StealLocs, Moves
<1>11. /\ First = H0[w] /\ First' = head'
    BY <1>6, <1>8, <1>10, FirstIs, FirstIsNext DEF IInv, FirstThere
<1>12. Room'
    <2>1. pc[Owner] = "commit" => \A i \in tail .. tail + batch - 1 :
              i < my_task_pool_size => task_pool_ptr'[i] = task_pool_ptr[i]
        <3>1. pc[Owner] = "commit" => H[w] <= tail
            BY <1>1, ThiefIs, <1>6 DEF Bound
        <3>2. pc[Owner] = "commit" => tail \in Nat
            BY TailIs
        <3> QED BY <1>4, <1>2, <3>1, <3>2, Typed DEF IInv
    <2> QED BY <2>1, <1>1, <1>4, <1>5, NotNull DEF IInv, Room, Moves, Same
<1>13. Carried'
    BY NotNull, <1>1, <1>4, <1>2, <1>5 DEF IInv, Moves, Same, Carried, AdvertiseLocs
<1>14. /\ head' <= Bound'
    BY ThiefIs, Typed, <1>1, <1>4, <1>2, <1>6, <1>9 DEF IInv
<1>15. Ends'
    BY <1>1, <1>4, <1>14, <1>6, <1>10, EndsThief DEF Moves
<1>16. SameBatch
    BY <1>1, <1>4, <1>5, NotNull, <1>2 DEF SameBatch, Unmailed, Moves, Same
<1>17. SameMail
    BY <1>1 DEF SameMail
<1>18. /\ \A i \in First' .. Last' : i \in First .. Last /\ i # H0[w]
       /\ \A i \in First .. Last : i # H0[w] => i \in First' .. Last'
       /\ \A i \in First .. Last : i # H0[w] => task_pool_ptr'[i] = task_pool_ptr[i]
    <2>1. First \in Int /\ Last \in Int /\ Last' = Last /\ First' = First + 1 /\ H0[w] = First
        <3>1. head = H[w]
            BY <1>1, ThiefIs, <1>6
        <3> QED BY <3>1, FirstTyped, <1>1, <1>2, <1>11, <1>9
    <2> QED BY <2>1, <1>4, FilledIs
<1>19. Contents'
    BY <1>1, <1>4, <1>2, <1>16, <1>17, <1>18, <1>5, <1>6, NotNull, EndTaken
<1>20. DemandExact'
    BY <1>1, <1>4, DemandStays, NotNull DEF IInv
<1> QED
    BY <1>3, <1>7, <1>8, <1>12, <1>13, <1>15, <1>19, <1>20 DEF IInv, Contents

LEMMA StealLaterKeeps ==
    ASSUME IInv,
           NEW w \in Workers,
           LookAtHead(w),
           ~ Skipped(task_pool_ptr[H[w] - 1]), H0[w] + 1 < H[w]
    PROVE  IInv'
<1>1. /\ pc[w] = "look" /\ pc' = [pc EXCEPT ![w] = "move"]
      /\ result' = [result EXCEPT ![w] = task_pool_ptr[H[w] - 1]]
      /\ UNCHANGED <<task_pool, head, tail, my_task_pool_size, task_pool_ptr, task_and_tag>>
      /\ UNCHANGED <<mailbox, my_pool_state, demand, spawned, times, batch>>
      /\ UNCHANGED <<mirror, H0, H, skip_and_bump, snapshot>>
    BY DEF Goto, deque, mail, arena, thief, own, LookAtHead
<1>2. /\ H[w] - 1 \in First .. Last /\ task_pool_ptr[H[w] - 1] \in Tasks
      /\ result[w] = NULL
    BY NotNull, Typed, <1>1, LookIs, StoredIs DEF IInv
<1>3. TypeOK'
    BY NotNull, LocsAre, <1>1, <1>2 DEF IInv, TypeOK
<1>4. /\ Moves(w, "move") /\ result'[w] = task_pool_ptr[H[w] - 1]
      /\ (\A u \in Threads : u # w => result'[u] = result[u])
    BY NotNull, <1>1, <1>2 DEF IInv, TypeOK, Moves
<1>5. \A u \in Threads : u # w => Same(u)
    BY <1>1, <1>4, Unmoved, NotNull DEF Moves, Same
<1>6. /\ Locking(w) /\ Locking(w)' /\ Stealing(w) /\ Stealing(w)' /\ ~ Holds(w)
      /\ ~ Holds(w)'
    BY <1>1, <1>4, <1>2, NotNull DEF Moves, Locking, Stealing, Holds, StealLocs
<1>7. Roles'
    BY <1>1, <1>4, <1>5, NotNull DEF IInv, Roles, Same, Moves, SpawnLocs, GetLocs,
        AdvertiseLocs, StealLocs, SnapshotLocs
<1>8. LockExact'
    BY <1>1, <1>4, <1>2, <1>5, <1>6, NotNull DEF IInv, LockExact, Same, Moves
<1>9. /\ Bound' = Bound /\ Last' = Last
    BY <1>1, <1>4, <1>5, NotNull DEF Moves, Bound, Last, Same
<1>10. pc[Owner] \notin {"retail", "g_reset", "enter"} /\ pc'[Owner] = pc[Owner]
      /\ \A u \in Workers : u # w => ~ Stealing(u) /\ ~ Stealing(u)'
    BY <1>1, <1>4, <1>2, <1>5, <1>6, NotNull DEF IInv, LockExact, Same, Locking, Stealing,
        StealLocs, Moves
<1>11. /\ First = H0[w] /\ First' = H0'[w]
    BY <1>6, <1>8, <1>10, FirstIs, FirstIsNext DEF IInv, FirstThere
<1>12. Room'
    BY Typed, NotNull, <1>1, <1>4, <1>2, <1>5 DEF IInv, Moves, Same, Room, SpawnLocs
<1>13. Carried'
    BY NotNull, <1>1, <1>4, <1>2, <1>5 DEF IInv, Moves, Same, Carried, AdvertiseLocs
<1>14. /\ head' = H'[w] /\ H0'[w] < H'[w] /\ H'[w] <= Bound' /\ H0'[w] + 1 < H'[w]
       /\ result'[w] = task_pool_ptr'[H'[w] - 1] /\ H0'[w] \in Int /\ H'[w] \in Int
    BY ThiefIs, Typed, <1>1, <1>4, <1>2, <1>6, <1>9 DEF IInv
<1>15. Ends'
    BY <1>1, <1>4, <1>14, <1>6, <1>10, EndsThief DEF Moves
<1>16. SameEnds
    BY <1>1, <1>4, <1>2, <1>11, <1>9, <1>10 DEF SameEnds
<1>17. SameBatch
    BY <1>1, <1>4, <1>5, NotNull, <1>2 DEF SameBatch, Unmailed, Moves, Same
<1>18. SameMail
    BY <1>1 DEF SameMail
<1>19. SameHands
    BY <1>1, <1>4, <1>5, <1>6 DEF SameHands, Same
<1>20. Contents'
    BY <1>1, <1>4, <1>2, <1>16, <1>17, <1>18, <1>19, NotNull, ContentsStay
<1>21. DemandExact'
    BY <1>1, <1>4, DemandStays, NotNull DEF IInv
<1> QED
    BY <1>3, <1>7, <1>8, <1>12, <1>13, <1>15, <1>20, <1>21 DEF IInv, Contents

LEMMA CloseHoleKeeps ==
    ASSUME IInv, NEW w \in Workers, CloseHole(w)
    PROVE  IInv'
<1>1. /\ pc[w] = "move" /\ pc' = [pc EXCEPT ![w] = "m_test"] /\ head' = H0[w] + 1
      /\ task_pool_ptr' = [i \in 0 .. my_task_pool_size - 1 |-> IF i = H0[w] THEN NULL ELSE
             IF i \in H0[w] + 1 .. H[w] - 1 THEN task_pool_ptr[i - 1] ELSE task_pool_ptr[i]]
      /\ UNCHANGED <<task_pool, tail, my_task_pool_size, task_and_tag, mailbox, my_pool_state>>
      /\ UNCHANGED <<demand, spawned, times, result, batch, mirror>>
      /\ UNCHANGED <<H0, H, skip_and_bump, snapshot>>
    BY DEF Goto, deque, mail, arena, thief, own, CloseHole
<1>2. /\ H0[w] + 1 < H[w] /\ result[w] = task_pool_ptr[H[w] - 1] /\ result[w] \in Stored
      /\ result[w] \in Tasks /\ H0[w] \in First .. Last /\ H[w] - 1 \in First .. Last
      /\ H[w] - 1 \in 0 .. my_task_pool_size - 1 /\ H0[w] \in Nat /\ H[w] \in Nat
      /\ First = H0[w] /\ Last \in Int
    BY NotNull, Typed, <1>1, LookIs, StoredIs, FirstTyped DEF IInv, Ends
<1>3. /\ head' \in Nat
      /\ task_pool_ptr' \in [0 .. my_task_pool_size - 1 -> Tasks \cup {NULL}]
    <2>1. \A i \in H0[w] + 1 .. H[w] - 1 : i - 1 \in 0 .. my_task_pool_size - 1
        BY <1>2, Typed DEF IInv
    <2>2. \A i \in 0 .. my_task_pool_size - 1 : task_pool_ptr[i] \in Tasks \cup {NULL}
        BY Typed DEF IInv
    <2> QED BY <2>1, <2>2, <1>1, <1>2
<1>4. TypeOK'
    BY NotNull, LocsAre, <1>1, <1>2, <1>3 DEF IInv, TypeOK
<1>5. /\ Moves(w, "m_test") /\ head' = H0[w] + 1
      /\ (\A i \in H0[w] + 1 .. H[w] - 1 : task_pool_ptr'[i] = task_pool_ptr[i - 1])
      /\ (\A i \in 0 .. my_task_pool_size - 1 : i >= H[w] =>
             task_pool_ptr'[i] = task_pool_ptr[i])
    <2>1. \A i \in H0[w] + 1 .. H[w] - 1 : i \in 0 .. my_task_pool_size - 1 /\ i # H0[w]
        BY <1>2, Typed DEF IInv
    <2>2. \A i \in 0 .. my_task_pool_size - 1 : i >= H[w] =>
              i # H0[w] /\ i \notin H0[w] + 1 .. H[w] - 1
        BY <1>2, Typed DEF IInv
    <2>3. Moves(w, "m_test")
        BY <1>1, NotNull DEF IInv, TypeOK, Moves
    <2> QED BY <2>1, <2>2, <2>3, <1>1
<1>6. \A u \in Threads : u # w => Same(u)
    BY <1>1, <1>5, Unmoved, NotNull DEF Moves, Same
<1>7. /\ Locking(w) /\ Locking(w)' /\ Stealing(w) /\ ~ Stealing(w)' /\ ~ Holds(w)
      /\ Holds(w)'
    BY <1>1, <1>5, <1>2, NotNull, TaskNull DEF Moves, Locking, Stealing, Holds, StealLocs
<1>8. Roles'
    BY <1>1, <1>5, <1>6, NotNull DEF IInv, Roles, Same, Moves, SpawnLocs, GetLocs,
        AdvertiseLocs, StealLocs, SnapshotLocs
<1>9. LockExact'
    BY <1>1, <1>5, <1>2, <1>6, <1>7, NotNull DEF IInv, LockExact, Same, Moves
<1>10. /\ Bound' = Bound /\ Last' = Last
    BY <1>1, <1>5, <1>6, NotNull DEF Moves, Bound, Last, Same
<1>11. pc[Owner] \notin {"retail", "g_reset", "enter"} /\ pc'[Owner] = pc[Owner]
      /\ \A u \in Workers : u # w => ~ Stealing(u) /\ ~ Stealing(u)'
    BY <1>1, <1>5, <1>2, <1>6, <1>7, NotNull DEF IInv, LockExact, Same, Locking, Stealing,
        StealLocs, Moves
<1>12. /\ First = H0[w] /\ First' = head'
    BY <1>7, <1>9, <1>11, FirstIs, FirstIsNext DEF IInv, FirstThere
<1>13. Room'
    <2>1. pc[Owner] = "commit" => \A i \in tail .. tail + batch - 1 :
              i < my_task_pool_size => task_pool_ptr'[i] = task_pool_ptr[i]
        <3>1. pc[Owner] = "commit" => H[w] <= tail
            BY <1>1, ThiefIs, <1>7 DEF Bound
        <3>2. pc[Owner] = "commit" => tail \in Nat
            BY TailIs
        <3> QED BY <1>5, <1>2, <3>1, <3>2, Typed DEF IInv
    <2> QED BY <2>1, <1>1, <1>5, <1>6, NotNull DEF IInv, Room, Moves, Same
<1>14. Carried'
    BY NotNull, <1>1, <1>5, <1>2, <1>6 DEF IInv, Moves, Same, Carried, AdvertiseLocs
<1>15. /\ head' <= Bound'
    <2>1. H[w] <= Bound /\ Bound \in Int
        BY <1>1, ThiefIs, <1>7
    <2> QED BY <2>1, <1>5, <1>2, <1>10
<1>16. Ends'
    BY <1>1, <1>5, <1>15, <1>7, <1>11, EndsThief DEF Moves
<1>17. SameBatch
    BY <1>1, <1>5, <1>6, NotNull, <1>2 DEF SameBatch, Unmailed, Moves, Same
<1>18. SameMail
    BY <1>1 DEF SameMail
<1>19. Filled'
    <2>K. \A i \in First' .. Last' :
              /\ i \in 0 .. my_task_pool_size - 1 /\ i \in Int
              /\ i < H[w] => i - 1 \in First .. Last /\ task_pool_ptr'[i] = task_pool_ptr[i - 1]
              /\ i >= H[w] => i \in First .. Last /\ task_pool_ptr'[i] = task_pool_ptr[i]
        BY <1>5, <1>2, <1>12, <1>10, FilledIs
    <2>1. Stored' = Stored /\ my_task_pool_size' = my_task_pool_size
        BY <1>1 DEF Stored
    <2> QED BY <2>K, <2>1, <1>2, FilledIs DEF Filled
<1>20. EntriesDiffer'
    <2>K. \A i \in First' .. Last' :
              /\ i \in 0 .. my_task_pool_size - 1 /\ i \in Int
              /\ i < H[w] => i - 1 \in First .. Last /\ task_pool_ptr'[i] = task_pool_ptr[i - 1]
              /\ i >= H[w] => i \in First .. Last /\ task_pool_ptr'[i] = task_pool_ptr[i]
        BY <1>5, <1>2, <1>12, <1>10, FilledIs
    <2> QED BY <2>K, <1>2 DEF IInv, EntriesDiffer
<1>21. \A u \in Tasks : Lies(u)' <=> Lies(u) /\ u # result[w]
    <2>K. \A i \in First' .. Last' :
              /\ i \in 0 .. my_task_pool_size - 1 /\ i \in Int
              /\ i < H[w] => i - 1 \in First .. Last /\ task_pool_ptr'[i] = task_pool_ptr[i - 1]
              /\ i >= H[w] => i \in First .. Last /\ task_pool_ptr'[i] = task_pool_ptr[i]
        BY <1>5, <1>2, <1>12, <1>10, FilledIs
    <2>1. ASSUME NEW u \in Tasks, NEW k \in First .. Last, task_pool_ptr[k] = u, u # result[w]
          PROVE  \E i \in First' .. Last' : task_pool_ptr'[i] = u
        <3>1. k # H[w] - 1
            BY <2>1, <1>2
        <3>2. CASE k < H[w] - 1
            <4>1. k + 1 \in First' .. Last' /\ k + 1 < H[w] /\ (k + 1) - 1 = k
                BY <3>2, <1>2, <1>12, <1>10, <1>5
            <4> QED BY <2>1, <2>K, <4>1
        <3>3. CASE k >= H[w]
            <4>1. k \in First' .. Last'
                BY <3>3, <1>2, <1>12, <1>10, <1>5
            <4> QED BY <2>1, <3>3, <2>K, <4>1
        <3> QED BY <3>1, <3>2, <3>3, <1>2
    <2>2. ASSUME NEW i \in First' .. Last'
          PROVE  task_pool_ptr'[i] # result[w] /\ \E k \in First .. Last :
              task_pool_ptr[k] = task_pool_ptr'[i]
        BY <2>K, <1>2 DEF IInv, EntriesDiffer
    <2> QED BY <2>1, <2>2 DEF Lies
<1>22. Contents'
    <2>1. PICK x \in Stored : x = result[w]
        BY <1>2
    <2>2. Lies(x) /\ result'[w] = x
        BY <2>1, <1>2, <1>1 DEF Lies
    <2> QED BY <2>1, <2>2, <1>17, <1>18, <1>6, <1>7, <1>19, <1>20,
              <1>21, NotNull, ContentsTaken
<1>23. DemandExact'
    BY <1>1, <1>5, DemandStays, NotNull DEF IInv
<1> QED
    BY <1>4, <1>8, <1>9, <1>13, <1>14, <1>16, <1>22, <1>23 DEF IInv, Contents

LEMMA TestBumpedLateKeeps ==
    ASSUME IInv, NEW w \in Workers, TestBumped(w), H[w] >= tail
    PROVE  IInv'
<1>1. /\ pc[w] = "m_test" /\ pc' = [pc EXCEPT ![w] = "unlock"]
      /\ skip_and_bump' = [skip_and_bump EXCEPT ![w] = skip_and_bump[w] + 1]
      /\ UNCHANGED <<task_pool, head, tail, my_task_pool_size, task_pool_ptr, task_and_tag>>
      /\ UNCHANGED <<mailbox, my_pool_state, demand, spawned, times, result>>
      /\ UNCHANGED <<batch, mirror, H0, H, snapshot>>
    BY DEF Goto, deque, mail, arena, thief, own, TestBumped
<1>2. /\ skip_and_bump[w] \in 0 .. 1
    BY NotNull, Typed, <1>1 DEF IInv, Carried
<1>3. /\ skip_and_bump' \in [Workers -> 0 .. 2]
    BY NotNull, Typed, <1>1, <1>2 DEF IInv, TypeOK
<1>4. TypeOK'
    BY NotNull, LocsAre, <1>1, <1>2, <1>3 DEF IInv, TypeOK
<1>5. /\ Moves(w, "unlock") /\ skip_and_bump'[w] = skip_and_bump[w] + 1
      /\ (\A u \in Workers : u # w => skip_and_bump'[u] = skip_and_bump[u])
    BY NotNull, <1>1, <1>2 DEF IInv, TypeOK, Moves
<1>6. \A u \in Threads : u # w => Same(u)
    BY <1>1, <1>5, Unmoved, NotNull DEF Moves, Same
<1>7. /\ Locking(w) /\ Locking(w)' /\ ~ Stealing(w) /\ ~ Stealing(w)'
      /\ (Holds(w)' <=> Holds(w))
    BY <1>1, <1>5, <1>2, NotNull DEF Moves, Locking, Stealing, Holds, StealLocs
<1>8. Roles'
    BY <1>1, <1>5, <1>6, NotNull DEF IInv, Roles, Same, Moves, SpawnLocs, GetLocs,
        AdvertiseLocs, StealLocs, SnapshotLocs
<1>9. LockExact'
    BY <1>1, <1>5, <1>2, <1>6, <1>7, NotNull DEF IInv, LockExact, Same, Moves
<1>10. /\ Bound' = Bound /\ Last' = Last
    BY <1>1, <1>5, <1>6, NotNull DEF Moves, Bound, Last, Same
<1>11. pc[Owner] \notin {"retail", "g_reset", "enter"} /\ pc'[Owner] = pc[Owner]
      /\ \A u \in Workers : u # w => ~ Stealing(u) /\ ~ Stealing(u)'
    BY <1>1, <1>5, <1>2, <1>6, <1>7, NotNull DEF IInv, LockExact, Same, Locking, Stealing,
        StealLocs, Moves
<1>12. /\ First = head /\ First' = head'
    BY <1>7, <1>9, <1>11, FirstIs, FirstIsNext DEF IInv, FirstThere
<1>13. Room'
    BY Typed, NotNull, <1>1, <1>5, <1>2, <1>6 DEF IInv, Moves, Same, Room, SpawnLocs
<1>14. Carried'
    BY NotNull, <1>1, <1>5, <1>2, <1>6 DEF IInv, Moves, Same, Carried, AdvertiseLocs
<1>15. /\ head' <= Bound'
    BY ThiefIs, Typed, <1>1, <1>5, <1>2, <1>7, <1>10 DEF IInv
<1>16. Ends'
    BY <1>1, <1>5, <1>15, <1>7, <1>11, EndsThief DEF Moves
<1>17. SameEnds
    BY <1>1, <1>5, <1>2, <1>12, <1>10, <1>11 DEF SameEnds
<1>18. SameBatch
    BY <1>1, <1>5, <1>6, NotNull, <1>2 DEF SameBatch, Unmailed, Moves, Same
<1>19. SameMail
    BY <1>1 DEF SameMail
<1>20. SameHands
    BY <1>1, <1>5, <1>6, <1>7 DEF SameHands, Same, Holds
<1>21. Contents'
    BY <1>1, <1>5, <1>2, <1>17, <1>18, <1>19, <1>20, NotNull, ContentsStay
<1>22. DemandExact'
    BY <1>1, <1>5, DemandStays, NotNull DEF IInv
<1> QED
    BY <1>4, <1>8, <1>9, <1>13, <1>14, <1>16, <1>21, <1>22 DEF IInv, Contents

LEMMA TestBumpedKeeps ==
    ASSUME IInv, NEW w \in Workers, TestBumped(w), ~ (H[w] >= tail)
    PROVE  IInv'
<1>1. /\ pc[w] = "m_test" /\ pc' = [pc EXCEPT ![w] = "unlock"]
      /\ UNCHANGED <<task_pool, head, tail, my_task_pool_size, task_pool_ptr, task_and_tag>>
      /\ UNCHANGED <<mailbox, my_pool_state, demand, spawned, times, result>>
      /\ UNCHANGED <<batch, mirror, H0, H, skip_and_bump, snapshot>>
    BY DEF Goto, deque, mail, arena, thief, own, TestBumped
<1>2. TypeOK'
    BY NotNull, LocsAre, <1>1 DEF IInv, TypeOK
<1>3. /\ Moves(w, "unlock")
    BY NotNull, <1>1 DEF IInv, TypeOK, Moves
<1>4. \A u \in Threads : u # w => Same(u)
    BY <1>1, <1>3, Unmoved, NotNull DEF Moves, Same
<1>5. /\ Locking(w) /\ Locking(w)' /\ ~ Stealing(w) /\ ~ Stealing(w)'
      /\ (Holds(w)' <=> Holds(w))
    BY <1>1, <1>3, NotNull DEF Moves, Locking, Stealing, Holds, StealLocs
<1>6. Roles'
    BY <1>1, <1>3, <1>4, NotNull DEF IInv, Roles, Same, Moves, SpawnLocs, GetLocs,
        AdvertiseLocs, StealLocs, SnapshotLocs
<1>7. LockExact'
    BY <1>1, <1>3, <1>4, <1>5, NotNull DEF IInv, LockExact, Same, Moves
<1>8. /\ Bound' = Bound /\ Last' = Last
    BY <1>1, <1>3, <1>4, NotNull DEF Moves, Bound, Last, Same
<1>9. pc[Owner] \notin {"retail", "g_reset", "enter"} /\ pc'[Owner] = pc[Owner]
      /\ \A u \in Workers : u # w => ~ Stealing(u) /\ ~ Stealing(u)'
    BY <1>1, <1>3, <1>4, <1>5, NotNull DEF IInv, LockExact, Same, Locking, Stealing,
        StealLocs, Moves
<1>10. /\ First = head /\ First' = head'
    BY <1>5, <1>7, <1>9, FirstIs, FirstIsNext DEF IInv, FirstThere
<1>11. Room'
    BY Typed, NotNull, <1>1, <1>3, <1>4 DEF IInv, Moves, Same, Room, SpawnLocs
<1>12. Carried'
    BY NotNull, <1>1, <1>3, <1>4 DEF IInv, Moves, Same, Carried, AdvertiseLocs
<1>13. /\ head' <= Bound'
    BY ThiefIs, Typed, <1>1, <1>3, <1>5, <1>8 DEF IInv
<1>14. Ends'
    BY <1>1, <1>3, <1>13, <1>5, <1>9, EndsThief DEF Moves
<1>15. SameEnds
    BY <1>1, <1>3, <1>10, <1>8, <1>9 DEF SameEnds
<1>16. SameBatch
    BY <1>1, <1>3, <1>4, NotNull DEF SameBatch, Unmailed, Moves, Same
<1>17. SameMail
    BY <1>1 DEF SameMail
<1>18. SameHands
    BY <1>1, <1>3, <1>4, <1>5 DEF SameHands, Same, Holds
<1>19. Contents'
    BY <1>1, <1>3, <1>15, <1>16, <1>17, <1>18, NotNull, ContentsStay
<1>20. DemandExact'
    BY <1>1, <1>3, DemandStays, NotNull DEF IInv
<1> QED
    BY <1>2, <1>6, <1>7, <1>11, <1>12, <1>14, <1>19, <1>20 DEF IInv, Contents

LEMMA UnlockAdvertiseKeeps ==
    ASSUME IInv, NEW w \in Workers, UnlockVictim(w), skip_and_bump[w] > 1
    PROVE  IInv'
<1>1. /\ pc[w] = "unlock" /\ pc' = [pc EXCEPT ![w] = "adv_load"]
      /\ task_pool' = "published" /\ H0' = [H0 EXCEPT ![w] = 0]
      /\ H' = [H EXCEPT ![w] = 0] /\ skip_and_bump' = [skip_and_bump EXCEPT ![w] = 0]
      /\ UNCHANGED <<head, tail, my_task_pool_size, task_pool_ptr, task_and_tag, mailbox>>
      /\ UNCHANGED <<my_pool_state, demand, spawned, times, result, batch>>
      /\ UNCHANGED <<mirror, snapshot>>
    BY DEF Goto, deque, mail, arena, thief, own, UnlockVictim, ReleasePool
<1>2. /\ H0' \in [Workers -> Nat] /\ H' \in [Workers -> Nat]
      /\ skip_and_bump' \in [Workers -> 0 .. 2]
    BY NotNull, Typed, <1>1 DEF IInv, TypeOK
<1>3. TypeOK'
    BY NotNull, LocsAre, <1>1, <1>2, Typed DEF IInv, TypeOK
<1>4. /\ Moves(w, "adv_load") /\ task_pool' = "published" /\ H0'[w] = 0
      /\ (\A u \in Workers : u # w => H0'[u] = H0[u]) /\ H'[w] = 0
      /\ (\A u \in Workers : u # w => H'[u] = H[u]) /\ skip_and_bump'[w] = 0
      /\ (\A u \in Workers : u # w => skip_and_bump'[u] = skip_and_bump[u])
    BY NotNull, <1>1 DEF IInv, TypeOK, Moves
<1>5. \A u \in Threads : u # w => Same(u)
    BY <1>1, <1>4, Unmoved, NotNull DEF Moves, Same
<1>6. /\ Locking(w) /\ ~ Locking(w)' /\ ~ Stealing(w) /\ ~ Stealing(w)'
      /\ (Holds(w)' <=> Holds(w))
    BY <1>1, <1>4, NotNull DEF Moves, Locking, Stealing, Holds, StealLocs
<1>7. Roles'
    BY <1>1, <1>4, <1>5, NotNull DEF IInv, Roles, Same, Moves, SpawnLocs, GetLocs,
        AdvertiseLocs, StealLocs, SnapshotLocs
<1>8. LockExact'
    BY <1>1, <1>4, <1>5, <1>6, NotNull DEF IInv, LockExact, Same, Moves
<1>9. /\ Bound' = Bound /\ Last' = Last
    BY <1>1, <1>4, <1>5, NotNull DEF Moves, Bound, Last, Same
<1>10. pc[Owner] \notin {"retail", "g_reset", "enter"} /\ pc'[Owner] = pc[Owner]
      /\ \A u \in Workers : u # w => ~ Stealing(u) /\ ~ Stealing(u)'
    BY <1>1, <1>4, <1>5, <1>6, NotNull DEF IInv, LockExact, Same, Locking, Stealing,
        StealLocs, Moves
<1>11. /\ First = head /\ First' = head'
    BY <1>6, <1>8, <1>10, FirstIs, FirstIsNext DEF IInv, FirstThere
<1>12. Room'
    BY Typed, NotNull, <1>1, <1>4, <1>5 DEF IInv, Moves, Same, Room, SpawnLocs
<1>13. Carried'
    BY NotNull, <1>1, <1>4, <1>5 DEF IInv, Moves, Same, Carried, AdvertiseLocs
<1>14. /\ head' <= Bound'
    BY ThiefIs, Typed, <1>1, <1>4, <1>6, <1>9 DEF IInv
<1>15. Ends'
    BY <1>1, <1>4, <1>14, <1>6, <1>10, EndsThief DEF Moves
<1>16. SameEnds
    BY <1>1, <1>4, <1>11, <1>9, <1>10 DEF SameEnds
<1>17. SameBatch
    BY <1>1, <1>4, <1>5, NotNull DEF SameBatch, Unmailed, Moves, Same
<1>18. SameMail
    BY <1>1 DEF SameMail
<1>19. SameHands
    BY <1>1, <1>4, <1>5, <1>6 DEF SameHands, Same, Holds
<1>20. Contents'
    BY <1>1, <1>4, <1>16, <1>17, <1>18, <1>19, NotNull, ContentsStay
<1>21. DemandExact'
    BY <1>1, <1>4, DemandStays, NotNull DEF IInv
<1> QED
    BY <1>3, <1>7, <1>8, <1>12, <1>13, <1>15, <1>20, <1>21 DEF IInv, Contents

LEMMA UnlockKeeps ==
    ASSUME IInv, NEW w \in Workers, UnlockVictim(w), ~ (skip_and_bump[w] > 1)
    PROVE  IInv'
<1>1. /\ pc[w] = "unlock" /\ pc' = [pc EXCEPT ![w] = "stolen"] /\ task_pool' = "published"
      /\ H0' = [H0 EXCEPT ![w] = 0] /\ H' = [H EXCEPT ![w] = 0]
      /\ skip_and_bump' = [skip_and_bump EXCEPT ![w] = 0]
      /\ UNCHANGED <<head, tail, my_task_pool_size, task_pool_ptr, task_and_tag, mailbox>>
      /\ UNCHANGED <<my_pool_state, demand, spawned, times, result, batch>>
      /\ UNCHANGED <<mirror, snapshot>>
    BY DEF Goto, deque, mail, arena, thief, own, UnlockVictim, ReleasePool
<1>2. /\ H0' \in [Workers -> Nat] /\ H' \in [Workers -> Nat]
      /\ skip_and_bump' \in [Workers -> 0 .. 2]
    BY NotNull, Typed, <1>1 DEF IInv, TypeOK
<1>3. TypeOK'
    BY NotNull, LocsAre, <1>1, <1>2, Typed DEF IInv, TypeOK
<1>4. /\ Moves(w, "stolen") /\ task_pool' = "published" /\ H0'[w] = 0
      /\ (\A u \in Workers : u # w => H0'[u] = H0[u]) /\ H'[w] = 0
      /\ (\A u \in Workers : u # w => H'[u] = H[u]) /\ skip_and_bump'[w] = 0
      /\ (\A u \in Workers : u # w => skip_and_bump'[u] = skip_and_bump[u])
    BY NotNull, <1>1 DEF IInv, TypeOK, Moves
<1>5. \A u \in Threads : u # w => Same(u)
    BY <1>1, <1>4, Unmoved, NotNull DEF Moves, Same
<1>6. /\ Locking(w) /\ ~ Locking(w)' /\ ~ Stealing(w) /\ ~ Stealing(w)'
      /\ (Holds(w)' <=> Holds(w))
    BY <1>1, <1>4, NotNull DEF Moves, Locking, Stealing, Holds, StealLocs
<1>7. Roles'
    BY <1>1, <1>4, <1>5, NotNull DEF IInv, Roles, Same, Moves, SpawnLocs, GetLocs,
        AdvertiseLocs, StealLocs, SnapshotLocs
<1>8. LockExact'
    BY <1>1, <1>4, <1>5, <1>6, NotNull DEF IInv, LockExact, Same, Moves
<1>9. /\ Bound' = Bound /\ Last' = Last
    BY <1>1, <1>4, <1>5, NotNull DEF Moves, Bound, Last, Same
<1>10. pc[Owner] \notin {"retail", "g_reset", "enter"} /\ pc'[Owner] = pc[Owner]
      /\ \A u \in Workers : u # w => ~ Stealing(u) /\ ~ Stealing(u)'
    BY <1>1, <1>4, <1>5, <1>6, NotNull DEF IInv, LockExact, Same, Locking, Stealing,
        StealLocs, Moves
<1>11. /\ First = head /\ First' = head'
    BY <1>6, <1>8, <1>10, FirstIs, FirstIsNext DEF IInv, FirstThere
<1>12. Room'
    BY Typed, NotNull, <1>1, <1>4, <1>5 DEF IInv, Moves, Same, Room, SpawnLocs
<1>13. Carried'
    BY NotNull, <1>1, <1>4, <1>5 DEF IInv, Moves, Same, Carried, AdvertiseLocs
<1>14. /\ head' <= Bound'
    BY ThiefIs, Typed, <1>1, <1>4, <1>6, <1>9 DEF IInv
<1>15. Ends'
    BY <1>1, <1>4, <1>14, <1>6, <1>10, EndsThief DEF Moves
<1>16. SameEnds
    BY <1>1, <1>4, <1>11, <1>9, <1>10 DEF SameEnds
<1>17. SameBatch
    BY <1>1, <1>4, <1>5, NotNull DEF SameBatch, Unmailed, Moves, Same
<1>18. SameMail
    BY <1>1 DEF SameMail
<1>19. SameHands
    BY <1>1, <1>4, <1>5, <1>6 DEF SameHands, Same, Holds
<1>20. Contents'
    BY <1>1, <1>4, <1>16, <1>17, <1>18, <1>19, NotNull, ContentsStay
<1>21. DemandExact'
    BY <1>1, <1>4, DemandStays, NotNull DEF IInv
<1> QED
    BY <1>3, <1>7, <1>8, <1>12, <1>13, <1>15, <1>20, <1>21 DEF IInv, Contents

-----------------------------------------------------------------------------
(* receive_or_steal_task: what a thief has stolen, and mail. *)

LEMMA StolenNothingKeeps ==
    ASSUME IInv, NEW w \in Workers, Stolen(w), result[w] = NULL
    PROVE  IInv'
<1>1. /\ pc[w] = "stolen" /\ pc' = [pc EXCEPT ![w] = "idle"]
      /\ result' = [result EXCEPT ![w] = NULL]
      /\ UNCHANGED <<task_pool, head, tail, my_task_pool_size, task_pool_ptr, task_and_tag>>
      /\ UNCHANGED <<mailbox, my_pool_state, demand, spawned, times, batch>>
      /\ UNCHANGED <<mirror, H0, H, skip_and_bump, snapshot>>
    BY DEF Goto, deque, mail, arena, thief, own, Stolen, HasTask
<1>2. TypeOK'
    BY NotNull, LocsAre, <1>1 DEF IInv, TypeOK
<1>3. /\ Moves(w, "idle") /\ result'[w] = NULL
      /\ (\A u \in Threads : u # w => result'[u] = result[u])
    BY NotNull, <1>1 DEF IInv, TypeOK, Moves
<1>4. \A u \in Threads : u # w => Same(u)
    BY <1>1, <1>3, Unmoved, NotNull DEF Moves, Same
<1>5. /\ ~ Locking(w) /\ ~ Locking(w)' /\ ~ Stealing(w) /\ ~ Stealing(w)' /\ ~ Holds(w)
      /\ ~ Holds(w)'
    BY <1>1, <1>3, NotNull DEF Moves, Locking, Stealing, Holds, StealLocs
<1>6. Roles'
    BY <1>1, <1>3, <1>4, NotNull DEF IInv, Roles, Same, Moves, SpawnLocs, GetLocs,
        AdvertiseLocs, StealLocs, SnapshotLocs
<1>7. LockExact'
    BY <1>1, <1>3, <1>4, <1>5, NotNull DEF IInv, LockExact, Same, Moves
<1>8. /\ Bound' = Bound /\ Last' = Last
    BY <1>1, <1>3, <1>4, NotNull DEF Moves, Bound, Last, Same
<1>9. First' = First
    BY <1>1, <1>3, <1>4, <1>5, <1>7, FirstStays, NotNull DEF IInv, Same, OthersKeep
<1>10. Room'
    BY Typed, NotNull, <1>1, <1>3, <1>4 DEF IInv, Moves, Same, Room, SpawnLocs
<1>11. Carried'
    BY NotNull, <1>1, <1>3, <1>4 DEF IInv, Moves, Same, Carried, AdvertiseLocs
<1>12. Ends'
    BY Typed, FirstTyped, <1>1, <1>3, <1>4, <1>5, <1>9, <1>8, EndsStay, NotNull DEF IInv,
        Moves, Same
<1>13. SameEnds
    BY <1>1, <1>3, <1>9, <1>8 DEF SameEnds
<1>14. SameBatch
    BY <1>1, <1>3, <1>4, NotNull DEF SameBatch, Unmailed, Moves, Same
<1>15. SameMail
    BY <1>1 DEF SameMail
<1>16. SameHands
    BY <1>1, <1>3, <1>4, <1>5 DEF SameHands, Same
<1>17. Contents'
    BY <1>1, <1>3, <1>13, <1>14, <1>15, <1>16, NotNull, ContentsStay
<1>18. DemandExact'
    BY <1>1, <1>3, DemandStays, NotNull DEF IInv
<1> QED
    BY <1>2, <1>6, <1>7, <1>10, <1>11, <1>12, <1>17, <1>18 DEF IInv, Contents

LEMMA StolenKeeps ==
    ASSUME IInv, NEW w \in Workers, Stolen(w), result[w] # NULL, HasTask(result[w])
    PROVE  IInv'
<1>1. /\ pc[w] = "stolen" /\ pc' = [pc EXCEPT ![w] = "busy"]
      /\ Extract(result[w], "mailbox") /\ result' = [result EXCEPT ![w] = NULL]
      /\ UNCHANGED <<task_pool, head, tail, my_task_pool_size, task_pool_ptr, mailbox>>
      /\ UNCHANGED <<my_pool_state, demand, spawned, batch, mirror, H0>>
      /\ UNCHANGED <<H, skip_and_bump, snapshot>>
    BY DEF Goto, deque, mail, arena, thief, own, Stolen
<1>2. /\ result[w] \in Stored /\ result[w] \in Tasks
    BY NotNull, Typed, <1>1, TakenIs DEF IInv
<1>3. /\ task_and_tag' \in [Tasks -> {"none", "both", "pool", "mailbox", "freed"}]
      /\ times' \in [Tasks -> Nat]
    BY NotNull, Typed, <1>1, <1>2, TakenIs DEF IInv
<1>4. TypeOK'
    BY NotNull, LocsAre, <1>1, <1>2, <1>3 DEF IInv, TypeOK
<1>5. /\ Moves(w, "busy") /\ result'[w] = NULL
      /\ (\A u \in Threads : u # w => result'[u] = result[u])
    BY NotNull, <1>1, <1>2 DEF IInv, TypeOK, Moves
<1>6. \A u \in Threads : u # w => Same(u)
    BY <1>1, <1>5, Unmoved, NotNull DEF Moves, Same
<1>7. /\ ~ Locking(w) /\ ~ Locking(w)' /\ ~ Stealing(w) /\ ~ Stealing(w)' /\ Holds(w)
      /\ ~ Holds(w)'
    BY <1>1, <1>5, <1>2, NotNull DEF Moves, Locking, Stealing, Holds, StealLocs
<1>8. Roles'
    BY <1>1, <1>5, <1>6, NotNull DEF IInv, Roles, Same, Moves, SpawnLocs, GetLocs,
        AdvertiseLocs, StealLocs, SnapshotLocs
<1>9. LockExact'
    BY <1>1, <1>5, <1>2, <1>6, <1>7, NotNull DEF IInv, LockExact, Same, Moves
<1>10. /\ Bound' = Bound /\ Last' = Last
    BY <1>1, <1>5, <1>6, NotNull DEF Moves, Bound, Last, Same
<1>11. First' = First
    BY <1>1, <1>5, <1>2, <1>6, <1>7, <1>9, FirstStays, NotNull DEF IInv, Same, OthersKeep
<1>12. Room'
    BY Typed, NotNull, <1>1, <1>5, <1>2, <1>6 DEF IInv, Moves, Same, Room, SpawnLocs
<1>13. Carried'
    BY NotNull, <1>1, <1>5, <1>2, <1>6 DEF IInv, Moves, Same, Carried, AdvertiseLocs
<1>14. Ends'
    BY Typed, FirstTyped, <1>1, <1>5, <1>2, <1>6, <1>7, <1>11, <1>10, EndsStay, NotNull DEF
        IInv, Moves, Same
<1>15. SameEnds
    BY <1>1, <1>5, <1>2, <1>11, <1>10 DEF SameEnds
<1>16. SameBatch
    BY <1>1, <1>5, <1>6, NotNull, <1>2 DEF SameBatch, Unmailed, Moves, Same
<1>17. Contents'
    BY <1>1, <1>5, <1>2, <1>15, <1>16, <1>6, <1>7, NotNull, ContentsDealt
<1>18. DemandExact'
    BY <1>1, <1>5, DemandStays, NotNull DEF IInv
<1> QED
    BY <1>4, <1>8, <1>9, <1>12, <1>13, <1>14, <1>17, <1>18 DEF IInv, Contents

LEMMA StolenProxyKeeps ==
    ASSUME IInv, NEW w \in Workers, Stolen(w), result[w] # NULL, ~ HasTask(result[w])
    PROVE  IInv'
<1>1. /\ pc[w] = "stolen" /\ pc' = [pc EXCEPT ![w] = "idle"]
      /\ Extract(result[w], "mailbox") /\ result' = [result EXCEPT ![w] = NULL]
      /\ UNCHANGED <<task_pool, head, tail, my_task_pool_size, task_pool_ptr, mailbox>>
      /\ UNCHANGED <<my_pool_state, demand, spawned, batch, mirror, H0>>
      /\ UNCHANGED <<H, skip_and_bump, snapshot>>
    BY DEF Goto, deque, mail, arena, thief, own, Stolen
<1>2. /\ result[w] \in Stored /\ result[w] \in Tasks
    BY NotNull, Typed, <1>1, TakenIs DEF IInv
<1>3. /\ task_and_tag' \in [Tasks -> {"none", "both", "pool", "mailbox", "freed"}]
      /\ times' \in [Tasks -> Nat]
    BY NotNull, Typed, <1>1, <1>2, TakenIs DEF IInv
<1>4. TypeOK'
    BY NotNull, LocsAre, <1>1, <1>2, <1>3 DEF IInv, TypeOK
<1>5. /\ Moves(w, "idle") /\ result'[w] = NULL
      /\ (\A u \in Threads : u # w => result'[u] = result[u])
    BY NotNull, <1>1, <1>2 DEF IInv, TypeOK, Moves
<1>6. \A u \in Threads : u # w => Same(u)
    BY <1>1, <1>5, Unmoved, NotNull DEF Moves, Same
<1>7. /\ ~ Locking(w) /\ ~ Locking(w)' /\ ~ Stealing(w) /\ ~ Stealing(w)' /\ Holds(w)
      /\ ~ Holds(w)'
    BY <1>1, <1>5, <1>2, NotNull DEF Moves, Locking, Stealing, Holds, StealLocs
<1>8. Roles'
    BY <1>1, <1>5, <1>6, NotNull DEF IInv, Roles, Same, Moves, SpawnLocs, GetLocs,
        AdvertiseLocs, StealLocs, SnapshotLocs
<1>9. LockExact'
    BY <1>1, <1>5, <1>2, <1>6, <1>7, NotNull DEF IInv, LockExact, Same, Moves
<1>10. /\ Bound' = Bound /\ Last' = Last
    BY <1>1, <1>5, <1>6, NotNull DEF Moves, Bound, Last, Same
<1>11. First' = First
    BY <1>1, <1>5, <1>2, <1>6, <1>7, <1>9, FirstStays, NotNull DEF IInv, Same, OthersKeep
<1>12. Room'
    BY Typed, NotNull, <1>1, <1>5, <1>2, <1>6 DEF IInv, Moves, Same, Room, SpawnLocs
<1>13. Carried'
    BY NotNull, <1>1, <1>5, <1>2, <1>6 DEF IInv, Moves, Same, Carried, AdvertiseLocs
<1>14. Ends'
    BY Typed, FirstTyped, <1>1, <1>5, <1>2, <1>6, <1>7, <1>11, <1>10, EndsStay, NotNull DEF
        IInv, Moves, Same
<1>15. SameEnds
    BY <1>1, <1>5, <1>2, <1>11, <1>10 DEF SameEnds
<1>16. SameBatch
    BY <1>1, <1>5, <1>6, NotNull, <1>2 DEF SameBatch, Unmailed, Moves, Same
<1>17. Contents'
    BY <1>1, <1>5, <1>2, <1>15, <1>16, <1>6, <1>7, NotNull, ContentsDealt
<1>18. DemandExact'
    BY <1>1, <1>5, DemandStays, NotNull DEF IInv
<1> QED
    BY <1>4, <1>8, <1>9, <1>12, <1>13, <1>14, <1>17, <1>18 DEF IInv, Contents

LEMMA ReceiveMailKeeps ==
    ASSUME IInv, NEW t \in Tasks, NEW w \in Workers, ReceiveMail(w, t), HasTask(t)
    PROVE  IInv'
<1>1. /\ pc[w] = "idle" /\ pc' = [pc EXCEPT ![w] = "busy"] /\ mailbox' = mailbox \ {t}
      /\ Extract(t, "pool")
      /\ UNCHANGED <<task_pool, head, tail, my_task_pool_size, task_pool_ptr, my_pool_state>>
      /\ UNCHANGED <<demand, spawned, result, batch, mirror, H0>>
      /\ UNCHANGED <<H, skip_and_bump, snapshot>>
    BY DEF Goto, deque, mail, arena, thief, own, ReceiveMail
<1>2. /\ IsProxy(t) /\ t \in mailbox /\ result[w] = NULL
    BY NotNull, Typed, <1>1, MailTakenIs DEF IInv, Carried, AdvertiseLocs, ReceiveMail
<1>3. /\ task_and_tag' \in [Tasks -> {"none", "both", "pool", "mailbox", "freed"}]
      /\ times' \in [Tasks -> Nat]
    BY NotNull, Typed, <1>1, <1>2, MailTakenIs DEF IInv
<1>4. TypeOK'
    BY NotNull, LocsAre, <1>1, <1>2, <1>3 DEF IInv, TypeOK
<1>5. /\ Moves(w, "busy") /\ mailbox' = mailbox \ {t}
    BY NotNull, <1>1, <1>2 DEF IInv, TypeOK, Moves
<1>6. \A u \in Threads : u # w => Same(u)
    BY <1>1, <1>5, Unmoved, NotNull DEF Moves, Same
<1>7. /\ ~ Locking(w) /\ ~ Locking(w)' /\ ~ Stealing(w) /\ ~ Stealing(w)' /\ ~ Holds(w)
      /\ ~ Holds(w)'
    BY <1>1, <1>5, <1>2, NotNull DEF Moves, Locking, Stealing, Holds, StealLocs
<1>8. Roles'
    BY <1>1, <1>5, <1>6, NotNull DEF IInv, Roles, Same, Moves, SpawnLocs, GetLocs,
        AdvertiseLocs, StealLocs, SnapshotLocs
<1>9. LockExact'
    BY <1>1, <1>5, <1>2, <1>6, <1>7, NotNull DEF IInv, LockExact, Same, Moves
<1>10. /\ Bound' = Bound /\ Last' = Last
    BY <1>1, <1>5, <1>6, NotNull DEF Moves, Bound, Last, Same
<1>11. First' = First
    BY <1>1, <1>5, <1>2, <1>6, <1>7, <1>9, FirstStays, NotNull DEF IInv, Same, OthersKeep
<1>12. Room'
    BY Typed, NotNull, <1>1, <1>5, <1>2, <1>6 DEF IInv, Moves, Same, Room, SpawnLocs
<1>13. Carried'
    BY NotNull, <1>1, <1>5, <1>2, <1>6 DEF IInv, Moves, Same, Carried, AdvertiseLocs
<1>14. Ends'
    BY Typed, FirstTyped, <1>1, <1>5, <1>2, <1>6, <1>7, <1>11, <1>10, EndsStay, NotNull DEF
        IInv, Moves, Same
<1>15. SameEnds
    BY <1>1, <1>5, <1>2, <1>11, <1>10 DEF SameEnds
<1>16. SameBatch
    BY <1>1, <1>5, <1>6, NotNull, <1>2 DEF SameBatch, Unmailed, Moves, Same
<1>17. SameHands
    BY <1>1, <1>5, <1>6, <1>7 DEF SameHands, Same
<1>18. Contents'
    BY <1>1, <1>5, <1>2, <1>15, <1>16, <1>17, NotNull, ContentsReceived
<1>19. DemandExact'
    BY <1>1, <1>5, DemandStays, NotNull DEF IInv
<1> QED
    BY <1>4, <1>8, <1>9, <1>12, <1>13, <1>14, <1>18, <1>19 DEF IInv, Contents

LEMMA ReceiveProxyKeeps ==
    ASSUME IInv, NEW t \in Tasks, NEW w \in Workers, ReceiveMail(w, t), ~ HasTask(t)
    PROVE  IInv'
<1>1. /\ pc[w] = "idle" /\ pc' = [pc EXCEPT ![w] = "idle"] /\ mailbox' = mailbox \ {t}
      /\ Extract(t, "pool")
      /\ UNCHANGED <<task_pool, head, tail, my_task_pool_size, task_pool_ptr, my_pool_state>>
      /\ UNCHANGED <<demand, spawned, result, batch, mirror, H0>>
      /\ UNCHANGED <<H, skip_and_bump, snapshot>>
    BY DEF Goto, deque, mail, arena, thief, own, ReceiveMail
<1>2. /\ IsProxy(t) /\ t \in mailbox /\ result[w] = NULL
    BY NotNull, Typed, <1>1, MailTakenIs DEF IInv, Carried, AdvertiseLocs, ReceiveMail
<1>3. /\ task_and_tag' \in [Tasks -> {"none", "both", "pool", "mailbox", "freed"}]
      /\ times' \in [Tasks -> Nat]
    BY NotNull, Typed, <1>1, <1>2, MailTakenIs DEF IInv
<1>4. TypeOK'
    BY NotNull, LocsAre, <1>1, <1>2, <1>3 DEF IInv, TypeOK
<1>5. /\ Moves(w, "idle") /\ mailbox' = mailbox \ {t}
    BY NotNull, <1>1, <1>2 DEF IInv, TypeOK, Moves
<1>6. \A u \in Threads : u # w => Same(u)
    BY <1>1, <1>5, Unmoved, NotNull DEF Moves, Same
<1>7. /\ ~ Locking(w) /\ ~ Locking(w)' /\ ~ Stealing(w) /\ ~ Stealing(w)' /\ ~ Holds(w)
      /\ ~ Holds(w)'
    BY <1>1, <1>5, <1>2, NotNull DEF Moves, Locking, Stealing, Holds, StealLocs
<1>8. Roles'
    BY <1>1, <1>5, <1>6, NotNull DEF IInv, Roles, Same, Moves, SpawnLocs, GetLocs,
        AdvertiseLocs, StealLocs, SnapshotLocs
<1>9. LockExact'
    BY <1>1, <1>5, <1>2, <1>6, <1>7, NotNull DEF IInv, LockExact, Same, Moves
<1>10. /\ Bound' = Bound /\ Last' = Last
    BY <1>1, <1>5, <1>6, NotNull DEF Moves, Bound, Last, Same
<1>11. First' = First
    BY <1>1, <1>5, <1>2, <1>6, <1>7, <1>9, FirstStays, NotNull DEF IInv, Same, OthersKeep
<1>12. Room'
    BY Typed, NotNull, <1>1, <1>5, <1>2, <1>6 DEF IInv, Moves, Same, Room, SpawnLocs
<1>13. Carried'
    BY NotNull, <1>1, <1>5, <1>2, <1>6 DEF IInv, Moves, Same, Carried, AdvertiseLocs
<1>14. Ends'
    BY Typed, FirstTyped, <1>1, <1>5, <1>2, <1>6, <1>7, <1>11, <1>10, EndsStay, NotNull DEF
        IInv, Moves, Same
<1>15. SameEnds
    BY <1>1, <1>5, <1>2, <1>11, <1>10 DEF SameEnds
<1>16. SameBatch
    BY <1>1, <1>5, <1>6, NotNull, <1>2 DEF SameBatch, Unmailed, Moves, Same
<1>17. SameHands
    BY <1>1, <1>5, <1>6, <1>7 DEF SameHands, Same
<1>18. Contents'
    BY <1>1, <1>5, <1>2, <1>15, <1>16, <1>17, NotNull, ContentsReceived
<1>19. DemandExact'
    BY <1>1, <1>5, DemandStays, NotNull DEF IInv
<1> QED
    BY <1>4, <1>8, <1>9, <1>12, <1>13, <1>14, <1>18, <1>19 DEF IInv, Contents

-----------------------------------------------------------------------------
(* Advertising and the snapshots leave the deque alone and count the demand. *)

LEMMA RaisingGains ==
    ASSUME NEW p \in Threads, Moves(p, "adv_demand"), pc[p] \notin {"s_demand", "adv_demand"}
    PROVE  /\ Cardinality(Raising') = Cardinality(Raising) + 1
           /\ Cardinality(Dropping') = Cardinality(Dropping)
<1>1. Raising' = Raising \cup {p} /\ p \notin Raising /\ Dropping' = Dropping
    BY NotNull DEF Raising, Dropping, Moves
<1> QED BY <1>1, Finite, FS_AddElement

LEMMA RaisingLoses ==
    ASSUME NEW p \in Threads, NEW loc, Moves(p, loc), pc[p] = "adv_demand",
           loc \notin {"s_demand", "adv_demand"}
    PROVE  /\ Cardinality(Raising') = Cardinality(Raising) - 1
           /\ Cardinality(Dropping') = Cardinality(Dropping)
<1>1. Raising' = Raising \ {p} /\ p \in Raising /\ Dropping' = Dropping
    BY NotNull DEF Raising, Dropping, Moves
<1> QED BY <1>1, Finite, FS_RemoveElement

LEMMA DroppingGains ==
    ASSUME NEW w \in Workers, Moves(w, "s_demand"), pc[w] \notin {"s_demand", "adv_demand"}
    PROVE  /\ Cardinality(Dropping') = Cardinality(Dropping) + 1
           /\ Cardinality(Raising') = Cardinality(Raising)
<1>1. Dropping' = Dropping \cup {w} /\ w \notin Dropping /\ Raising' = Raising
    BY NotNull DEF Raising, Dropping, Moves
<1> QED BY <1>1, Finite, FS_AddElement

LEMMA DroppingLoses ==
    ASSUME NEW w \in Workers, NEW loc, Moves(w, loc), pc[w] = "s_demand",
           loc \notin {"s_demand", "adv_demand"}
    PROVE  /\ Cardinality(Dropping') = Cardinality(Dropping) - 1
           /\ Cardinality(Raising') = Cardinality(Raising)
<1>1. Dropping' = Dropping \ {w} /\ w \in Dropping /\ Raising' = Raising
    BY NotNull DEF Raising, Dropping, Moves
<1> QED BY <1>1, Finite, FS_RemoveElement

LEMMA GotoMoves ==
    ASSUME TypeOK, NEW p \in Threads, NEW loc \in Locs, Goto(p, loc)
    PROVE  Moves(p, loc) /\ pc' \in [Threads -> Locs]
    BY DEF TypeOK, Goto, Moves

\* A step of advertise_new_work.
LEMMA Advertised ==
    ASSUME IInv, NEW p \in Threads, pc[p] \in AdvertiseLocs,
           NEW loc \in AdvertiseLocs \cup {AfterAdvertise(p)}, Moves(p, loc),
           pc' \in [Threads -> Locs],
           UNCHANGED <<deque, mail, spawned, times, result, own, thief>>,
           snapshot' \in [Threads -> {"EMPTY", "FULL"} \cup Workers],
           my_pool_state' \in {"EMPTY", "FULL"} \cup Workers, demand' \in Int, DemandExact'
    PROVE  IInv'
<1>1. TypeOK'
    BY DEF IInv, TypeOK, deque, mail, own, thief
<1> QED BY <1>1, Elsewhere, NotNull DEF deque, mail, own, thief, Quiet, QuietWorker,
    AfterAdvertise

LEMMA AfterIs ==
    \A p \in Threads : AfterAdvertise(p) \in Locs /\ AfterAdvertise(p) \in {"idle", "stolen"}
    BY LocsAre DEF AfterAdvertise

LEMMA PoolStateIs == \A w \in Workers : w # "EMPTY" /\ w # "FULL"
    BY DequeAssumption

LEMMA AdvertiseLoadKeeps ==
    ASSUME IInv, NEW p \in Threads, AdvertiseLoad(p)
    PROVE  IInv'
<1>1. PICK loc \in {"adv_cas", AfterAdvertise(p)} : Goto(p, loc)
    BY DEF AdvertiseLoad
<1>2. Moves(p, loc) /\ pc' \in [Threads -> Locs]
    BY <1>1, GotoMoves, AfterIs, LocsAre DEF IInv
<1>3. /\ pc[p] = "adv_load" /\ UNCHANGED <<deque, mail, arena, spawned, times, result, own,
             thief>>
      /\ snapshot' \in [Threads -> {"EMPTY", "FULL"} \cup Workers]
    BY DEF AdvertiseLoad, IInv, TypeOK
<1>4. DemandExact'
    BY <1>2, <1>3, DemandStays, AfterIs DEF IInv, arena
<1> QED BY <1>2, <1>3, <1>4, Advertised DEF IInv, TypeOK, arena, AdvertiseLocs

LEMMA AdvertiseCASKeeps ==
    ASSUME IInv, NEW p \in Threads, AdvertiseCAS(p)
    PROVE  IInv'
<1>1. PICK loc \in {"adv_demand", "adv_cas2", AfterAdvertise(p)} : Goto(p, loc)
    BY DEF AdvertiseCAS
<1>2. Moves(p, loc) /\ pc' \in [Threads -> Locs] /\ pc'[p] = loc
    BY <1>1, GotoMoves, AfterIs, LocsAre DEF IInv, Moves
<1>3. /\ pc[p] = "adv_cas"
      /\ UNCHANGED <<deque, mail, demand, spawned, times, result, own, thief>>
      /\ snapshot' \in [Threads -> {"EMPTY", "FULL"} \cup Workers]
      /\ my_pool_state' \in {"EMPTY", "FULL"} \cup Workers
    BY DEF AdvertiseCAS, IInv, TypeOK
<1>4. \/ loc = "adv_demand" /\ my_pool_state = "EMPTY" /\ my_pool_state' = "FULL"
      \/ /\ loc # "adv_demand"
         /\ my_pool_state' = "EMPTY" <=> my_pool_state = "EMPTY"
    <2>1. pc'[p] = IF my_pool_state = snapshot[p]
                   THEN IF snapshot[p] = "EMPTY" THEN "adv_demand" ELSE AfterAdvertise(p)
                   ELSE IF my_pool_state = "EMPTY" THEN "adv_cas2" ELSE AfterAdvertise(p)
        BY DEF AdvertiseCAS, Goto, IInv, TypeOK
    <2>2. my_pool_state' = IF my_pool_state = snapshot[p] THEN "FULL" ELSE my_pool_state
        BY DEF AdvertiseCAS
    <2> QED BY <1>2, <2>1, <2>2, AfterIs
<1>5. DemandExact'
    <2>1. CASE loc = "adv_demand" /\ my_pool_state = "EMPTY" /\ my_pool_state' = "FULL"
        <3>1. /\ Cardinality(Raising') = Cardinality(Raising) + 1
              /\ Cardinality(Dropping') = Cardinality(Dropping)
            BY <1>2, <1>3, <2>1, RaisingGains
        <3> QED BY <1>3, <2>1, <3>1, Counts, DemandIs, DemandIsNext DEF IInv
    <2>2. CASE /\ loc # "adv_demand"
               /\ my_pool_state' = "EMPTY" <=> my_pool_state = "EMPTY"
        BY <1>2, <1>3, <2>2, DemandStays, AfterIs DEF IInv
    <2> QED BY <1>4, <2>1, <2>2
<1> QED BY <1>2, <1>3, <1>5, Advertised DEF IInv, TypeOK, AdvertiseLocs

LEMMA AdvertiseCAS2Keeps ==
    ASSUME IInv, NEW p \in Threads, AdvertiseCAS2(p)
    PROVE  IInv'
<1>1. PICK loc \in {"adv_demand", AfterAdvertise(p)} :
          /\ Goto(p, loc)
          /\ \/ loc = "adv_demand" /\ my_pool_state = "EMPTY" /\ my_pool_state' = "FULL"
             \/ loc = AfterAdvertise(p) /\ my_pool_state' = my_pool_state
    BY DEF AdvertiseCAS2
<1>2. Moves(p, loc) /\ pc' \in [Threads -> Locs]
    BY <1>1, GotoMoves, AfterIs, LocsAre DEF IInv
<1>3. /\ pc[p] = "adv_cas2"
      /\ UNCHANGED <<deque, mail, demand, spawned, times, result, own, thief, snapshot>>
    BY DEF AdvertiseCAS2
<1>4. DemandExact'
    <2>1. CASE loc = "adv_demand" /\ my_pool_state = "EMPTY" /\ my_pool_state' = "FULL"
        <3>1. /\ Cardinality(Raising') = Cardinality(Raising) + 1
              /\ Cardinality(Dropping') = Cardinality(Dropping)
            BY <1>2, <1>3, <2>1, RaisingGains
        <3> QED BY <1>3, <2>1, <3>1, Counts, DemandIs, DemandIsNext DEF IInv
    <2>2. CASE loc = AfterAdvertise(p) /\ my_pool_state' = my_pool_state
        BY <1>2, <1>3, <2>2, DemandStays, AfterIs DEF IInv
    <2> QED BY <1>1, <2>1, <2>2
<1> QED BY <1>1, <1>2, <1>3, <1>4, Advertised DEF IInv, TypeOK, AdvertiseLocs

LEMMA AdvertiseDemandKeeps ==
    ASSUME IInv, NEW p \in Threads, AdvertiseDemand(p)
    PROVE  IInv'
<1>1. /\ pc[p] = "adv_demand" /\ Goto(p, AfterAdvertise(p)) /\ demand' = demand + 1
      /\ UNCHANGED <<deque, mail, my_pool_state, spawned, times, result, own, thief, snapshot>>
    BY DEF AdvertiseDemand
<1>2. Moves(p, AfterAdvertise(p)) /\ pc' \in [Threads -> Locs]
    BY <1>1, GotoMoves, AfterIs DEF IInv
<1>3. /\ Cardinality(Raising') = Cardinality(Raising) - 1
      /\ Cardinality(Dropping') = Cardinality(Dropping)
    BY <1>1, <1>2, RaisingLoses, AfterIs
<1>4. DemandExact'
    BY <1>1, <1>3, Counts, DemandIs, DemandIsNext DEF IInv
<1>5. /\ my_pool_state' \in {"EMPTY", "FULL"} \cup Workers /\ demand' \in Int
      /\ snapshot' \in [Threads -> {"EMPTY", "FULL"} \cup Workers]
    BY <1>1 DEF IInv, TypeOK
<1> QED BY <1>1, <1>2, <1>4, <1>5, Advertised DEF AdvertiseLocs

\* A step of is_out_of_work, or of a worker that comes and goes.
Outside == {"idle", "busy", "away"} \cup SnapshotLocs

LEMMA Snapshots ==
    ASSUME IInv, NEW w \in Workers, pc[w] \in Outside, NEW loc \in Outside, Moves(w, loc),
           pc' \in [Threads -> Locs],
           UNCHANGED <<deque, mail, spawned, times, result, own, H0, skip_and_bump, snapshot>>,
           H' \in [Workers -> Nat], \A u \in Workers : u # w => H'[u] = H[u],
           my_pool_state' \in {"EMPTY", "FULL"} \cup Workers, demand' \in Int, DemandExact'
    PROVE  IInv'
<1>1. TypeOK'
    BY DEF IInv, TypeOK, deque, mail, own
<1>2. result[w] = NULL
    BY DEF IInv, Carried, Outside, SnapshotLocs, AdvertiseLocs
<1>3. pc[w] \in QuietWorker /\ loc \in QuietWorker
    BY DEF QuietWorker, Outside
<1> QED BY <1>1, <1>2, <1>3, Elsewhere, NotNull DEF deque, mail, own

LEMMA OutsideIs == /\ Outside \subseteq Locs
                   /\ {"idle", "busy", "away", "s_pool", "s_head", "s_tail", "s_set",
                          "s_demand",
                       "s_undo"} = Outside
    BY DEF Outside, Locs, SnapshotLocs

\* One that leaves the state of the pool alone, or does not make it empty or full.
LEMMA SnapshotKeeps ==
    ASSUME IInv, NEW w \in Workers,
           \/ ReadPool(w) \/ ReadHead(w) \/ ReadTail(w) \/ Return(w) \/ Finish(w)
           \/ OutOfWork(w) \/ UndoSnapshot(w)
    PROVE  IInv'
<1>1. PICK loc \in {"idle", "away", "s_pool", "s_head", "s_tail", "s_set", "s_undo"} : Goto(w,
          loc)
    BY DEF ReadPool, ReadHead, ReadTail, Return, Finish, OutOfWork, UndoSnapshot
<1>2. Moves(w, loc) /\ pc' \in [Threads -> Locs]
    BY <1>1, GotoMoves, LocsAre, NotNull DEF IInv
<1>3. /\ pc[w] \in Outside \ {"s_demand"}
      /\ UNCHANGED <<deque, mail, demand, spawned, times, result, own, H0, skip_and_bump,
             snapshot>>
    BY OutsideIs DEF ReadPool, ReadHead, ReadTail, Return, Finish, OutOfWork, UndoSnapshot,
        arena, thief
<1>4. H' \in [Workers -> Nat] /\ \A u \in Workers : u # w => H'[u] = H[u]
    <2>1. H' = H \/ H' = [H EXCEPT ![w] = head] \/ H' = [H EXCEPT ![w] = 0]
        BY DEF ReadPool, ReadHead, ReadTail, Return, Finish, OutOfWork, UndoSnapshot, thief
    <2>2. H \in [Workers -> Nat] /\ head \in Nat
        BY DEF IInv, TypeOK
    <2> QED BY <2>1, <2>2
<1>5. /\ my_pool_state' \in {"EMPTY", "FULL"} \cup Workers
      /\ my_pool_state' = "EMPTY" <=> my_pool_state = "EMPTY"
    BY PoolStateIs DEF IInv, TypeOK, ReadPool, ReadHead, ReadTail, Return, Finish, OutOfWork,
        UndoSnapshot, arena
<1>6. DemandExact'
    BY <1>2, <1>3, <1>5, DemandStays, OutsideIs, NotNull DEF IInv
<1> QED BY <1>2, <1>3, <1>4, <1>5, <1>6, Snapshots, OutsideIs DEF IInv, TypeOK

LEMMA SetEmptyKeeps ==
    ASSUME IInv, NEW w \in Workers, SetEmpty(w)
    PROVE  IInv'
<1>1. PICK loc \in {"s_demand", "idle"} :
          /\ Goto(w, loc)
          /\ \/ loc = "s_demand" /\ my_pool_state = w /\ my_pool_state' = "EMPTY"
             \/ loc = "idle" /\ my_pool_state' = my_pool_state
    BY DEF SetEmpty
<1>2. Moves(w, loc) /\ pc' \in [Threads -> Locs]
    BY <1>1, GotoMoves, LocsAre, NotNull DEF IInv
<1>3. /\ pc[w] = "s_set"
      /\ UNCHANGED <<deque, mail, demand, spawned, times, result, own, H0, H, skip_and_bump,
             snapshot>>
    BY DEF SetEmpty, thief
<1>4. DemandExact'
    <2>1. CASE loc = "s_demand" /\ my_pool_state = w /\ my_pool_state' = "EMPTY"
        <3>1. /\ Cardinality(Dropping') = Cardinality(Dropping) + 1
              /\ Cardinality(Raising') = Cardinality(Raising)
            BY <1>2, <1>3, <2>1, DroppingGains
        <3> QED BY <1>3, <2>1, <3>1, PoolStateIs, Counts, DemandIs, DemandIsNext DEF IInv
    <2>2. CASE loc = "idle" /\ my_pool_state' = my_pool_state
        BY <1>2, <1>3, <2>2, DemandStays, NotNull DEF IInv
    <2> QED BY <1>1, <2>1, <2>2
<1> QED BY <1>1, <1>2, <1>3, <1>4, Snapshots, OutsideIs DEF IInv, TypeOK

LEMMA DropDemandKeeps ==
    ASSUME IInv, NEW w \in Workers, DropDemand(w)
    PROVE  IInv'
<1>1. /\ pc[w] = "s_demand" /\ Goto(w, "away") /\ demand' = demand - 1
      /\ UNCHANGED <<deque, mail, my_pool_state, spawned, times, result, own, H0, H,
                     skip_and_bump, snapshot>>
    BY DEF DropDemand, thief
<1>2. Moves(w, "away") /\ pc' \in [Threads -> Locs]
    BY <1>1, GotoMoves, LocsAre, NotNull DEF IInv
<1>3. /\ Cardinality(Dropping') = Cardinality(Dropping) - 1
      /\ Cardinality(Raising') = Cardinality(Raising)
    BY <1>1, <1>2, DroppingLoses
<1>4. DemandExact'
    BY <1>1, <1>3, Counts, DemandIs, DemandIsNext DEF IInv
<1>5. /\ my_pool_state' \in {"EMPTY", "FULL"} \cup Workers /\ demand' \in Int
      /\ H' \in [Workers -> Nat] /\ \A u \in Workers : u # w => H'[u] = H[u]
    BY <1>1 DEF IInv, TypeOK
<1> QED BY <1>1, <1>2, <1>4, <1>5, Snapshots, OutsideIs

-----------------------------------------------------------------------------
(* The inductive invariant. *)

LEMMA Starts == Init => IInv
<1> SUFFICES ASSUME Init PROVE IInv
    OBVIOUS
<1>1. /\ \A p \in Threads : ~ Locking(p) /\ ~ Holds(p)
      /\ \A w \in Workers : ~ Stealing(w)
      /\ pc[Owner] = "idle" /\ \A w \in Workers : pc[w] = "away"
    BY NotNull DEF Init, Locking, Holds, Stealing, StealLocs
<1>2. First = 0 /\ Last = -1 /\ Bound = 0 /\ Stored = {} /\ ~ Unmailed
    BY <1>1 DEF Init, First, Last, Bound, Stored, Unmailed
<1>3. TypeOK
    BY NotNull, LocsAre DEF Init, TypeOK
<1>4. Roles /\ LockExact /\ Room /\ Carried
    BY <1>1, NotNull DEF Init, Roles, LockExact, Room, Carried, SpawnLocs, SnapshotLocs,
        AdvertiseLocs
<1>5. Ends /\ Filled /\ EntriesDiffer
    BY <1>1, <1>2 DEF Init, Ends, Filled, EntriesDiffer
<1>6. HandsDiffer /\ NothingLost
    BY <1>1, <1>2 DEF HandsDiffer, NothingLost
<1>7. Coming /\ ProxyState
    BY <1>2, NotNull DEF Init, Coming, ProxyState, taken
<1>8. DemandExact
    <2>1. Dropping = {} /\ Raising = {}
        BY <1>1, NotNull DEF Dropping, Raising, Threads
    <2> QED BY <2>1, FS_EmptySet, DemandIs DEF Init
<1> QED BY <1>3, <1>4, <1>5, <1>6, <1>7, <1>8 DEF IInv

LEMMA SpawnKeeps ==
    ASSUME IInv, SpawnStep \/ \E n \in 1 .. 2 : Spawn(n)
    PROVE  IInv'
<1>1. ASSUME NEW n \in 1 .. 2, Spawn(n) PROVE IInv'
    BY <1>1, SpawnOneKeeps, SpawnTwoKeeps
<1>2. CASE Prepare
    <2>1. task_pool = "published" \/ task_pool # "published"
        OBVIOUS
    <2> QED BY <1>2, PrepareFitsKeeps, PrepareLocksKeeps, PrepareAloneKeeps
<1>3. CASE StoreTail
    BY <1>3, StoreTailLockedKeeps, StoreTailAloneKeeps
<1>4. CASE Store
    BY <1>4, StoreOneKeeps, StoreListKeeps
<1>5. CASE Commit
    BY <1>5, CommitFirstKeeps, CommitKeeps
<1> QED BY <1>1, <1>2, <1>3, <1>4, <1>5, MailListKeeps, RelocateKeeps, EnterArenaKeeps,
           PReleaseKeeps DEF SpawnStep

LEMMA GetKeeps ==
    ASSUME IInv, GetStep \/ GetTask
    PROVE  IInv'
<1>1. CASE TestHead
    BY <1>1, TestHeadLostKeeps, TestHeadKeeps
<1>2. CASE Arbitrate
    <2>1. head < tail \/ head = tail \/ head > tail
        BY Typed DEF IInv
    <2> QED BY <1>2, <2>1, ArbitrateWinsKeeps, ArbitrateLastKeeps, ArbitrateLosesKeeps
<1>3. CASE Got
    BY <1>3, GotNothingKeeps, GotAgainKeeps, GotKeeps
<1> QED BY <1>1, <1>2, <1>3, TakeTailKeeps, LockOwnPoolKeeps, LeaveArenaKeeps, GReleaseKeeps,
           GetTaskKeeps DEF GetStep

LEMMA AdvertiseKeeps ==
    ASSUME IInv, NEW p \in Threads, Advertise(p)
    PROVE  IInv'
    BY AdvertiseLoadKeeps, AdvertiseCASKeeps, AdvertiseCAS2Keeps, AdvertiseDemandKeeps
       DEF Advertise

LEMMA WorkerKeeps ==
    ASSUME IInv, NEW w \in Workers,
           WorkerStep(w) \/ LockVictim(w) \/ Receive(w) \/ OutOfWork(w)
    PROVE  IInv'
<1>1. CASE TestTail(w)
    BY <1>1, TestTailFailsKeeps, TestTailKeeps
<1>2. CASE LookAtHead(w)
    BY <1>2, SkipKeeps, StealFirstKeeps, StealLaterKeeps
<1>3. CASE TestBumped(w)
    BY <1>3, TestBumpedLateKeeps, TestBumpedKeeps
<1>4. CASE UnlockVictim(w)
    BY <1>4, UnlockAdvertiseKeeps, UnlockKeeps
<1>5. CASE Stolen(w)
    BY <1>5, StolenNothingKeeps, StolenKeeps, StolenProxyKeeps
<1>6. CASE Receive(w)
    <2>1. PICK t \in mailbox : ReceiveMail(w, t)
        BY <1>6 DEF Receive
    <2>2. t \in Tasks
        BY DEF IInv, TypeOK
    <2> QED BY <2>1, <2>2, ReceiveMailKeeps, ReceiveProxyKeeps
<1>7. CASE Advertise(w)
    BY <1>7, AdvertiseKeeps, NotNull
<1> QED BY <1>1, <1>2, <1>3, <1>4, <1>5, <1>6, <1>7, LockVictimKeeps, BumpHeadKeeps,
           RestoreHeadKeeps, CloseHoleKeeps, SnapshotKeeps, SetEmptyKeeps, DropDemandKeeps
        DEF WorkerStep, StealStep, SnapshotStep

LEMMA Stutters ==
    ASSUME IInv, UNCHANGED vars
    PROVE  IInv'
<1>1. /\ UNCHANGED <<task_pool, head, tail, my_task_pool_size, task_pool_ptr>>
      /\ UNCHANGED <<task_and_tag, mailbox, my_pool_state, demand, spawned, times, pc>>
      /\ UNCHANGED <<result, batch, mirror, H0, H, skip_and_bump, snapshot>>
    BY DEF vars, deque, mail, arena, own, thief
<1>2. /\ \A p \in Threads : /\ Holds(p)' <=> Holds(p)
                            /\ Locking(p)' <=> Locking(p)
      /\ \A w \in Workers : Stealing(w)' <=> Stealing(w)
      /\ Bound' = Bound /\ Last' = Last /\ (Unmailed' <=> Unmailed)
    BY <1>1 DEF Holds, Locking, Stealing, Bound, Last, Unmailed
<1>3. TypeOK' /\ Roles' /\ LockExact'
    BY <1>1, <1>2 DEF IInv, TypeOK, Roles, LockExact
<1>4. First' = First
    BY <1>1, <1>2, <1>3, FirstStays DEF IInv, OthersKeep
<1>5. Room' /\ Carried' /\ Ends'
    BY <1>1, <1>2 DEF IInv, Room, Carried, Ends
<1>6. Contents'
    BY <1>1, <1>2, <1>4, ContentsStay DEF SameEnds, SameBatch, SameMail, SameHands
<1>7. DemandExact'
    BY <1>1 DEF IInv, DemandExact
<1> QED BY <1>3, <1>5, <1>6, <1>7 DEF IInv, Contents

LEMMA Kept == IInv /\ [Next]_vars => IInv'
<1> SUFFICES ASSUME IInv, [Next]_vars PROVE IInv'
    OBVIOUS
<1> QED BY Stutters, SpawnKeeps, GetKeeps, AdvertiseKeeps, WorkerKeeps, NotNull
        DEF Next, OwnerStep

\* The indices, the lock, the entries of the array, what the threads hold, the
\* proxies in the mailboxes and the demand for workers agree after every step of the
\* owner and of the thieves.
THEOREM Invariant == Spec => []IInv
    BY Starts, Kept, PTL DEF Spec

-----------------------------------------------------------------------------
(* The assertions of the source. *)

LEMMA Asserted ==
    ASSUME IInv
    PROVE  SourceAssertions
<1>1. ASSUME pc[Owner] = "g_arbitrate" PROVE First = head /\ (head <= tail \/ head = tail + 1)
    <2>1. First = head /\ \A w \in Workers : ~ Stealing(w)
        BY <1>1, NoThief DEF Locking
    <2> QED BY <1>1, <2>1, Typed DEF IInv, Ends, Bound
<1>2. ASSUME pc[Owner] = "g_take" \/ (pc[Owner] = "g_arbitrate" /\ head <= tail)
      PROVE  tail \in DOMAIN task_pool_ptr /\ task_pool_ptr[tail] # NULL
    <2>1. First <= tail /\ Last = tail
        BY <1>1, <1>2, FirstTyped DEF Bound, Last
    <2>2. tail \in First .. Last
        BY <2>1, FirstTyped, Typed DEF IInv
    <2> QED BY <2>2, FilledIs, TaskNull DEF IInv, TypeOK
<1>3. ASSUME NEW w \in Workers, pc[w] = "look"
      PROVE  H[w] - 1 \in DOMAIN task_pool_ptr /\ task_pool_ptr[H[w] - 1] # NULL
    BY <1>3, LookIs, StoredIs, TaskNull DEF IInv, TypeOK
<1>4. /\ pc[Owner] = "store" => tail + batch <= my_task_pool_size
      /\ pc[Owner] = "enter" => head < tail
      /\ \A w \in Workers : pc[w] = "bump" => skip_and_bump[w] < 2
    BY DEF IInv, Room, Ends, Carried
<1> QED BY <1>1, <1>2, <1>3, <1>4 DEF SourceAssertions

\* The owner that arbitrates for the last task finds the head where the source says,
\* no thread reads an entry outside the array or one that is poisoned, the room made
\* for a spawn is still there when its tasks are stored, and a pool that is published
\* is not empty.
THEOREM SourceAssertionsInvariant == Spec => []SourceAssertions
    BY Invariant, Asserted, PTL

-----------------------------------------------------------------------------
(* Every task is in one place. *)

LEMMA EntriesCount ==
    ASSUME IInv, NEW t \in Tasks
    PROVE  Cardinality(Entries(t)) = IF Lies(t) THEN 1 ELSE 0
<1>1. CASE Lies(t)
    <2>1. PICK k \in First .. Last : task_pool_ptr[k] = t
        BY <1>1 DEF Lies
    <2>2. Entries(t) = {k}
        BY <2>1 DEF Entries, IInv, EntriesDiffer
    <2> QED BY <1>1, <2>2, FS_Singleton
<1>2. CASE ~ Lies(t)
    <2>1. Entries(t) = {}
        BY <1>2 DEF Entries, Lies
    <2> QED BY <1>2, <2>1, FS_EmptySet
<1> QED BY <1>1, <1>2

LEMMA HoldersCount ==
    ASSUME IInv, NEW t \in Tasks
    PROVE  Cardinality(Holders(t)) = IF Held(t) THEN 1 ELSE 0
<1>1. CASE Held(t)
    <2>1. PICK p \in Threads : Holds(p) /\ result[p] = t
        BY <1>1 DEF Held
    <2>2. Holders(t) = {p}
        BY <2>1 DEF Holders, IInv, HandsDiffer
    <2> QED BY <1>1, <2>2, FS_Singleton
<1>2. CASE ~ Held(t)
    <2>1. Holders(t) = {}
        BY <1>2 DEF Holders, Held
    <2> QED BY <1>2, <2>1, FS_EmptySet
<1> QED BY <1>1, <1>2

LEMMA PlacesAre ==
    ASSUME IInv
    PROVE  OnePlace
<1> SUFFICES ASSUME NEW t \in Tasks
             PROVE  Places(t) =
                        IF t > spawned THEN 0
                        ELSE IF ~ IsProxy(t) THEN IF t \in taken THEN 0 ELSE 1
                        ELSE IF task_and_tag[t] \in {"none", "both", "pool"} THEN 1 ELSE 0
    BY DEF OnePlace
<1>1. /\ t \in 1 .. NumTasks /\ NumTasks \in Nat /\ spawned \in Nat /\ batch \in Nat
      /\ batch <= spawned /\ times[t] \in Nat
    BY Typed, NotNull DEF IInv, Room
<1>2. t \in Stored <=> t <= spawned - batch
    BY <1>1 DEF Stored
<1>3. InBatch(t) <=> t \notin Stored /\ t <= spawned
    <2>1. t \in Batch <=> t > spawned - batch /\ t <= spawned
        BY <1>1 DEF Batch
    <2>2. pc[Owner] \notin SpawnLocs => batch = 0
        BY DEF IInv, Room
    <2> QED BY <1>1, <1>2, <2>1, <2>2 DEF InBatch
<1>4. Lies(t) => t \in Stored
    BY FilledIs DEF Lies
<1>5. Held(t) => t \in Stored /\ ~ Lies(t)
    BY DEF Held, IInv, HandsDiffer
<1>6. t \in Stored => (Left(t) <=> Lies(t) \/ Held(t))
    BY DEF IInv, NothingLost
<1>7. Places(t) = IF t \in Stored THEN IF Left(t) THEN 1 ELSE 0
                  ELSE IF t <= spawned THEN 1 ELSE 0
    <2>1. /\ Cardinality(Entries(t)) = IF Lies(t) THEN 1 ELSE 0
          /\ Cardinality(Holders(t)) = IF Held(t) THEN 1 ELSE 0
        BY EntriesCount, HoldersCount
    <2> QED BY <1>3, <1>4, <1>5, <1>6, <2>1 DEF Places
<1>8. CASE t \in Stored
    <2>1. t <= spawned
        BY <1>1, <1>2, <1>8
    <2>2. IsProxy(t) => task_and_tag[t] # "none"
        BY <1>8 DEF IInv, Coming
    <2>3. Left(t) <=> IF ~ IsProxy(t) THEN t \notin taken
                      ELSE task_and_tag[t] \in {"none", "both", "pool"}
        BY <1>1, <2>2 DEF Left, taken
    <2> QED BY <1>1, <1>7, <1>8, <2>1, <2>3
<1>9. CASE t \notin Stored /\ t <= spawned
    <2>1. ~ IsProxy(t) => t \notin taken
        BY <1>1, <1>9 DEF IInv, Coming, taken
    <2>2. IsProxy(t) => task_and_tag[t] \in {"none", "both", "pool"}
        BY <1>9 DEF IInv, Coming
    <2> QED BY <1>1, <1>7, <1>9, <2>1, <2>2
<1>10. CASE t > spawned
    BY <1>1, <1>2, <1>7, <1>10
<1> QED BY <1>1, <1>8, <1>9, <1>10

\* A task that has been spawned is in the batch of the spawning thread, in one entry of
\* the deque or in the hands of one thread, until it has been dealt with; it is in none
\* of them before and after; and there is no hole between the ends of the deque.
THEOREM BookkeepingInvariant == Spec => []Bookkeeping
<1>1. IInv => NoPoison
    BY FilledIs, TaskNull DEF NoPoison
<1>2. IInv => Bookkeeping
    BY <1>1, PlacesAre DEF Bookkeeping
<1> QED BY <1>2, Invariant, PTL

-----------------------------------------------------------------------------
(* The deque and the mailboxes implement the pool of tasks. *)

LEMMA NotTaken ==
    ASSUME IInv, NEW t \in Tasks, IsProxy(t) => task_and_tag[t] = "both",
           ~ IsProxy(t) => Left(t) /\ t \in Stored
    PROVE  t \in (1 .. spawned) \ taken /\ times[t] = 0
<1>1. /\ t \in 1 .. NumTasks /\ NumTasks \in Nat /\ spawned \in Nat /\ batch \in Nat
      /\ times[t] \in Nat
    BY Typed, NotNull DEF IInv
<1>2. t <= spawned
    <2>1. CASE ~ IsProxy(t)
        BY <1>1, <2>1 DEF Stored
    <2>2. CASE IsProxy(t) /\ t \in Stored
        BY <1>1, <2>2 DEF Stored
    <2>3. CASE IsProxy(t) /\ t \notin Stored
        BY <1>1, <2>3 DEF IInv, Coming
    <2> QED BY <2>1, <2>2, <2>3
<1>3. t \notin taken
    BY <1>1 DEF IInv, ProxyState, taken, Left
<1> QED BY <1>1, <1>2, <1>3 DEF taken

LEMMA ExtractRefines ==
    ASSUME IInv, NEW t \in Tasks, NEW other \in {"pool", "mailbox"}, Extract(t, other),
           spawned' = spawned, ~ IsProxy(t) => Left(t) /\ t \in Stored
    PROVE  [Pool!PoolNext]_Pool!poolVars
<1>1. CASE IsProxy(t) /\ task_and_tag[t] # "both"
    <2>1. times' = times
        BY <1>1 DEF Extract
    <2>2. ((1 .. spawned) \ taken)' = (1 .. spawned) \ taken
        BY <2>1 DEF taken
    <2> QED BY <2>1, <2>2 DEF Pool!poolVars
<1>2. CASE IsProxy(t) => task_and_tag[t] = "both"
    <2>1. t \in (1 .. spawned) \ taken /\ times[t] = 0
        BY <1>2, NotTaken
    <2>2. times' = [times EXCEPT ![t] = times[t] + 1] /\ times \in [Tasks -> Nat]
        BY <1>2 DEF Extract, IInv, TypeOK
    <2>3. taken' = taken \cup {t}
        <3>1. \A u \in Tasks : times'[u] > 0 <=> times[u] > 0 \/ u = t
            BY <2>1, <2>2
        <3> QED BY <3>1 DEF taken
    <2>4. ((1 .. spawned) \ taken)' = ((1 .. spawned) \ taken) \ {t}
        BY <2>3
    <2>5. Pool!Take(t)
        BY <2>1, <2>2, <2>4 DEF Pool!Take
    <2> QED BY <2>5 DEF Pool!PoolNext
<1> QED BY <1>1, <1>2

LEMMA StepRefines == IInv /\ [Next]_vars => [Pool!PoolNext]_Pool!poolVars
<1> SUFFICES ASSUME IInv, [Next]_vars PROVE [Pool!PoolNext]_Pool!poolVars
    OBVIOUS
<1>1. ASSUME UNCHANGED <<spawned, times>> PROVE [Pool!PoolNext]_Pool!poolVars
    <2>1. ((1 .. spawned) \ taken)' = (1 .. spawned) \ taken
        BY <1>1 DEF taken
    <2> QED BY <1>1, <2>1 DEF Pool!poolVars
<1>2. ASSUME NEW n \in 1 .. 2, Spawn(n) PROVE [Pool!PoolNext]_Pool!poolVars
    <2> DEFINE S == spawned + 1 .. spawned + n
    <2>1. /\ spawned' = spawned + n /\ times' = times /\ spawned \in Nat /\ NumTasks \in Nat
          /\ spawned + n <= NumTasks
        BY <1>2, Typed, NotNull DEF Spawn, IInv
    <2>2. S \subseteq Tasks /\ \A t \in S : t > spawned /\ t \notin Stored
        BY <2>1, Typed, NotNull DEF IInv, Stored
    <2>3. \A t \in S : times[t] = 0 /\ t \notin taken /\ t \notin 1 .. spawned
        <3> SUFFICES ASSUME NEW t \in S PROVE times[t] = 0 /\ t \notin taken
            BY <2>1, <2>2
        <3>1. t \in Tasks /\ times[t] \in Nat
            BY <2>2, Typed DEF IInv
        <3> QED BY <2>2, <3>1 DEF IInv, Coming, ProxyState, taken
    <2>4. taken' = taken
        BY <2>1 DEF taken
    <2>5. (1 .. spawned)' = (1 .. spawned) \cup S
        BY <2>1
    <2>6. ((1 .. spawned) \ taken)' = ((1 .. spawned) \ taken) \cup S
        BY <2>3, <2>4, <2>5
    <2>7. Pool!Spawn(S)
        BY <2>1, <2>3, <2>6 DEF Pool!Spawn
    <2> QED BY <2>2, <2>7 DEF Pool!PoolNext
<1>3. ASSUME NEW p \in Threads, result[p] # NULL, pc[p] # "move",
             Extract(result[p], "mailbox"), spawned' = spawned
      PROVE  [Pool!PoolNext]_Pool!poolVars
    <2>1. PICK t \in Tasks : t = result[p] /\ t \in Stored /\ Holds(p)
        BY <1>3, TakenIs
    <2>2. Left(t)
        BY <2>1 DEF IInv, NothingLost, Held
    <2> QED BY <1>3, <2>1, <2>2, ExtractRefines
<1>4. CASE Got
    <2>1. CASE result[Owner] = NULL
        BY <1>1, <1>4, <2>1 DEF Got
    <2>2. CASE result[Owner] # NULL
        BY <1>3, <1>4, <2>2, NotNull DEF Got
    <2> QED BY <2>1, <2>2
<1>5. ASSUME NEW w \in Workers, Stolen(w) PROVE [Pool!PoolNext]_Pool!poolVars
    <2>1. CASE result[w] = NULL
        BY <1>1, <1>5, <2>1 DEF Stolen
    <2>2. CASE result[w] # NULL
        BY <1>3, <1>5, <2>2, NotNull DEF Stolen
    <2> QED BY <2>1, <2>2
<1>6. ASSUME NEW w \in Workers, Receive(w) PROVE [Pool!PoolNext]_Pool!poolVars
    <2>1. PICK t \in mailbox : ReceiveMail(w, t)
        BY <1>6 DEF Receive
    <2>2. t \in Tasks /\ IsProxy(t)
        BY DEF IInv, TypeOK, ProxyState
    <2> QED BY <2>1, <2>2, ExtractRefines DEF ReceiveMail
<1>7. CASE SpawnStep
    BY <1>1, <1>7 DEF SpawnStep, MailList, Prepare, Relocate, StoreTail, Store, Commit,
        EnterArena, OwnerRelease
<1>8. CASE GetTask \/ (GetStep /\ ~ Got)
    BY <1>1, <1>8 DEF GetStep, GetTask, TestHead, TakeTail, LockOwnPool, Arbitrate,
        LeaveArena, OwnerRelease
<1>9. ASSUME NEW p \in Threads, Advertise(p) PROVE [Pool!PoolNext]_Pool!poolVars
    BY <1>1, <1>9 DEF Advertise, AdvertiseLoad, AdvertiseCAS, AdvertiseCAS2, AdvertiseDemand
<1>10. ASSUME NEW w \in Workers,
              StealStep(w) \/ SnapshotStep(w) \/ LockVictim(w) \/ OutOfWork(w)
       PROVE  [Pool!PoolNext]_Pool!poolVars
    <2>1. CASE StealStep(w)
        BY <1>1, <1>5, <1>9, <2>1, NotNull DEF StealStep, BumpHead, TestTail, RestoreHead,
            LookAtHead, CloseHole, TestBumped, UnlockVictim, Finish
    <2>2. CASE SnapshotStep(w) \/ LockVictim(w) \/ OutOfWork(w)
        BY <1>1, <2>2 DEF SnapshotStep, LockVictim, OutOfWork, ReadPool, ReadHead, ReadTail,
            SetEmpty, DropDemand, UndoSnapshot, Return
    <2> QED BY <1>10, <2>1, <2>2
<1>11. CASE UNCHANGED vars
    BY <1>1, <1>11 DEF vars
<1> QED BY <1>2, <1>4, <1>6, <1>7, <1>8, <1>9, <1>10, <1>11, NotNull
        DEF Next, OwnerStep, WorkerStep

\* Each task that is spawned is run by one thread, once, whether it is taken from
\* the tail, stolen from the head or received in a mailbox.
THEOREM Refinement == Spec => RefinesTaskPool
<1>1. Init => Pool!PoolInit
    BY DEF Init, Pool!PoolInit
<1> QED BY <1>1, StepRefines, Invariant, PTL DEF Spec, RefinesTaskPool, Pool!PoolSpec

=============================================================================
