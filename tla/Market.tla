------------------------------- MODULE Market -------------------------------
(***************************************************************************)
(* The market and the lifetime of arenas (src/tbb/market.cpp, market.h,    *)
(* and the parts of arena.h and arena.cpp that call them).                 *)
(*                                                                         *)
(* Masters create arenas, enqueue tasks of several priorities into them,   *)
(* execute functions inside them and leave; workers are handed out by the  *)
(* market to the arena in need, take its enqueued tasks, take snapshots    *)
(* that lower its priority or declare it empty, and leave when more of     *)
(* them are active than are allotted.  The last thread out of an arena     *)
(* asks the market to destroy it, and the last arena closes the market.    *)
(*                                                                         *)
(* The accounting done under my_arenas_list_mutex is the record S and the  *)
(* operators on it; a section that takes the lock as a writer is one step, *)
(* arena_in_need, which takes it as a reader, is two.  S.told is the sum   *)
(* of what adjust_job_count_estimate has been given: it is added in the    *)
(* step of the lock although the code adds it after the unlock.            *)
(* A market that has been closed is not created again.                     *)
(***************************************************************************)
EXTENDS Integers, FiniteSets, FiniteSetsExt, SequencesExt

CONSTANTS
    Masters,        \* threads that create arenas
    Workers,        \* threads of the RML server
    Arenas,         \* the addresses an arena may have
    MarketWorkers,  \* my_max_num_workers of the market
    Wanted,         \* [Masters -> Nat]: my_max_num_workers of a master's arenas
    Scenarios       \* what a behaviour may use: a set of records with the fields
                    \* levels   the priorities of the tasks
                    \* executes whether masters execute functions in their arenas
                    \* calls    [Masters -> Nat]: bound on the calls of each master
                    \* workers  the workers that there are

Levels == 0..2
NormalPriority == 1     \* normalized_normal_priority

ASSUME MarketAssumption ==
    /\ Masters \intersect Workers = {}
    /\ MarketWorkers \in Nat \ {0}
    /\ Wanted \in [Masters -> Nat \ {0}]
    /\ \A s \in Scenarios :
         /\ s.levels \subseteq Levels /\ s.executes \in BOOLEAN
         /\ s.calls \in [Masters -> Nat] /\ s.workers \subseteq Workers

VARIABLES
    S,         \* the accounting: see NewMarket
    status,    \* [Arenas -> {"none", "made", "listed", "dying"}]
    refs,      \* my_references
    max,       \* my_max_num_workers
    epoch,     \* my_aba_epoch of each arena
    pool,      \* my_pool_state: "empty", "full" or the thread that is busy
    tasks,     \* the priorities at which my_task_stream has tasks
    theMarket, \* "none", "open" or "closed"
    mrefs,     \* my_ref_count of the market
    aba,       \* my_arenas_aba_epoch
    pc,        \* where each thread is
    at,        \* the arena each thread is dealing with
    prio,      \* the priority of a master's enqueue, or NoPrio
    known,     \* the aba_epoch a leaving thread remembers
    fresh,     \* threads whose copy of my_reload_epoch is still current
    ops,       \* calls made by the masters
    scenario   \* the member of Scenarios this behaviour follows

vars == <<S, status, refs, max, epoch, pool, tasks, theMarket, mrefs, aba,
          pc, at, prio, known, fresh, ops, scenario>>

Threads == Masters \union Workers
NoArena == "no arena"
NoPrio == -1

Lowest(P) == CHOOSE p \in P : \A q \in P : p <= q
Highest(P) == CHOOSE p \in P : \A q \in P : p >= q
Least(x, y) == IF x <= y THEN x ELSE y
Most(x, y) == IF x >= y THEN x ELSE y

-----------------------------------------------------------------------------
(* The accounting.  list[p], next[p], req[p] and avail[p] are the fields   *)
(* of my_priority_levels[p]; areq, allot, atop and abot the fields         *)
(* my_num_workers_requested, my_num_workers_allotted, my_top_priority and  *)
(* my_bottom_priority of the arenas; ok says that every assertion the      *)
(* code has evaluated so far held.                                         *)

NewMarket ==
    [top |-> NormalPriority, bottom |-> NormalPriority,
     list |-> [p \in Levels |-> <<>>], next |-> [p \in Levels |-> NoArena],
     req |-> [p \in Levels |-> 0],
     avail |-> [p \in Levels |-> IF p = NormalPriority THEN MarketWorkers ELSE 0],
     areq |-> [a \in Arenas |-> 0], allot |-> [a \in Arenas |-> 0],
     atop |-> [a \in Arenas |-> NormalPriority],
     abot |-> [a \in Arenas |-> NormalPriority],
     told |-> 0, ok |-> TRUE]

Expect(M, cond) == [M EXCEPT !.ok = @ /\ cond]

\* assert_market_valid
Valid(M) ==
    \/ M.req[M.top] > 0 /\ M.list[M.top] # <<>>
    \/ M.top = M.bottom /\ M.top = NormalPriority

InsertArena(M, a) ==
    LET p == M.atop[a] IN
    [M EXCEPT !.list[p] = <<a>> \o @,
              !.next[p] = IF M.list[p] = <<>> THEN a ELSE @]

\* The arena after a in the cycle of the list l.
After(l, a) == LET i == CHOOSE i \in DOMAIN l : l[i] = a
               IN  l[(i % Len(l)) + 1]

\* Mutant: the round robin goes on pointing at the arena that is removed.
RemoveArena_KeepsNext(M, a) == [M EXCEPT !.list[M.atop[a]] = Remove(@, a)]

RemoveArena(M, a) ==
    LET p == M.atop[a] IN
    [M EXCEPT !.list[p] = Remove(@, a),
              !.next[p] = IF @ # a THEN @
                          ELSE IF Len(M.list[p]) = 1 THEN NoArena
                          ELSE After(M.list[p], a)]

\* update_arena_top_priority
UpdateTop(M, a, new) ==
    LET old == M.atop[a]
        out == RemoveArena(M, a)
        in  == InsertArena([out EXCEPT !.atop[a] = new], a)
        M1  == [in EXCEPT !.req[old] = @ - M.areq[a], !.req[new] = @ + M.areq[a]]
    IN  Expect(M1, old # new /\ M1.req[old] >= 0 /\ M1.req[new] >= 0)

\* The levels of P at which workers are requested.
Wanting(M, P) == {p \in P : M.req[p] # 0}

\* What is left of the workers of level h for level p below it.
LeftFor(M, h, p) ==
    Most(0, M.avail[h] - MapThenSumSet(LAMBDA q : M.req[q], (p + 1)..h))

\* How many of n workers the first i arenas of level p get, by the carry.
ShareOf(M, p, n, i) ==
    (MapThenSumSet(LAMBDA j : Most(0, M.areq[M.list[p][j]]), 1..i)
        * Least(n, M.req[p])) \div M.req[p]

\* update_allotment of one level: the arenas with a request get their shares.
AllotOf(M, a, n) ==
    LET p == M.atop[a]
        i == CHOOSE i \in DOMAIN M.list[p] : M.list[p][i] = a
    IN  IF M.areq[a] <= 0 THEN M.allot[a]
        ELSE Least(ShareOf(M, p, n, i) - ShareOf(M, p, n, i - 1), max[a])

\* update_allotment of the levels from h down to the global bottom.
UpdateAllotment(M, h) ==
    LET below  == M.bottom..h
        inside == UNION {ToSet(M.list[p]) : p \in Wanting(M, below)}
        M1 == [M EXCEPT
                 !.avail = [p \in Levels |-> IF p \in below THEN LeftFor(M, h, p) ELSE @[p]],
                 !.allot = [a \in Arenas |->
                              IF a \in inside THEN AllotOf(M, a, LeftFor(M, h, M.atop[a]))
                              ELSE @[a]]]
    IN  Expect(M1, \A a \in inside : M.areq[a] > 0 \/ M.allot[a] = 0)

\* update_global_top_priority
SetTop(M, p) == [M EXCEPT !.top = p, !.avail[p] = MarketWorkers]

\* reset_global_priority
ResetPriority(M) == SetTop([M EXCEPT !.bottom = NormalPriority], NormalPriority)

\* adjust_demand, from line 411: the level p of the arena a has changed.
Rebalance(M, a, p) ==
    LET lower == Wanting(M, M.bottom..(p - 1))
        upper == Wanting(M, (p + 1)..M.top)
    IN  CASE p = M.top ->
               LET M1 == IF M.req[p] # 0 THEN M
                         ELSE IF lower = {} THEN ResetPriority(M)
                         ELSE SetTop(M, Highest(lower))
               IN  UpdateAllotment(M1, M1.top)
          [] p > M.top ->
               LET M1 == SetTop(M, p)
                   n  == Least(MarketWorkers, M.areq[a])
                   M2 == [M1 EXCEPT !.allot[a] = n, !.avail[p - 1] = MarketWorkers - n]
               IN  UpdateAllotment(M2, p - 1)
          [] p = M.bottom /\ p < M.top ->
               IF M.req[p] # 0 THEN UpdateAllotment(M, p)
               ELSE IF upper = {} THEN ResetPriority(M)
               ELSE [M EXCEPT !.bottom = Lowest(upper)]
          [] p < M.bottom ->
               UpdateAllotment(Expect([M EXCEPT !.bottom = p], M.areq[a] > 0), M.bottom)
          [] OTHER -> UpdateAllotment(M, p)

\* adjust_demand: delta is what the level and the server are told.
AdjustDemand(M, a, d) ==
    LET prev  == M.areq[a]
        now   == prev + d
        p     == M.atop[a]
        delta == IF now <= 0 THEN -prev ELSE IF prev < 0 THEN now ELSE d
        M1 == [M EXCEPT !.areq[a] = now, !.allot[a] = IF now <= 0 THEN 0 ELSE @]
        M2 == Expect([M1 EXCEPT !.req[p] = @ + delta, !.told = @ + delta],
                     M.req[p] + delta >= 0)
        M3 == IF now > 0 THEN M2
              ELSE [(IF p = NormalPriority THEN M2 ELSE UpdateTop(M2, a, NormalPriority))
                      EXCEPT !.abot[a] = NormalPriority]
        M4 == Rebalance(M3, a, p)
    IN  IF d = 0 THEN M
        ELSE IF now <= 0 /\ prev <= 0 THEN M1
        ELSE Expect(M4, (M4.top >= M4.atop[a] \/ now <= 0) /\ Valid(M4))

\* lower_arena_priority, once the reload epoch is known to be current.
LowerPriority(M, a, new) ==
    LET p  == M.atop[a]
        M1 == UpdateTop(Expect(M, p > new /\ M.top >= p), a, new)
        M2 == [M1 EXCEPT !.bottom = Least(@, new)]
        q  == Highest(Wanting(M2, 0..(p - 1)))
        M3 == IF p = M2.top /\ M2.req[p] = 0
              THEN UpdateAllotment(SetTop(Expect(M2, q >= M2.bottom), q), q)
              ELSE UpdateAllotment(M2, p)
        M4 == IF M.areq[a] > 0 THEN M3 ELSE M1
    IN  Expect(M4, M4.top >= new /\ Valid(M4))

\* update_arena_priority.  Where new is below the global top, p is below it
\* too, so the branch of the code for an emptied top level is never taken.
UpdatePriority(M, a, new) ==
    LET p  == M.atop[a]
        M0 == Expect(M, (M.top >= p \/ M.areq[a] <= 0) /\ Valid(M))
        M1 == UpdateTop(Expect(M0, M.top >= p), a, new)
        M2 == IF M.top < new THEN SetTop(M1, new)
              ELSE Expect(M1, new = M.top \/ new > M.bottom)
        M3 == IF p # M.bottom THEN M2
              ELSE [M2 EXCEPT !.bottom = Lowest(Wanting(M2, p..new))]
        M4 == UpdateAllotment(M3, new)
    IN  CASE p = new -> M0
          [] p > new -> [M0 EXCEPT !.abot[a] = Least(@, new)]
          [] p < new /\ M.areq[a] <= 0 -> M0
          [] OTHER -> Expect(M4, M4.top >= new /\ Valid(M4))

\* arena_in_need of a level: the first arena from next whose active workers
\* are fewer than its allotment; NoArena if there is none.
NeedAt(M, p) ==
    LET l     == M.list[p]
        first == CHOOSE i \in DOMAIN l : l[i] = M.next[p]
        turn(k) == l[((first + k - 1) % Len(l)) + 1]
        short == {k \in 0..(Len(l) - 1) : refs[turn(k)] \div 2 < M.allot[turn(k)]}
    IN  IF l = <<>> \/ short = {} THEN NoArena ELSE turn(Lowest(short))

ArenaInNeed(M) ==
    LET P == {p \in M.bottom..M.top : NeedAt(M, p) # NoArena}
    IN  IF P = {} THEN NoArena ELSE NeedAt(M, Highest(P))

-----------------------------------------------------------------------------
Init ==
    /\ S = NewMarket
    /\ status = [a \in Arenas |-> "none"]
    /\ refs = [a \in Arenas |-> 0]
    /\ max = [a \in Arenas |-> 0]
    /\ epoch = [a \in Arenas |-> 0]
    /\ pool = [a \in Arenas |-> "empty"]
    /\ tasks = [a \in Arenas |-> {}]
    /\ theMarket = "none"
    /\ mrefs = 0
    /\ aba = 0
    /\ scenario \in Scenarios
    /\ pc = [t \in Threads |-> IF t \in Masters THEN "rest"
                             ELSE IF t \in scenario.workers THEN "market" ELSE "away"]
    /\ at = [t \in Threads |-> NoArena]
    /\ prio = [t \in Threads |-> NoPrio]
    /\ known = [t \in Threads |-> 0]
    /\ fresh = {}
    /\ ops = [t \in Masters |-> 0]

arenaVars  == <<status, refs, max, epoch>>
workVars   == <<pool, tasks>>
marketVars == <<theMarket, mrefs, aba>>
localVars  == <<at, prio, known>>
boundVars  == <<ops, scenario>>

Locations ==
    {"away", "rest", "insert", "in", "raise", "raise again", "advertise", "demand", "nested",
     "market", "enter", "look", "lower", "undo", "empty", "withdraw", "recheck", "leave",
     "protect", "search", "free", "unprotect"}

Goto(t, from, to) == pc[t] = from /\ pc' = [pc EXCEPT ![t] = to]

\* Threads that hold my_arenas_list_mutex as readers, in arena_in_need.
Readers == {t \in Workers : pc[t] = "enter"}

\* A step of thread t that takes the lock as a writer and makes S into M: an
\* arena whose top priority moves gets a new my_reload_epoch.
Locked(M) ==
    /\ Readers = {}
    /\ S' = M
    /\ fresh' = {t \in fresh : M.atop[at[t]] = S.atop[at[t]]}

CountOp(t) == ops[t] < scenario.calls[t] /\ ops' = [ops EXCEPT ![t] = @ + 1] /\ UNCHANGED scenario

\* global_market and allocate_arena: a reference to the market, which is
\* created if there is none, and an arena that is not yet in its lists.
CreateArena(t) ==
    /\ Goto(t, "rest", "insert")
    /\ CountOp(t)
    /\ theMarket # "closed"
    /\ theMarket' = "open"
    /\ mrefs' = mrefs + 1
    /\ \E a \in Arenas : status[a] = "none"
    /\ LET a == CHOOSE a \in Arenas : status[a] = "none" IN
         /\ status' = [status EXCEPT ![a] = "made"]
         /\ refs' = [refs EXCEPT ![a] = 1]
         /\ max' = [max EXCEPT ![a] = Wanted[t]]
         /\ epoch' = [epoch EXCEPT ![a] = aba]
         /\ at' = [at EXCEPT ![t] = a]
    /\ UNCHANGED <<S, workVars, aba, prio, known, fresh>>

InsertNewArena(t) ==
    /\ Goto(t, "insert", "in")
    /\ Locked(InsertArena(S, at[t]))
    /\ status' = [status EXCEPT ![at[t]] = "listed"]
    /\ UNCHANGED <<refs, max, epoch, workVars, marketVars, localVars, boundVars>>

-----------------------------------------------------------------------------
(* enqueue_task, and advertise_new_work<false>, which the snapshot calls   *)
(* too.  Its test and compare_and_swap of my_pool_state act as one         *)
(* exchange: whoever finds it empty asks for workers.                      *)

Enqueue(t) ==
    /\ Goto(t, "in", "raise")
    /\ CountOp(t)
    /\ \E p \in scenario.levels :
         /\ tasks' = [tasks EXCEPT ![at[t]] = @ \union {p}]
         /\ prio' = [prio EXCEPT ![t] = p]
    /\ UNCHANGED <<S, arenaVars, pool, marketVars, at, known, fresh>>

\* The call of update_arena_priority, before and after the work is advertised.
Raise(t) ==
    /\ Goto(t, "raise", "advertise")
    /\ Locked(UpdatePriority(S, at[t], prio[t]))
    /\ UNCHANGED <<arenaVars, workVars, marketVars, localVars, boundVars>>

RaiseAgain(t) ==
    /\ Goto(t, "raise again", "in")
    /\ Locked(UpdatePriority(S, at[t], prio[t]))
    /\ prio' = [prio EXCEPT ![t] = NoPrio]
    /\ UNCHANGED <<arenaVars, workVars, marketVars, at, known, boundVars>>

Advertised(t) == IF prio[t] = NoPrio THEN "in" ELSE "raise again"

Advertise(t) ==
    /\ Goto(t, "advertise", IF pool[at[t]] = "empty" THEN "demand" ELSE Advertised(t))
    /\ pool' = [pool EXCEPT ![at[t]] = "full"]
    /\ UNCHANGED <<S, arenaVars, tasks, marketVars, localVars, fresh, boundVars>>

DemandWorkers(t) ==
    /\ Goto(t, "demand", Advertised(t))
    /\ Locked(AdjustDemand(S, at[t], max[at[t]]))
    /\ UNCHANGED <<arenaVars, workVars, marketVars, localVars, boundVars>>

\* nested_arena_entry and nested_arena_exit of a task_arena that has no slot
\* for masters: the thread takes the place of one of its workers.
ExecuteEntry(t) ==
    /\ Goto(t, "in", "nested")
    /\ CountOp(t)
    /\ scenario.executes
    /\ Locked(AdjustDemand(S, at[t], -1))
    /\ UNCHANGED <<arenaVars, workVars, marketVars, localVars>>

ExecuteExit(t) ==
    /\ Goto(t, "nested", "in")
    /\ Locked(AdjustDemand(S, at[t], 1))
    /\ UNCHANGED <<arenaVars, workVars, marketVars, localVars, boundVars>>

-----------------------------------------------------------------------------
(* A worker: market::process, arena::process and the snapshot.             *)

\* arena_in_need as a reader of the lists; the reference is added below.
FindArena(t) ==
    /\ Goto(t, "market", "enter")
    /\ ArenaInNeed(S) # NoArena
    /\ at' = [at EXCEPT ![t] = ArenaInNeed(S)]
    /\ UNCHANGED <<S, arenaVars, workVars, marketVars, prio, known, fresh, boundVars>>

\* Where a worker occupies a slot of its arena.
Working == {"in", "look", "lower", "undo", "empty", "withdraw", "recheck",
            "advertise", "demand"}

\* A worker that finds no vacant slot leaves at once.
SlotVacant(a) ==
    Cardinality({t \in Workers : at[t] = a /\ pc[t] \in Working}) < Most(1, max[a])

EnterArena(t) ==
    LET a == at[t]
        p == S.atop[a]
    IN  /\ Goto(t, "enter", IF SlotVacant(a) THEN "in" ELSE "leave")
        /\ refs' = [refs EXCEPT ![a] = @ + 2]
        /\ S' = [S EXCEPT !.next[p] = After(S.list[p], a)]
        /\ UNCHANGED <<status, max, epoch, workVars, marketVars, localVars, fresh, boundVars>>

\* The enqueued tasks of the arena's top priority: one step takes them all.
RunTasks(t) ==
    LET a == at[t] IN
    /\ t \in Workers
    /\ Goto(t, "in", "in")
    /\ S.atop[a] \in tasks[a]
    /\ tasks' = [tasks EXCEPT ![a] = @ \ {S.atop[a]}]
    /\ UNCHANGED <<S, arenaVars, pool, marketVars, localVars, fresh, boundVars>>

\* is_out_of_work, called after the last attempt to find a task has failed.
StartSnapshot(t) ==
    LET a == at[t] IN
    /\ t \in Workers
    /\ Goto(t, "in", "look")
    /\ S.atop[a] \notin tasks[a]
    /\ pool[a] = "full"
    /\ pool' = [pool EXCEPT ![a] = t]
    /\ fresh' = fresh \union {t}
    /\ UNCHANGED <<S, arenaVars, tasks, marketVars, localVars, boundVars>>

\* The snapshot counts if nobody advertised, the priority is the same and
\* the stream of that priority is empty.
WorkAbsent(t) ==
    /\ pool[at[t]] = t
    /\ t \in fresh
    /\ S.atop[at[t]] \notin tasks[at[t]]

Look(t) ==
    /\ Goto(t, "look", IF ~ WorkAbsent(t) THEN "undo"
                       ELSE IF S.atop[at[t]] > S.abot[at[t]] THEN "lower" ELSE "empty")
    /\ UNCHANGED <<S, arenaVars, workVars, marketVars, localVars, fresh, boundVars>>

LowerArena(t) ==
    LET a == at[t] IN
    /\ Goto(t, "lower", "undo")
    /\ Locked(IF t \in fresh THEN LowerPriority(S, a, S.atop[a] - 1) ELSE S)
    /\ UNCHANGED <<arenaVars, workVars, marketVars, localVars, boundVars>>

UndoSnapshot(t) ==
    LET a == at[t] IN
    /\ Goto(t, "undo", "in")
    /\ pool' = [pool EXCEPT ![a] = IF @ = t THEN "full" ELSE @]
    /\ fresh' = fresh \ {t}
    /\ UNCHANGED <<S, arenaVars, tasks, marketVars, localVars, boundVars>>

SetEmpty(t) ==
    LET a == at[t] IN
    /\ Goto(t, "empty", IF pool[a] = t THEN "withdraw" ELSE "in")
    /\ pool' = [pool EXCEPT ![a] = IF @ = t THEN "empty" ELSE @]
    /\ fresh' = fresh \ {t}
    /\ UNCHANGED <<S, arenaVars, tasks, marketVars, localVars, boundVars>>

\* Mutant: all that is requested is withdrawn, not what the snapshot has seen.
WithdrawDemand_All(t) ==
    /\ Goto(t, "withdraw", "recheck")
    /\ Locked(AdjustDemand(S, at[t], - S.areq[at[t]]))
    /\ UNCHANGED <<arenaVars, workVars, marketVars, localVars, boundVars>>

WithdrawDemand(t) ==
    /\ Goto(t, "withdraw", "recheck")
    /\ Locked(AdjustDemand(S, at[t], - max[at[t]]))
    /\ UNCHANGED <<arenaVars, workVars, marketVars, localVars, boundVars>>

\* Enqueued tasks at priorities the snapshot has not looked at: the levels
\* from 0 up, in one step.
Recheck(t) ==
    LET a == at[t]
        Switch(p, M) == IF p \in tasks[a] /\ (p < M.abot[a] \/ p > M.atop[a])
                        THEN UpdatePriority(M, a, p) ELSE M
    IN  /\ Goto(t, "recheck", IF tasks[a] = {} THEN "in" ELSE "advertise")
        /\ Locked(Switch(2, Switch(1, Switch(0, S))))
        /\ UNCHANGED <<arenaVars, workVars, marketVars, localVars, boundVars>>

\* A worker leaves its arena only when it has more workers than its allotment.
Revoked(t) ==
    /\ t \in Workers
    /\ Goto(t, "in", "leave")
    /\ refs[at[t]] \div 2 > S.allot[at[t]]
    /\ UNCHANGED <<S, arenaVars, workVars, marketVars, localVars, fresh, boundVars>>

-----------------------------------------------------------------------------
(* on_thread_leaving, try_destroy_arena and the closing of the market.     *)

\* Mutant: only masters ask for the destruction of the arena they leave last.
WorkerLeaves_NeverLast(t) ==
    /\ Goto(t, "leave", "market")
    /\ refs' = [refs EXCEPT ![at[t]] = @ - 2]
    /\ at' = [at EXCEPT ![t] = NoArena]
    /\ UNCHANGED <<S, status, max, epoch, workVars, marketVars, prio, known, fresh, boundVars>>

\* The last one out remembers the epoch and no longer holds the arena.
WorkerLeaves(t) ==
    LET a == at[t]
        last == refs[a] = 2
    IN  /\ Goto(t, "leave", IF last THEN "search" ELSE "market")
        /\ refs' = [refs EXCEPT ![a] = @ - 2]
        /\ known' = [known EXCEPT ![t] = IF last THEN epoch[a] ELSE 0]
        /\ at' = [at EXCEPT ![t] = IF last THEN a ELSE NoArena]
        /\ UNCHANGED <<S, status, max, epoch, workVars, marketVars, prio, fresh, boundVars>>

MasterLeaves(t) ==
    LET a == at[t]
        last == refs[a] = 1
    IN  /\ Goto(t, "in", IF last THEN "protect" ELSE "rest")
        /\ refs' = [refs EXCEPT ![a] = @ - 1]
        /\ known' = [known EXCEPT ![t] = IF last THEN epoch[a] ELSE 0]
        /\ at' = [at EXCEPT ![t] = IF last THEN a ELSE NoArena]
        /\ UNCHANGED <<S, status, max, epoch, workVars, marketVars, prio, fresh, boundVars>>

\* What thread t forgets when it is done with an arena.
Forget(t) ==
    /\ at' = [at EXCEPT ![t] = NoArena]
    /\ known' = [known EXCEPT ![t] = 0]

\* A master protects the market with a reference of its own.
ProtectMarket(t) ==
    /\ pc[t] = "protect"
    /\ IF theMarket = "open"
       THEN /\ pc' = [pc EXCEPT ![t] = "search"]
            /\ mrefs' = mrefs + 1
            /\ UNCHANGED <<at, known>>
       ELSE /\ pc' = [pc EXCEPT ![t] = "rest"]
            /\ UNCHANGED mrefs
            /\ Forget(t)
    /\ UNCHANGED <<S, arenaVars, workVars, theMarket, aba, prio, fresh, boundVars>>

\* The levels that try_destroy_arena looks at.
SearchedLevels == S.bottom..S.top

\* Mutant: an arena that still requests workers counts as abandoned.
Abandoned_Requested(t) ==
    LET a == at[t] IN
    /\ \E p \in SearchedLevels : a \in ToSet(S.list[p])
    /\ epoch[a] = known[t]
    /\ refs[a] = 0

Abandoned(t) ==
    LET a == at[t] IN
    /\ \E p \in SearchedLevels : a \in ToSet(S.list[p])
    /\ epoch[a] = known[t]
    /\ S.areq[a] = 0
    /\ refs[a] = 0

AfterSearch(t) == IF t \in Masters THEN "unprotect" ELSE "market"

SearchArena(t) ==
    LET a == at[t]
        sound == Valid(S) /\ (~ Abandoned(t) \/ (S.allot[a] = 0 /\ pool[a] = "empty"))
    IN  /\ Goto(t, "search", IF Abandoned(t) THEN "free" ELSE AfterSearch(t))
        /\ IF Abandoned(t)
           THEN /\ Locked(Expect(RemoveArena(S, a), sound))
                /\ status' = [status EXCEPT ![a] = "dying"]
                /\ aba' = IF epoch[a] = aba THEN aba + 1 ELSE aba
                /\ UNCHANGED <<at, known>>
           ELSE /\ Locked(Expect(S, sound))
                /\ Forget(t)
                /\ UNCHANGED <<status, aba>>
        /\ UNCHANGED <<refs, max, epoch, workVars, theMarket, mrefs, prio, boundVars>>

\* market::release
ReleaseMarket ==
    /\ mrefs' = mrefs - 1
    /\ theMarket' = IF mrefs = 1 THEN "closed" ELSE theMarket

\* free_arena: its assertions, the reference to the market and the memory.
FreeArena(t) ==
    LET a == at[t] IN
    /\ Goto(t, "free", AfterSearch(t))
    /\ S' = [Expect(S, refs[a] = 0 /\ S.areq[a] = 0 /\ S.allot[a] = 0
                       /\ pool[a] = "empty" /\ tasks[a] = {} /\ theMarket = "open")
               EXCEPT !.atop[a] = NormalPriority, !.abot[a] = NormalPriority]
    /\ status' = [status EXCEPT ![a] = "none"]
    /\ max' = [max EXCEPT ![a] = 0]
    /\ epoch' = [epoch EXCEPT ![a] = 0]
    /\ ReleaseMarket
    /\ Forget(t)
    /\ UNCHANGED <<refs, workVars, aba, prio, fresh, boundVars>>

UnprotectMarket(t) ==
    /\ Goto(t, "unprotect", "rest")
    /\ ReleaseMarket
    /\ Forget(t)
    /\ UNCHANGED <<S, arenaVars, workVars, aba, prio, fresh, boundVars>>

-----------------------------------------------------------------------------
\* A call of a master that it is free to make or not.
Call(t) ==
    \/ CreateArena(t) \/ Enqueue(t) \/ ExecuteEntry(t) \/ MasterLeaves(t)

\* The steps of a worker, and those of a master within a call.
Step(t) ==
    \/ InsertNewArena(t)
    \/ Raise(t) \/ RaiseAgain(t) \/ Advertise(t) \/ DemandWorkers(t) \/ ExecuteExit(t)
    \/ RunTasks(t) \/ StartSnapshot(t) \/ Look(t) \/ LowerArena(t) \/ UndoSnapshot(t)
    \/ SetEmpty(t) \/ WithdrawDemand(t) \/ Recheck(t) \/ Revoked(t)
    \/ FindArena(t) \/ EnterArena(t) \/ WorkerLeaves(t)
    \/ ProtectMarket(t) \/ SearchArena(t) \/ FreeArena(t) \/ UnprotectMarket(t)

Next == (\E t \in Masters : Call(t)) \/ (\E t \in Threads : Step(t))

Spec == Init /\ [][Next]_vars

\* When Step(t) is enabled, said without the accounting: a step that locks
\* the lists waits for the readers, the others do not wait.
Locks(t) == pc[t] \in {"insert", "raise", "raise again", "demand", "nested", "lower",
                      "withdraw", "recheck", "search"}

CanStep(t) ==
    \/ pc[t] \in {"advertise", "look", "undo", "empty", "enter", "leave",
                  "protect", "free", "unprotect"}
    \/ /\ pc[t] = "market"
       /\ \E a \in Arenas : S.atop[a] \in S.bottom..S.top /\ refs[a] \div 2 < S.allot[a]
    \/ /\ pc[t] = "in" /\ t \in Workers
       /\ \/ S.atop[at[t]] \in tasks[at[t]]
          \/ pool[at[t]] = "full"
          \/ refs[at[t]] \div 2 > S.allot[at[t]]

\* Thread t moves on: every step but RunTasks, which leaves fewer tasks.
MovesOn(t) == \E l \in Locations : pc' = [pc EXCEPT ![t] = l]

FairSpec ==
    /\ Spec
    /\ \A t \in Threads : /\ WF_pc(CanStep(t) /\ MovesOn(t))
                          /\ SF_pc(Locks(t) /\ Readers = {} /\ MovesOn(t))

-----------------------------------------------------------------------------
TypeOK ==
    /\ S.top \in Levels /\ S.bottom \in Levels
    /\ \A p \in Levels : S.list[p] \in Seq(Arenas) /\ S.next[p] \in Arenas \union {NoArena}
    /\ status \in [Arenas -> {"none", "made", "listed", "dying"}]
    /\ refs \in [Arenas -> Nat]
    /\ tasks \in [Arenas -> SUBSET Levels]
    /\ pc \in [Threads -> Locations]
    /\ at \in [Threads -> Arenas \union {NoArena}]
    /\ theMarket \in {"none", "open", "closed"}

SumOver(f(_), D) == MapThenSumSet(f, D)

\* What a level requests is the sum of the positive requests of its arenas,
\* and the server has been told the sum of all levels.
Accounts ==
    /\ \A p \in Levels :
         S.req[p] = SumOver(LAMBDA a : Most(0, S.areq[a]), ToSet(S.list[p]))
    /\ S.told = SumOver(LAMBDA p : S.req[p], Levels)

\* An arena is in the list of its priority exactly while it is listed, once,
\* and the round robin of a level never points at an arena outside its list.
Lists ==
    /\ \A a \in Arenas, p \in Levels :
         a \in ToSet(S.list[p]) <=> status[a] = "listed" /\ S.atop[a] = p
    /\ \A p \in Levels : Len(S.list[p]) = Cardinality(ToSet(S.list[p]))
    /\ \A p \in Levels : IF S.list[p] = <<>> THEN S.next[p] = NoArena
                         ELSE S.next[p] \in ToSet(S.list[p])

\* The arenas are not allotted more workers than the market has, an arena
\* without a request none, and a level only what the levels above leave it.
Allotment ==
    /\ SumOver(LAMBDA a : S.allot[a], Arenas) <= MarketWorkers
    /\ \A a \in Arenas : S.allot[a] >= 0
    /\ \A a \in Arenas : S.areq[a] <= 0 => S.allot[a] = 0
    /\ \A a, b \in Arenas :
         S.allot[a] > 0 /\ S.atop[b] > S.atop[a]
           => S.allot[b] >= Least(S.areq[b], max[b])

Inside(t) == pc[t] \notin {"away", "rest", "market", "enter", "protect", "search", "free", "unprotect"}

\* Every thread inside an arena holds a reference to it, nobody else does,
\* and an arena with references is not destroyed.
References ==
    \A a \in Arenas :
      LET In(T) == {t \in T : at[t] = a /\ Inside(t)} IN
      /\ refs[a] = Cardinality(In(Masters)) + 2 * Cardinality(In(Workers))
      /\ refs[a] > 0 => status[a] \in {"made", "listed"}

\* The market is referenced by each arena and by each master that protects it.
MarketReferences ==
    /\ mrefs = Cardinality({a \in Arenas : status[a] # "none"})
               + Cardinality({t \in Masters : \/ pc[t] \in {"search", "unprotect"}
                                              \/ pc[t] = "free"})
    /\ (theMarket = "open") <=> (mrefs > 0)

\* Whether tasks of several priorities are used.
OneLevel == scenario.levels = {NormalPriority}

\* An arena that nobody holds and that asks for no workers is about to be
\* searched for and destroyed.  With tasks of one priority only: an arena
\* without requests is at the normal level, and try_destroy_arena does not look
\* there while the arenas that have requests are all above or below it.
NoOrphan ==
    OneLevel =>
      \A a \in Arenas :
        status[a] = "listed" /\ refs[a] = 0 /\ S.areq[a] = 0
          => \E t \in Threads : pc[t] \in {"protect", "search"} /\ at[t] = a

\* The inductive invariant: the conjunction of the parts above.
IInv ==
    /\ TypeOK /\ Accounts /\ Lists /\ Allotment
    /\ References /\ MarketReferences /\ NoOrphan

\* Every assertion that adjust_demand, update_arena_priority, lower_arena_priority,
\* try_destroy_arena and free_arena evaluate holds: the market is valid
\* (market.h:197), levels request no negative number of workers, an arena that
\* is freed has no threads, no workers, no requests and no enqueued tasks.
SourceAssertions == S.ok

\* From some time on no two workers look for an arena at the same moment.  Two
\* workers that always do can enter one arena together and both be revoked.
NoCollision == <>[](Cardinality(Readers) <= 1)

\* Tasks that are enqueued are executed: arena.h:76 promises it for them.  It
\* fails when priorities differ: see README.
EnqueuedRun == NoCollision => []<>(\A a \in Arenas : tasks[a] = {})

\* With tasks of one priority enqueued tasks are executed.
EnqueuedRunOneLevel == OneLevel => EnqueuedRun

\* When every master has left, the last arena is destroyed and the market closed
\* (arena.h:289 to 337 is about the ways in which this could fail).
MarketCloses ==
    OneLevel /\ NoCollision
      => []<>(theMarket = "open" => \E t \in Masters : pc[t] # "rest")
=============================================================================
