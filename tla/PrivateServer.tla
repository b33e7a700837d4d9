---------------------------- MODULE PrivateServer ----------------------------
(***************************************************************************)
(* tbb::internal::rml::private_server: the pool of worker threads behind   *)
(* the market.  A worker that finds my_slack negative puts itself on the   *)
(* list of those asleep and gives its unit of slack back; whoever raises   *)
(* the demand takes workers from the list and launches or wakes them, and  *)
(* each of them wakes the next ones.  When the connection is closed every  *)
(* worker is told to quit and the last one to leave deletes the server.    *)
(*                                                                         *)
(* One action is one access to a shared location, or to a few that only    *)
(* the holder of the list's mutex touches.  The client, the market, is     *)
(* what calls adjust_job_count_estimate and returns from process: it       *)
(* commits to a change of demand under its own lock and delivers it later. *)
(***************************************************************************)
EXTENDS Integers, FiniteSets, Sequences

CONSTANTS
    NThread,    \* my_n_thread
    Masters,    \* the application's threads that use the market
    Fanout,     \* how many workers one call of wake_some wakes (2)
    MaxDemand,  \* bound: how many workers the market asks for
    MaxChanges, \* bound: how often the demand changes
    Nobody      \* NULL

Workers == 1..NThread
Threads == Workers \cup Masters

ASSUME ServerAssumption ==
    /\ {NThread, Fanout, MaxDemand} \subseteq Nat \ {0} /\ MaxChanges \in Nat
    /\ IsFiniteSet(Masters) /\ Masters \cap Nat = {} /\ Nobody \notin Threads

VARIABLES
    my_state,   \* of each worker: "init", "starting", "normal", "quit"
    my_slack, my_ref_count,
    root,       \* my_asleep_list_root
    my_next,
    stack,      \* ghost: the workers on the list in the order of its links
    mutex,      \* my_asleep_list_mutex: who holds it
    late,       \* ghost: a worker has put itself on the list although a wakeup meant for
                \* an earlier wait of it was still to come, or had ended this one
    fresh, in_wait, spurious, sema,  \* the workers' thread_monitors: cookie = epoch; flags
    handle,     \* of each worker: "none", "set", "released"
    joins,      \* governor::needsWaitWorkers()
    pc, ret,    \* where a thread is; where wake_some returns
    add, wakee, \* additional_slack and the workers a call of wake_some has taken
    shut,       \* the worker request_close_connection has come to
    changes,    \* how often the demand has changed, for the bound
    demand,     \* what the market's arenas ask for
    alive       \* the server has not been deleted

monitor == <<fresh, in_wait, spurious, sema>>
list == <<root, my_next, stack, mutex, late>>
local == <<ret, add, wakee>>
market == <<demand, changes>>
life == <<my_state, my_ref_count, handle, shut, alive>>
vars == <<life, my_slack, list, monitor, joins, pc, local, market>>

WorkerLocs == {"none", "chain", "loop", "process", "prepare", "in_wait", "check",
               "insert", "undo", "commit", "asleep", "cancel", "exit", "deref", "gone"}
ServerLocs == {"adjust", "ws_lock", "ws_loop", "ws_wake", "ws_signal",
               "ws_norm", "close", "c_signal", "c_release", "c_ref"}

TypeOK ==
    /\ my_state \in [Workers -> {"init", "starting", "normal", "quit"}]
    /\ my_slack \in Int
    /\ my_ref_count \in 0..(NThread + 1)
    /\ root \in Workers \cup {Nobody}
    /\ my_next \in [Workers -> Workers \cup {Nobody}]
    /\ mutex \in Threads \cup {Nobody}
    /\ late \in BOOLEAN
    /\ fresh \cup in_wait \cup spurious \cup sema \subseteq Workers
    /\ handle \in [Workers -> {"none", "set", "released"}]
    /\ joins \in BOOLEAN
    /\ pc \in [Threads -> WorkerLocs \cup ServerLocs \cup {"rest"}]
    /\ ret \in [Threads -> {"loop", "process", "rest"}]
    /\ add \in [Threads -> (-MaxDemand)..MaxDemand]
    /\ wakee \in [Threads -> Seq(Workers)]
    /\ shut \in 0..(NThread + 1)
    /\ demand \in 0..MaxDemand /\ changes \in 0..MaxChanges
    /\ alive \in BOOLEAN

\* Init that counts the workers only.
Init_NoRefOfClient ==
    /\ my_state = [w \in Workers |-> "init"]
    /\ my_slack = 0
    /\ my_ref_count = NThread
    /\ root = NThread
    /\ my_next = [w \in Workers |-> IF w = 1 THEN Nobody ELSE w - 1]
    /\ stack = [i \in Workers |-> NThread + 1 - i]
    /\ mutex = Nobody /\ late = FALSE
    /\ fresh = {} /\ in_wait = {} /\ spurious = {} /\ sema = {}
    /\ handle = [w \in Workers |-> "none"]
    /\ joins = FALSE
    /\ pc = [t \in Threads |-> IF t \in Workers THEN "none" ELSE "rest"]
    /\ ret = [t \in Threads |-> "loop"]
    /\ add = [t \in Threads |-> 0]
    /\ wakee = [t \in Threads |-> <<>>]
    /\ shut = 0
    /\ demand = 0 /\ changes = 0
    /\ alive = TRUE

\* The constructor: every worker is on the list and none has a thread.
Init ==
    /\ my_state = [w \in Workers |-> "init"]
    /\ my_slack = 0
    /\ my_ref_count = NThread + 1
    /\ root = NThread
    /\ my_next = [w \in Workers |-> IF w = 1 THEN Nobody ELSE w - 1]
    /\ stack = [i \in Workers |-> NThread + 1 - i]
    /\ mutex = Nobody /\ late = FALSE
    /\ fresh = {} /\ in_wait = {} /\ spurious = {} /\ sema = {}
    /\ handle = [w \in Workers |-> "none"]
    /\ joins = FALSE
    /\ pc = [t \in Threads |-> IF t \in Workers THEN "none" ELSE "rest"]
    /\ ret = [t \in Threads |-> "loop"]
    /\ add = [t \in Threads |-> 0]
    /\ wakee = [t \in Threads |-> <<>>]
    /\ shut = 0
    /\ demand = 0 /\ changes = 0
    /\ alive = TRUE

Goto(t, loc) == pc' = [pc EXCEPT ![t] = loc]

\* The worker t has taken last, which it is about to wake.
LastTaken(t) == wakee[t][Len(wakee[t])]

\* A notification of w is under way.
Told(w) == \E t \in Threads : pc[t] = "ws_signal" /\ LastTaken(t) = w

\* thread_monitor::notify: the epoch first, then the flag and the semaphore.
NotifyEpoch(w) == fresh' = fresh \ {w} /\ UNCHANGED <<in_wait, spurious, sema>>

NotifySignal(w) ==
    /\ in_wait' = in_wait \ {w}
    /\ sema' = IF w \in in_wait THEN sema \cup {w} ELSE sema
    /\ UNCHANGED <<fresh, spurious>>

\* remove_server_ref
RemoveRef ==
    /\ my_ref_count' = my_ref_count - 1
    /\ alive' = (alive /\ my_ref_count # 1)

-----------------------------------------------------------------------------
(* wake_some *)

WakeSome(t, slack, loc) ==
    /\ Goto(t, "ws_lock")
    /\ add' = [add EXCEPT ![t] = slack]
    /\ ret' = [ret EXCEPT ![t] = loc]
    /\ UNCHANGED wakee

WsLock(t) ==
    /\ pc[t] = "ws_lock" /\ mutex = Nobody
    /\ mutex' = t
    /\ Goto(t, "ws_loop")
    /\ UNCHANGED <<life, my_slack, root, my_next, stack, late, monitor, joins, local, market>>

MayTakeMore(t) == root # Nobody /\ Len(wakee[t]) < Fanout

PopAsleep(t) ==
    /\ wakee' = [wakee EXCEPT ![t] = Append(@, root)]
    /\ root' = my_next[root]
    /\ stack' = SubSeq(stack, 2, Len(stack))

\* A worker for a unit of the additional demand, or for one of my_slack.
UseDemand(t) ==
    /\ add[t] > 0 /\ add[t] + my_slack > 0
    /\ add' = [add EXCEPT ![t] = @ - 1]
    /\ UNCHANGED my_slack

UseSlack(t) ==
    /\ add[t] = 0 /\ my_slack > 0
    /\ my_slack' = my_slack - 1
    /\ UNCHANGED add

WsTake(t) ==
    /\ pc[t] = "ws_loop" /\ MayTakeMore(t)
    /\ UseDemand(t) \/ UseSlack(t)
    /\ PopAsleep(t)
    /\ UNCHANGED <<life, my_next, mutex, late, monitor, joins, pc, ret, market>>

\* What is left of the additional demand becomes slack; the mutex is released.
WsEnough(t) ==
    /\ pc[t] = "ws_loop"
    /\ ~ MayTakeMore(t) \/ add[t] + my_slack <= 0
    /\ my_slack' = my_slack + add[t]
    /\ add' = [add EXCEPT ![t] = 0]
    /\ mutex' = Nobody
    /\ Goto(t, "ws_wake")
    /\ UNCHANGED <<life, root, my_next, stack, late, monitor, joins, ret, wakee, market>>

DoneWith(t) ==
    /\ wakee' = [wakee EXCEPT ![t] = SubSeq(@, 1, Len(@) - 1)]
    /\ UNCHANGED <<ret, add>>

WsReturn(t) ==
    /\ pc[t] = "ws_wake" /\ wakee[t] = <<>>
    /\ Goto(t, ret[t])
    /\ ret' = [ret EXCEPT ![t] = "loop"]
    /\ UNCHANGED <<life, my_slack, list, monitor, joins, add, wakee, market>>

\* wake_or_launch of the worker that was taken last; a new thread may run before
\* its handle is stored.
Launch(t, w) ==
    /\ my_state[w] = "init"
    /\ my_state' = [my_state EXCEPT ![w] = "starting"]
    /\ pc' = [pc EXCEPT ![t] = "ws_norm", ![w] = "chain"]
    /\ UNCHANGED monitor

Notify(t, w) ==
    /\ my_state[w] # "init"
    /\ NotifyEpoch(w)
    /\ Goto(t, "ws_signal")
    /\ UNCHANGED my_state

WsWake(t) ==
    /\ pc[t] = "ws_wake" /\ wakee[t] # <<>>
    /\ Launch(t, LastTaken(t)) \/ Notify(t, LastTaken(t))
    /\ UNCHANGED <<my_slack, my_ref_count, handle, shut, alive, list, joins, local, market>>

WsSignal(t) ==
    /\ pc[t] = "ws_signal"
    /\ NotifySignal(LastTaken(t))
    /\ DoneWith(t)
    /\ Goto(t, "ws_wake")
    /\ UNCHANGED <<life, my_slack, list, joins, market>>

\* The handle is stored; a worker told to quit meanwhile is released here.
StoreHandle(w) ==
    /\ my_state[w] = "starting"
    /\ my_state' = [my_state EXCEPT ![w] = "normal"]
    /\ handle' = [handle EXCEPT ![w] = "set"]

ReleaseHandle(w) ==
    /\ joins => pc[w] = "gone"
    /\ handle' = [handle EXCEPT ![w] = "released"]

WsNorm(t) ==
    /\ pc[t] = "ws_norm"
    /\ \/ StoreHandle(LastTaken(t))
       \/ /\ my_state[LastTaken(t)] # "starting"
          /\ ReleaseHandle(LastTaken(t)) /\ UNCHANGED my_state
    /\ DoneWith(t)
    /\ Goto(t, "ws_wake")
    /\ UNCHANGED <<my_slack, my_ref_count, shut, alive, list, monitor, joins, market>>

-----------------------------------------------------------------------------
(* private_worker::run *)

\* propagate_chain_reaction
Chain(w) ==
    /\ pc[w] = "chain"
    /\ \/ root = Nobody /\ Goto(w, "loop") /\ UNCHANGED local
       \/ root # Nobody /\ WakeSome(w, 0, "loop")
    /\ UNCHANGED <<life, my_slack, list, monitor, joins, market>>

\* The loop's test and the test of my_slack.
Loop(w) ==
    /\ pc[w] = "loop"
    /\ \/ my_state[w] = "quit" /\ Goto(w, "exit")
       \/ my_state[w] # "quit" /\ Goto(w, IF my_slack >= 0 THEN "process" ELSE "prepare")
    /\ UNCHANGED <<life, my_slack, list, monitor, joins, local, market>>

\* The client has no more work for this worker.
ProcessReturns(w) ==
    /\ pc[w] = "process"
    /\ Goto(w, "loop")
    /\ UNCHANGED <<life, my_slack, list, monitor, joins, local, market>>

\* prepare_wait: a late signal is taken in and the epoch is read ...
Prepare(w) ==
    /\ pc[w] = "prepare"
    /\ w \in spurious => w \in sema
    /\ spurious' = spurious \ {w}
    /\ sema' = IF w \in spurious THEN sema \ {w} ELSE sema
    /\ fresh' = fresh \cup {w}
    /\ Goto(w, "in_wait")
    /\ UNCHANGED <<life, my_slack, list, in_wait, joins, local, market>>

\* ... and the flag is set.
InWait(w) ==
    /\ pc[w] = "in_wait"
    /\ in_wait' = in_wait \cup {w}
    /\ Goto(w, "check")
    /\ UNCHANGED <<life, my_slack, list, fresh, spurious, sema, joins, local, market>>

Check(w) ==
    /\ pc[w] = "check"
    /\ Goto(w, IF my_state[w] = "quit" THEN "cancel" ELSE "insert")
    /\ UNCHANGED <<life, my_slack, list, monitor, joins, local, market>>

\* try_insert_in_asleep_list: the mutex is held by another, or the worker puts itself
\* on the list, or there is no need for it to sleep after all.
InsertFails(w) ==
    /\ mutex # Nobody
    /\ Goto(w, "cancel")
    /\ UNCHANGED <<my_slack, list>>

PushAsleep(w) ==
    /\ mutex = Nobody /\ my_slack < 0
    /\ my_slack' = my_slack + 1
    /\ my_next' = [my_next EXCEPT ![w] = root]
    /\ root' = w
    /\ stack' = <<w>> \o stack
    /\ late' = (late \/ Told(w) \/ (w \notin in_wait /\ my_state[w] # "quit"))
    /\ Goto(w, "commit")
    /\ UNCHANGED mutex

InsertTooLate(w) ==
    /\ mutex = Nobody /\ my_slack >= 0
    /\ my_slack' = my_slack + 1
    /\ mutex' = w
    /\ Goto(w, "undo")
    /\ UNCHANGED <<root, my_next, stack, late>>

Insert(w) ==
    /\ pc[w] = "insert"
    /\ InsertFails(w) \/ PushAsleep(w) \/ InsertTooLate(w)
    /\ UNCHANGED <<life, monitor, joins, local, market>>

\* Undo that keeps the unit of slack it has given.
Undo_Keeps(w) ==
    /\ pc[w] = "undo"
    /\ mutex' = Nobody
    /\ Goto(w, "cancel")
    /\ UNCHANGED <<life, my_slack, root, my_next, stack, late, monitor, joins, local, market>>

Undo(w) ==
    /\ pc[w] = "undo"
    /\ my_slack' = my_slack - 1
    /\ mutex' = Nobody
    /\ Goto(w, "cancel")
    /\ UNCHANGED <<life, root, my_next, stack, late, monitor, joins, local, market>>

CancelWait(w) ==
    /\ spurious' = IF w \in in_wait THEN spurious \ {w} ELSE spurious \cup {w}
    /\ in_wait' = in_wait \ {w}
    /\ fresh' = fresh \ {w}
    /\ UNCHANGED sema

Sleep(w) ==
    /\ w \in fresh
    /\ fresh' = fresh \ {w}
    /\ Goto(w, "asleep")
    /\ UNCHANGED <<in_wait, spurious, sema>>

Commit(w) ==
    /\ pc[w] = "commit"
    /\ \/ Sleep(w)
       \/ w \notin fresh /\ CancelWait(w) /\ Goto(w, "chain")
    /\ UNCHANGED <<life, my_slack, list, joins, local, market>>

\* Wake of a worker that wakes no others.
Wake_EndsChain(w) ==
    /\ pc[w] = "asleep" /\ w \in sema
    /\ sema' = sema \ {w}
    /\ Goto(w, "loop")
    /\ UNCHANGED <<life, my_slack, list, fresh, in_wait, spurious, joins, local, market>>

Wake(w) ==
    /\ pc[w] = "asleep" /\ w \in sema
    /\ sema' = sema \ {w}
    /\ Goto(w, "chain")
    /\ UNCHANGED <<life, my_slack, list, fresh, in_wait, spurious, joins, local, market>>

Cancel(w) ==
    /\ pc[w] = "cancel"
    /\ CancelWait(w)
    /\ Goto(w, "loop")
    /\ UNCHANGED <<life, my_slack, list, joins, local, market>>

Exit(w) ==
    /\ pc[w] = "exit"
    /\ my_slack' = my_slack + 1
    /\ Goto(w, "deref")
    /\ UNCHANGED <<life, list, monitor, joins, local, market>>

Deref(w) ==
    /\ pc[w] = "deref"
    /\ RemoveRef
    /\ Goto(w, "gone")
    /\ UNCHANGED <<my_state, my_slack, handle, shut, list, monitor, joins, local, market>>

-----------------------------------------------------------------------------
(* The client: threads of the application, and workers inside process. *)

Outside(t) == pc[t] \in {"rest", "process"}

\* market::adjust_demand under the market's lock ...
Demand(t, d) ==
    /\ Outside(t) /\ shut = 0
    /\ d # 0 /\ demand + d \in 0..MaxDemand
    /\ changes < MaxChanges /\ changes' = changes + 1
    /\ demand' = demand + d
    /\ add' = [add EXCEPT ![t] = d]
    /\ ret' = [ret EXCEPT ![t] = pc[t]]
    /\ Goto(t, "adjust")
    /\ UNCHANGED <<life, my_slack, list, monitor, joins, wakee>>

\* ... and adjust_job_count_estimate outside of it.
TakeBack(t) ==
    /\ add[t] < 0
    /\ my_slack' = my_slack + add[t]
    /\ add' = [add EXCEPT ![t] = 0]
    /\ ret' = [ret EXCEPT ![t] = "loop"]
    /\ Goto(t, ret[t])
    /\ UNCHANGED wakee

Adjust(t) ==
    /\ pc[t] = "adjust"
    /\ \/ TakeBack(t)
       \/ add[t] > 0 /\ WakeSome(t, add[t], ret[t]) /\ UNCHANGED my_slack
    /\ UNCHANGED <<life, list, monitor, joins, market>>

Adjusting(t) == pc[t] = "adjust" \/ ret[t] # "loop"

\* The market has lost its last reference: request_close_connection.  Where
\* the workers are waited for, it is called by a master.
Close(t) ==
    /\ Outside(t)
    /\ joins' \in BOOLEAN
    /\ joins' => t \in Masters
    /\ shut = 0 /\ demand = 0 /\ \A u \in Threads : ~ Adjusting(u)
    /\ shut' = 1
    /\ ret' = [ret EXCEPT ![t] = pc[t]]
    /\ Goto(t, "close")
    /\ UNCHANGED <<my_state, my_ref_count, handle, alive, my_slack, list, monitor,
                   add, wakee, market>>

\* CloseWorker that lets a starting worker find out by itself.
CloseWorker_OnlyNormal(t) ==
    /\ pc[t] = "close" /\ shut \in Workers
    /\ my_state' = [my_state EXCEPT ![shut] = "quit"]
    /\ \/ my_state[shut] = "init" /\ Goto(t, "c_ref") /\ UNCHANGED <<shut, monitor, add>>
       \/ my_state[shut] = "starting" /\ shut' = shut + 1 /\ UNCHANGED <<pc, monitor, add>>
       \/ /\ my_state[shut] = "normal"
          /\ NotifyEpoch(shut)
          /\ add' = [add EXCEPT ![t] = 1]
          /\ Goto(t, "c_signal") /\ UNCHANGED shut
    /\ UNCHANGED <<my_ref_count, handle, alive, my_slack, list, joins, ret, wakee, market>>

\* start_shutdown of the next worker.
TellToQuit(t) ==
    /\ my_state[shut] # "init"
    /\ NotifyEpoch(shut)
    /\ add' = [add EXCEPT ![t] = IF my_state[shut] = "normal" THEN 1 ELSE 0]
    /\ Goto(t, "c_signal")

CloseWorker(t) ==
    /\ pc[t] = "close" /\ shut \in Workers
    /\ my_state' = [my_state EXCEPT ![shut] = "quit"]
    /\ \/ my_state[shut] = "init" /\ Goto(t, "c_ref") /\ UNCHANGED <<monitor, add>>
       \/ TellToQuit(t)
    /\ UNCHANGED <<my_ref_count, handle, shut, alive, my_slack, list, joins, ret, wakee, market>>

CloseSignal(t) ==
    /\ pc[t] = "c_signal"
    /\ NotifySignal(shut)
    /\ \/ add[t] = 1 /\ Goto(t, "c_release") /\ UNCHANGED shut
       \/ add[t] = 0 /\ Goto(t, "close") /\ shut' = shut + 1
    /\ UNCHANGED <<my_state, my_ref_count, handle, alive, my_slack, list, joins, local, market>>

CloseRelease(t) ==
    /\ pc[t] = "c_release"
    /\ ReleaseHandle(shut)
    /\ add' = [add EXCEPT ![t] = 0]
    /\ shut' = shut + 1
    /\ Goto(t, "close")
    /\ UNCHANGED <<my_state, my_ref_count, alive, my_slack, list, monitor, joins, ret, wakee, market>>

CloseRef(t) ==
    /\ pc[t] = "c_ref"
    /\ RemoveRef
    /\ shut' = shut + 1
    /\ Goto(t, "close")
    /\ UNCHANGED <<my_state, handle, my_slack, list, monitor, joins, local, market>>

CloseEnd(t) ==
    /\ pc[t] = "close" /\ shut = NThread + 1
    /\ RemoveRef
    /\ Goto(t, IF t \in Masters THEN "gone" ELSE "process")
    /\ ret' = [ret EXCEPT ![t] = "loop"]
    /\ UNCHANGED <<my_state, handle, shut, my_slack, list, monitor, joins, add, wakee, market>>

-----------------------------------------------------------------------------
ServerStep(t) ==
    \/ WsTake(t) \/ WsEnough(t) \/ WsReturn(t) \/ WsWake(t) \/ WsSignal(t)
    \/ WsNorm(t) \/ Adjust(t)
    \/ CloseWorker(t) \/ CloseSignal(t) \/ CloseRelease(t) \/ CloseRef(t) \/ CloseEnd(t)

WorkerStep(w) ==
    \/ Chain(w) \/ Loop(w) \/ ProcessReturns(w) \/ Prepare(w) \/ InWait(w)
    \/ Check(w) \/ Insert(w) \/ Undo(w) \/ Commit(w) \/ Wake(w) \/ Cancel(w) \/ Exit(w)
    \/ Deref(w)

ClientStep(t) == Close(t) \/ \E d \in (-MaxDemand)..MaxDemand : Demand(t, d)

Next ==
    \/ \E t \in Threads : WsLock(t) \/ ServerStep(t) \/ ClientStep(t)
    \/ \E w \in Workers : WorkerStep(w)

Spec == Init /\ [][Next]_vars

\* Threads are scheduled, a thread that spins for the mutex gets it in the end,
\* and process returns; nobody has to change the demand or to close.
Fairness ==
    /\ \A t \in Threads : WF_vars(ServerStep(t)) /\ SF_vars(WsLock(t))
    /\ \A w \in Workers : WF_vars(WorkerStep(w))

FairSpec == Spec /\ Fairness

-----------------------------------------------------------------------------
(* Properties *)

WakeLocs == {"ws_lock", "ws_loop", "ws_wake", "ws_signal", "ws_norm"}
CloseLocs == {"close", "c_signal", "c_release", "c_ref"}

\* The list is a list: its links follow the stack, in which no worker is twice.
ListIsStack ==
    /\ stack \in Seq(Workers)
    /\ \A i, j \in 1..Len(stack) : stack[i] = stack[j] => i = j
    /\ root = IF stack = <<>> THEN Nobody ELSE stack[1]
    /\ \A i \in 1..Len(stack) :
          my_next[stack[i]] = IF i = Len(stack) THEN Nobody ELSE stack[i + 1]

Listed == {stack[i] : i \in 1..Len(stack)}

\* The workers t has taken from the list and neither notified nor launched yet.
Due(t) == 1..(IF pc[t] = "ws_norm" THEN Len(wakee[t]) - 1 ELSE Len(wakee[t]))
Taken(w) == \E t \in Threads : \E i \in Due(t) : wakee[t][i] = w

Held(w) == w \in Listed \/ Taken(w)

\* A worker is in one hand: on the list, or taken by one thread, once.
TakenOnce ==
    /\ \A t, u \in Threads : \A i \in Due(t), j \in Due(u) :
          wakee[t][i] = wakee[u][j] => t = u /\ i = j
    /\ \A w \in Listed : ~ Taken(w)

\* Who is on the list is asleep, has committed itself to sleep, or has no thread
\* yet; the comment at private_server.cpp:151 says so.  Only a shutdown is to wake
\* workers that stay on the list.
ListedSleep ==
    \A w \in Listed : pc[w] \in {"none", "commit", "asleep"} \/ my_state[w] = "quit"

\* On its way out after the shutdown.
Leaving(w) ==
    /\ my_state[w] = "quit"
    /\ pc[w] \in {"chain", "loop", "exit", "deref", "gone"} \cup WakeLocs
    /\ ret[w] = "loop"

\* A worker in somebody's hand sleeps, or will, until it is told.
HeldSleep ==
    \A w \in Workers : Held(w) =>
        /\ ~ Told(w) => pc[w] \in {"none", "commit", "asleep"} \/ Leaving(w)
        /\ my_state[w] # "quit" =>
              /\ pc[w] = "commit" => w \in in_wait /\ (w \in fresh <=> ~ Told(w))
              /\ pc[w] = "asleep" => w \in in_wait

\* A worker that sleeps will be told: it is on the list, in somebody's wakee, or
\* signalled; no other commits itself to sleep.  The epoch of one on its way to the list
\* is not raised again.
SleeperHeld ==
    \A w \in Workers : my_state[w] # "quit" =>
        /\ ~ Held(w) =>
              /\ pc[w] = "asleep" => w \in sema
              /\ pc[w] = "commit" => w \notin fresh
        /\ pc[w] \in {"in_wait", "check", "insert"} => w \in fresh

\* The units of demand a call of adjust_job_count_estimate has in hand, and
\* those it is about to take back.
Units(f) == Cardinality({u \in Threads \X (1..MaxDemand) : u[2] <= f[u[1]]})
InHand == Units(add)
TakenBack == Units([t \in Threads |-> -add[t]])

\* my_slack is the demand that has been delivered, less the workers that are
\* not on the list, but for the unit that a failed insertion gives for a moment.
SlackExact ==
    shut = 0 =>
        my_slack + InHand - TakenBack
            = demand - (NThread - Len(stack)) + Cardinality({w \in Workers : pc[w] = "undo"})

\* thread_monitor: a waiting thread is in_wait until it has been signalled, and
\* a signal that is not waited for any more is known to be spurious.
Waiting(w) == pc[w] \in {"check", "insert", "undo", "commit", "asleep", "cancel"}

MonitorExact ==
    \A w \in Workers :
        /\ Waiting(w) => w \notin spurious /\ (w \in in_wait <=> w \notin sema)
        /\ ~ Waiting(w) => w \notin in_wait /\ (w \in spurious <=> w \in sema)
        /\ pc[w] = "in_wait" => w \notin spurious
        /\ w \in fresh => pc[w] # "asleep" /\ (pc[w] = "in_wait" \/ Waiting(w))

\* What the state of a worker says of its thread.
WorkerPhase ==
    \A w \in Workers :
        /\ my_state[w] = "init" => pc[w] = "none"
        /\ pc[w] = "none" => my_state[w] \in {"init", "quit"}
        /\ pc[w] \in {"exit", "deref", "gone"} => my_state[w] = "quit"
        /\ pc[w] # "rest" /\ ret[w] # "rest"

\* Where a thread may be, and where it returns to.
CallPhase ==
    /\ \A t \in Masters :
        /\ pc[t] \in {"rest", "gone", "adjust"} \cup WakeLocs \cup CloseLocs
        /\ pc[t] \in WakeLocs => ret[t] # "loop"
        /\ ret[t] # "process"
    /\ \A t \in Threads :
        /\ ret[t] # "loop" => pc[t] \in {"adjust"} \cup WakeLocs \cup CloseLocs
        /\ pc[t] \in {"adjust"} \cup CloseLocs => ret[t] # "loop"

\* What a thread has in hand while it is in wake_some.
WakePhase ==
    \A t \in Threads :
        /\ wakee[t] # <<>> => pc[t] \in WakeLocs \ {"ws_lock"}
        /\ pc[t] \in {"ws_signal", "ws_norm"} => wakee[t] # <<>>
        /\ add[t] # 0 => pc[t] \in {"adjust", "ws_lock", "ws_loop", "c_signal", "c_release"}
        /\ pc[t] # "adjust" => add[t] >= 0

\* One thread closes the connection, once, when nobody changes the demand any more.
ClosePhase ==
    /\ \A t, u \in Threads : pc[t] \in CloseLocs /\ pc[u] \in CloseLocs => t = u
    /\ \A t \in Threads :
        /\ pc[t] \in CloseLocs \cup {"gone"} => shut # 0
        /\ shut # 0 /\ ret[t] # "loop" => pc[t] \in CloseLocs
        /\ pc[t] \in CloseLocs \ {"close"} => shut \in Workers /\ my_state[shut] = "quit"
        /\ pc[t] = "close" => \A w \in Workers : my_state[w] = "quit" => w < shut
        /\ pc[t] \in CloseLocs => \A w \in Workers : my_state[w] = "quit" => w <= shut
        /\ pc[t] = "c_ref" => pc[shut] = "none"
        /\ pc[t] \in {"c_signal", "c_release"} => pc[shut] # "none"
        /\ pc[t] = "c_signal" => add[t] \in {0, 1}
    /\ \A w \in Workers : my_state[w] = "quit" => shut # 0

\* The thread's handle is stored or released only after the launch, and it
\* is released once: not by the launcher and by start_shutdown.
HandleOnce ==
    /\ \A w \in Workers :
        /\ handle[w] = "set" => my_state[w] \in {"normal", "quit"}
        /\ my_state[w] = "normal" => handle[w] = "set"
        /\ my_state[w] \in {"init", "starting"} => handle[w] = "none"
    /\ \A t \in Threads :
        /\ pc[t] = "ws_norm" => /\ handle[LastTaken(t)] = "none"
                                /\ my_state[LastTaken(t)] \in {"starting", "quit"}
        /\ pc[t] = "c_signal" /\ add[t] = 1 => handle[shut] = "set"
        /\ pc[t] = "c_release" => handle[shut] = "set"
    /\ \A t, u \in Threads :
        pc[t] = "ws_norm" /\ pc[u] = "ws_norm" /\ LastTaken(t) = LastTaken(u) => t = u

Phases == WorkerPhase /\ CallPhase /\ WakePhase /\ ClosePhase

\* Who has a reference: each worker until it has left or is known never to be
\* launched, and the client until it has closed every worker.
Referring(w) == pc[w] # "gone" /\ ~ (pc[w] = "none" /\ my_state[w] = "quit" /\ w < shut)
ClientRefers == shut = NThread + 1 => \E t \in Threads : pc[t] \in CloseLocs

RefsExact ==
    /\ my_ref_count = Cardinality({w \in Workers : Referring(w)})
                         + (IF ClientRefers THEN 1 ELSE 0)
    /\ alive <=> my_ref_count # 0

\* What holds of the lives of the workers and of the server, late signals included.
LifeInv == TypeOK /\ Phases /\ MonitorExact /\ HandleOnce /\ RefsExact

\* The accounting of slack and sleepers.  The code keeps it until a worker is
\* listed with a late notification, and no longer.
Accounts == ListIsStack /\ TakenOnce /\ HeldSleep /\ SleeperHeld /\ SlackExact

IInv == LifeInv /\ (~ late => Accounts)

\* The accounts fail for the first time where a worker lists itself with a late
\* notification (late is set), and they always fail there: of the steps of
\* two threads that cross, no other pair confuses slack, list and sleepers.
FirstFailure == [][~ late => (late' <=> ~ Accounts')]_vars

\* The server is deleted by the last one to leave: no worker runs, and nobody is
\* in wake_some or in request_close_connection.
ServerAlive == ~ alive => \A t \in Threads : pc[t] \in {"none", "gone", "rest"}

\* Positive slack is used up, by waking workers as long as any are on the list:
\* the chain of wakeups does not break when slack and sleepers change meanwhile.
\* An entry of the list that a late notification has made void may break it.
DemandMet == []<>(my_slack <= 0 \/ root = Nobody \/ shut # 0 \/ late)

\* A connection that is closed is closed in the end: every worker notices,
\* wherever it is between its test of my_state and its sleep, and is joined.
CloseCompletes == []<>(shut = 0 \/ ~ alive)

=============================================================================
