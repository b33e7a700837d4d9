--------------------------- MODULE ReaderWriterLock ---------------------------
(***************************************************************************)
(* tbb::reader_writer_lock: writers queue in a list of nodes and hand the  *)
(* lock to each other; readers push their nodes on a stack, and whoever    *)
(* finds the way free wakes the stack's top, each reader then waking the   *)
(* one below it.  Flags and the count of active readers share one word.    *)
(*                                                                         *)
(* A thread has one write node and one read node at a time, and is         *)
(* identified with them.  Each action is one access to a shared location,  *)
(* with the thread-local decision that follows; the compare-and-swap loops *)
(* fetch_and_or and fetch_and_and are the atomic operations they build.    *)
(***************************************************************************)
EXTENDS Naturals, FiniteSets

CONSTANTS
    Threads,
    Writers,    \* the threads that call lock or try_lock
    Readers,    \* the threads that call lock_read or try_lock_read
    Triers,     \* of those, the ones that call the try_ functions
    NULL

ASSUME RolesAssumption ==
    /\ Writers \subseteq Threads
    /\ Readers \subseteq Threads
    /\ Triers \subseteq Threads
    /\ NULL \notin Threads
    /\ IsFiniteSet(Threads)

VARIABLES
    word,               \* rdr_count_and_flags
    reader_head, writer_head, writer_tail, my_current_writer,
    wnext, wstatus,     \* the fields of the write nodes
    rnext, rstatus,     \* the fields of the read nodes
    below,              \* ghost: of each reader that is queued, itself and
                        \* those it is, directly or not, to wake
    pc,
    node,               \* the node a thread is about to write to: pred in
                        \* start_write, W in set_next_writer, head in
                        \* unblock_readers
    back                \* where set_next_writer or unblock_readers returns

heads == <<reader_head, writer_head, writer_tail, my_current_writer>>
wnodes == <<wnext, wstatus>>
rnodes == <<rnext, rstatus, below>>
control == <<pc, node, back>>
vars == <<word, heads, wnodes, rnodes, control>>

-----------------------------------------------------------------------------
Free == [w1 |-> FALSE, w2 |-> FALSE, rf |-> FALSE, rc |-> 0]

Statuses == {"waiting_nonblocking", "waiting", "active", "invalid"}

StartWriteLocs == {"w_swap", "w_cas", "w_link", "w_first", "w_spin",
                   "f_head", "f_cas", "f_wait", "f_free"}
SetNextLocs == {"s_head", "s_cas", "s_or1", "s_w2wait", "s_or2", "s_rcwait",
                "s_active"}
EndWriteLocs == {"e_clear", "e_next", "e_give", "e_and", "e_head", "e_cas",
                 "e_wait", "e_free"}
StartReadLocs == {"r_push", "r_or", "r_spin", "r_count", "r_wake"}
UnblockLocs == {"b_add", "b_win1", "b_win2", "b_or2", "b_pop", "b_wake"}
Locs == {"idle", "reading", "writing", "tr_undo", "end_read"}
            \cup StartWriteLocs \cup SetNextLocs \cup EndWriteLocs
            \cup StartReadLocs \cup UnblockLocs

Nodes == Threads \cup {NULL}

TypeOK ==
    /\ word \in [w1 : BOOLEAN, w2 : BOOLEAN, rf : BOOLEAN, rc : Nat]
    /\ {reader_head, writer_head, writer_tail, my_current_writer} \subseteq Nodes
    /\ wnext \in [Threads -> Nodes] /\ wstatus \in [Threads -> Statuses]
    /\ rnext \in [Threads -> Nodes] /\ rstatus \in [Threads -> Statuses]
    /\ below \in [Threads -> SUBSET Threads]
    /\ pc \in [Threads -> Locs]
    /\ node \in [Threads -> Nodes]
    /\ back \in [Threads -> Locs]

Init ==
    /\ word = Free
    /\ reader_head = NULL /\ writer_head = NULL /\ writer_tail = NULL
    /\ my_current_writer = NULL
    /\ wnext = [t \in Threads |-> NULL]
    /\ wstatus = [t \in Threads |-> "invalid"]
    /\ rnext = [t \in Threads |-> NULL]
    /\ rstatus = [t \in Threads |-> "invalid"]
    /\ below = [t \in Threads |-> {}]
    /\ pc = [t \in Threads |-> "idle"]
    /\ node = [t \in Threads |-> NULL]
    /\ back = [t \in Threads |-> "idle"]

-----------------------------------------------------------------------------
(* Moves of the control.  A node variable that is no longer used is cleared. *)

Jump(t, loc, n, ret) ==
    /\ pc' = [pc EXCEPT ![t] = loc]
    /\ node' = [node EXCEPT ![t] = n]
    /\ back' = [back EXCEPT ![t] = ret]

Goto(t, loc) == pc' = [pc EXCEPT ![t] = loc] /\ UNCHANGED <<node, back>>
Finish(t, loc) == Jump(t, loc, NULL, "idle")
ReturnFrom(t) == Finish(t, back[t])

\* Calls of set_next_writer(W) and of unblock_readers().
CallSetNext(t, W, ret) == Jump(t, "s_head", W, ret)
CallUnblock(t, ret) == Jump(t, "b_add", NULL, ret)

-----------------------------------------------------------------------------
(* lock, try_lock and start_write.  A thread that already is the current    *)
(* writer gets an exception from lock and FALSE from try_lock, and nothing  *)
(* changes; that is a stuttering step.                                      *)

NewWriteNode(t, status) ==
    /\ pc[t] = "idle" /\ t \in Writers /\ my_current_writer # t
    /\ wnext' = [wnext EXCEPT ![t] = NULL]
    /\ wstatus' = [wstatus EXCEPT ![t] = status]
    /\ UNCHANGED <<word, heads, rnodes>>

Lock(t) == NewWriteNode(t, "waiting") /\ Goto(t, "w_swap")

TryLock(t) ==
    t \in Triers /\ NewWriteNode(t, "waiting_nonblocking") /\ Goto(t, "w_cas")

FreeWriteNode(t) ==
    /\ wstatus' = [wstatus EXCEPT ![t] = "invalid"]
    /\ wnext' = [wnext EXCEPT ![t] = NULL]

SwapTail(t) ==
    /\ pc[t] = "w_swap"
    /\ writer_tail' = t
    /\ IF writer_tail = NULL THEN CallSetNext(t, t, "w_first")
                             ELSE Jump(t, "w_link", writer_tail, "idle")
    /\ UNCHANGED <<word, reader_head, writer_head, my_current_writer, wnodes, rnodes>>

TryTail(t) ==
    /\ pc[t] = "w_cas"
    /\ \/ /\ writer_tail = NULL
          /\ writer_tail' = t
          /\ CallSetNext(t, t, "w_first")
          /\ UNCHANGED wnodes
       \/ /\ writer_tail # NULL
          /\ FreeWriteNode(t)
          /\ Goto(t, "idle")
          /\ UNCHANGED writer_tail
    /\ UNCHANGED <<word, reader_head, writer_head, my_current_writer, rnodes>>

LinkWriter(t) ==
    /\ pc[t] = "w_link"
    /\ wnext' = [wnext EXCEPT ![node[t]] = t]
    /\ Finish(t, "w_spin")
    /\ UNCHANGED <<word, heads, wstatus, rnodes>>

\* What the first writer does after set_next_writer(I): only a try can find
\* that it was not made active, and it must pass the queue on.
FirstWriter(t) ==
    /\ pc[t] = "w_first"
    /\ \/ /\ wstatus[t] # "waiting_nonblocking"
          /\ Goto(t, "w_spin")
       \/ /\ wstatus[t] = "waiting_nonblocking" /\ wnext[t] = NULL
          /\ Goto(t, "f_head")
       \/ /\ wstatus[t] = "waiting_nonblocking" /\ wnext[t] # NULL
          /\ CallSetNext(t, wnext[t], "f_free")
    /\ UNCHANGED <<word, heads, wnodes, rnodes>>

SpinWriter(t) ==
    /\ pc[t] = "w_spin"
    /\ wstatus[t] # "waiting"
    /\ my_current_writer' = t
    /\ Goto(t, "writing")
    /\ UNCHANGED <<word, reader_head, writer_head, writer_tail, wnodes, rnodes>>

\* Leaving the queue, in a try that failed (f_) and in end_write (e_).
\* Leaving without taking the node out of writer_head.
ClearHead_Keep(t, at, to) ==
    /\ pc[t] = at
    /\ Goto(t, to)
    /\ UNCHANGED <<word, heads, wnodes, rnodes>>

ClearHead(t, at, to) ==
    /\ pc[t] = at
    /\ writer_head' = NULL
    /\ Goto(t, to)
    /\ UNCHANGED <<word, reader_head, writer_tail, my_current_writer, wnodes, rnodes>>

\* Leaving while a writer that has the tail has not linked itself.
ClearTail_NoWait(t, at, wait, free) ==
    /\ pc[t] = at
    /\ writer_tail' = IF writer_tail = t THEN NULL ELSE writer_tail
    /\ Goto(t, free)
    /\ UNCHANGED <<word, reader_head, writer_head, my_current_writer, wnodes, rnodes>>

ClearTail(t, at, wait, free) ==
    /\ pc[t] = at
    /\ \/ /\ writer_tail = t
          /\ writer_tail' = NULL
          /\ Goto(t, free)
       \/ /\ writer_tail # t
          /\ Goto(t, wait)
          /\ UNCHANGED writer_tail
    /\ UNCHANGED <<word, reader_head, writer_head, my_current_writer, wnodes, rnodes>>

AwaitNext(t, at, free) ==
    /\ pc[t] = at
    /\ wnext[t] # NULL
    /\ CallSetNext(t, wnext[t], free)
    /\ UNCHANGED <<word, heads, wnodes, rnodes>>

DeleteNode(t, at) ==
    /\ pc[t] = at
    /\ FreeWriteNode(t)
    /\ Goto(t, "idle")
    /\ UNCHANGED <<word, heads, rnodes>>

FailTry(t) ==
    \/ ClearHead(t, "f_head", "f_cas")
    \/ ClearTail(t, "f_cas", "f_wait", "f_free")
    \/ AwaitNext(t, "f_wait", "f_free")
    \/ DeleteNode(t, "f_free")

-----------------------------------------------------------------------------
(* set_next_writer(W), W = node[t] *)

SetHead(t) ==
    /\ pc[t] = "s_head"
    /\ writer_head' = node[t]
    /\ pc' = [pc EXCEPT ![t] =
                IF wstatus[node[t]] = "waiting_nonblocking" THEN "s_cas" ELSE "s_or1"]
    /\ UNCHANGED <<word, reader_head, writer_tail, my_current_writer, wnodes,
                   rnodes, node, back>>

\* A try that looks at the count of active readers only.
SetByTry_CountOnly(t) ==
    /\ pc[t] = "s_cas"
    /\ \/ /\ word.rc = 0
          /\ word' = [word EXCEPT !.w1 = TRUE, !.w2 = TRUE]
          /\ Goto(t, "s_active")
       \/ /\ word.rc # 0
          /\ ReturnFrom(t)
          /\ UNCHANGED word
    /\ UNCHANGED <<heads, wnodes, rnodes>>

SetByTry(t) ==
    /\ pc[t] = "s_cas"
    /\ \/ /\ word = Free
          /\ word' = [Free EXCEPT !.w1 = TRUE, !.w2 = TRUE]
          /\ Goto(t, "s_active")
       \/ /\ word # Free
          /\ ReturnFrom(t)
          /\ UNCHANGED word
    /\ UNCHANGED <<heads, wnodes, rnodes>>

SetFlag1(t) ==
    /\ pc[t] = "s_or1"
    /\ word' = [word EXCEPT !.w1 = TRUE]
    /\ Goto(t, IF word.rf THEN "s_w2wait" ELSE "s_or2")
    /\ UNCHANGED <<heads, wnodes, rnodes>>

AwaitFlag2(t) ==
    /\ pc[t] = "s_w2wait"
    /\ word.w2
    /\ Goto(t, "s_rcwait")
    /\ UNCHANGED <<word, heads, wnodes, rnodes>>

SetFlag2(t) ==
    /\ pc[t] = "s_or2"
    /\ word' = [word EXCEPT !.w2 = TRUE]
    /\ Goto(t, "s_rcwait")
    /\ UNCHANGED <<heads, wnodes, rnodes>>

\* A writer that does not wait for the active readers.
AwaitReaders_Skip(t) ==
    /\ pc[t] = "s_rcwait"
    /\ Goto(t, "s_active")
    /\ UNCHANGED <<word, heads, wnodes, rnodes>>

AwaitReaders(t) ==
    /\ pc[t] = "s_rcwait"
    /\ word.rc = 0
    /\ Goto(t, "s_active")
    /\ UNCHANGED <<word, heads, wnodes, rnodes>>

Activate(t) ==
    /\ pc[t] = "s_active"
    /\ wstatus' = [wstatus EXCEPT ![node[t]] = "active"]
    /\ ReturnFrom(t)
    /\ UNCHANGED <<word, heads, wnext, rnodes>>

SetNextWriter(t) ==
    \/ SetHead(t) \/ SetByTry(t) \/ SetFlag1(t) \/ AwaitFlag2(t)
    \/ SetFlag2(t) \/ AwaitReaders(t) \/ Activate(t)

-----------------------------------------------------------------------------
(* lock_read, start_read and unblock_readers *)

LockRead(t) ==
    /\ pc[t] = "idle" /\ t \in Readers /\ my_current_writer # t
    /\ rnext' = [rnext EXCEPT ![t] = NULL]
    /\ rstatus' = [rstatus EXCEPT ![t] = "waiting"]
    /\ Goto(t, "r_push")
    /\ UNCHANGED <<word, heads, wnodes, below>>

PushReader(t) ==
    /\ pc[t] = "r_push"
    /\ rnext' = [rnext EXCEPT ![t] = reader_head]
    /\ reader_head' = t
    /\ below' = [below EXCEPT ![t] =
                    {t} \cup IF reader_head = NULL THEN {} ELSE below[reader_head]]
    /\ Goto(t, IF reader_head = NULL THEN "r_or" ELSE "r_spin")
    /\ UNCHANGED <<word, writer_head, writer_tail, my_current_writer, wnodes, rstatus>>

\* The first reader of a group that unblocks it without looking for writers.
FirstReader_NoTest(t) ==
    /\ pc[t] = "r_or"
    /\ word' = [word EXCEPT !.rf = TRUE]
    /\ CallUnblock(t, "r_spin")
    /\ UNCHANGED <<heads, wnodes, rnodes>>

FirstReader(t) ==
    /\ pc[t] = "r_or"
    /\ word' = [word EXCEPT !.rf = TRUE]
    /\ IF word.w1 \/ word.w2 THEN Goto(t, "r_spin") ELSE CallUnblock(t, "r_spin")
    /\ UNCHANGED <<heads, wnodes, rnodes>>

\* The node of lock_read is a local variable and is gone when it returns.
FreeReadNode(t) ==
    /\ rstatus' = [rstatus EXCEPT ![t] = "invalid"]
    /\ rnext' = [rnext EXCEPT ![t] = NULL]
    /\ below' = [below EXCEPT ![t] = {}]

SpinReader(t) ==
    /\ pc[t] = "r_spin"
    /\ rstatus[t] # "waiting"
    /\ \/ /\ rnext[t] = NULL
          /\ FreeReadNode(t)
          /\ Goto(t, "reading")
       \/ /\ rnext[t] # NULL
          /\ Goto(t, "r_count")
          /\ UNCHANGED rnodes
    /\ UNCHANGED <<word, heads, wnodes>>

\* A reader that wakes its successor without counting it.
CountSuccessor_Skip(t) ==
    /\ pc[t] = "r_count"
    /\ Goto(t, "r_wake")
    /\ UNCHANGED <<word, heads, wnodes, rnodes>>

CountSuccessor(t) ==
    /\ pc[t] = "r_count"
    /\ word' = [word EXCEPT !.rc = @ + 1]
    /\ Goto(t, "r_wake")
    /\ UNCHANGED <<heads, wnodes, rnodes>>

WakeSuccessor(t) ==
    /\ pc[t] = "r_wake"
    /\ rstatus' = [rstatus EXCEPT ![rnext[t]] = "active", ![t] = "invalid"]
    /\ rnext' = [rnext EXCEPT ![t] = NULL]
    /\ below' = [below EXCEPT ![t] = {}]
    /\ Goto(t, "reading")
    /\ UNCHANGED <<word, heads, wnodes>>

CountGroup(t) ==
    /\ pc[t] = "b_add"
    /\ word' = [word EXCEPT !.rc = @ + 1, !.rf = FALSE]
    /\ Goto(t, "b_win1")
    /\ UNCHANGED <<heads, wnodes, rnodes>>

\* The two loads of the test for a writer in the timing window.
TestWindow(t) ==
    /\ \/ /\ pc[t] = "b_win1"
          /\ Goto(t, IF word.w1 THEN "b_win2" ELSE "b_pop")
       \/ /\ pc[t] = "b_win2"
          /\ Goto(t, IF word.w2 THEN "b_pop" ELSE "b_or2")
    /\ UNCHANGED <<word, heads, wnodes, rnodes>>

ClearWindow(t) ==
    /\ pc[t] = "b_or2"
    /\ word' = [word EXCEPT !.w2 = TRUE]
    /\ Goto(t, "b_pop")
    /\ UNCHANGED <<heads, wnodes, rnodes>>

PopGroup(t) ==
    /\ pc[t] = "b_pop"
    /\ reader_head' = NULL
    /\ Jump(t, "b_wake", reader_head, back[t])
    /\ UNCHANGED <<word, writer_head, writer_tail, my_current_writer, wnodes, rnodes>>

WakeGroup(t) ==
    /\ pc[t] = "b_wake"
    /\ rstatus' = [rstatus EXCEPT ![node[t]] = "active"]
    /\ ReturnFrom(t)
    /\ UNCHANGED <<word, heads, wnodes, rnext, below>>

UnblockReaders(t) ==
    \/ CountGroup(t) \/ TestWindow(t) \/ ClearWindow(t) \/ PopGroup(t) \/ WakeGroup(t)

-----------------------------------------------------------------------------
(* try_lock_read, unlock, end_read and end_write *)

TryLockRead(t) ==
    /\ pc[t] = "idle" /\ t \in Readers \cap Triers /\ my_current_writer # t
    /\ word' = [word EXCEPT !.rc = @ + 1]
    /\ Goto(t, IF word.w1 \/ word.w2 THEN "tr_undo" ELSE "reading")
    /\ UNCHANGED <<heads, wnodes, rnodes>>

\* unlock() asks my_current_writer what kind of lock is to be released.
Unlock(t) ==
    /\ pc[t] \in {"reading", "writing"}
    /\ Goto(t, IF my_current_writer # NULL THEN "e_clear" ELSE "end_read")
    /\ UNCHANGED <<word, heads, wnodes, rnodes>>

\* The end of a read lock, and of a try that came too late.
LeaveCount(t) ==
    /\ pc[t] \in {"end_read", "tr_undo"}
    /\ word' = [word EXCEPT !.rc = @ - 1]
    /\ Goto(t, "idle")
    /\ UNCHANGED <<heads, wnodes, rnodes>>

ClearWriter(t) ==
    /\ pc[t] = "e_clear"
    /\ my_current_writer' = NULL
    /\ Goto(t, "e_next")
    /\ UNCHANGED <<word, reader_head, writer_head, writer_tail, wnodes, rnodes>>

TestNext(t) ==
    /\ pc[t] = "e_next"
    /\ \/ /\ wnext[t] # NULL
          /\ writer_head' = wnext[t]
          /\ Goto(t, "e_give")
       \/ /\ wnext[t] = NULL
          /\ Goto(t, "e_and")
          /\ UNCHANGED writer_head
    /\ UNCHANGED <<word, reader_head, writer_tail, my_current_writer, wnodes, rnodes>>

GiveToWriter(t) ==
    /\ pc[t] = "e_give"
    /\ wstatus' = [wstatus EXCEPT ![writer_head] = "active"]
    /\ Goto(t, "e_free")
    /\ UNCHANGED <<word, heads, wnext, rnodes>>

ClearFlags(t) ==
    /\ pc[t] = "e_and"
    /\ word' = [word EXCEPT !.w1 = FALSE, !.w2 = FALSE]
    /\ IF word.rf THEN CallUnblock(t, "e_head") ELSE Goto(t, "e_head")
    /\ UNCHANGED <<heads, wnodes, rnodes>>

EndWrite(t) ==
    \/ ClearWriter(t) \/ TestNext(t) \/ GiveToWriter(t) \/ ClearFlags(t)
    \/ ClearHead(t, "e_head", "e_cas")
    \/ ClearTail(t, "e_cas", "e_wait", "e_free")
    \/ AwaitNext(t, "e_wait", "e_free")
    \/ DeleteNode(t, "e_free")

-----------------------------------------------------------------------------
\* What the lock's own code does next for a thread that is inside it.
Step(t) ==
    \/ SwapTail(t) \/ TryTail(t) \/ LinkWriter(t) \/ FirstWriter(t)
    \/ SpinWriter(t) \/ FailTry(t) \/ SetNextWriter(t)
    \/ PushReader(t) \/ FirstReader(t) \/ SpinReader(t)
    \/ CountSuccessor(t) \/ WakeSuccessor(t) \/ UnblockReaders(t)
    \/ LeaveCount(t) \/ EndWrite(t)

Call(t) == Lock(t) \/ TryLock(t) \/ LockRead(t) \/ TryLockRead(t)

Next == \E t \in Threads : Step(t) \/ Call(t) \/ Unlock(t)

Spec == Init /\ [][Next]_vars

\* Threads inside the lock are scheduled; critical sections may last for ever.
LockFairness == \A t \in Threads : WF_vars(Step(t))

\* As above, and critical sections end.
Fairness == LockFairness /\ \A t \in Threads : WF_vars(Unlock(t))

LockFairSpec == Spec /\ LockFairness
FairSpec == Spec /\ Fairness

-----------------------------------------------------------------------------
(* Safety. *)

At(locs) == {t \in Threads : pc[t] \in locs}

\* Who is counted among the active readers: each reader that got in or is about
\* to take itself out, each woken one, and whoever is about to wake a group.
Counted(t) ==
    \/ pc[t] \in {"reading", "end_read", "tr_undo", "r_count", "r_wake"}
    \/ pc[t] = "r_spin" /\ rstatus[t] = "active"
    \/ pc[t] \in UnblockLocs \ {"b_add"}

\* The count is exact; who is about to wake its successor has counted it, too.
CountExact ==
    word.rc = Cardinality({t \in Threads : Counted(t)}) + Cardinality(At({"r_wake"}))

\* "If we encounter this state [invalid], we are looking at memory that has
\* already been freed": every node a thread is about to write to belongs to a
\* thread that still waits.
NodesAlive ==
    \A t \in Threads :
        /\ pc[t] = "w_link" => wstatus[node[t]] # "invalid" /\ wnext[node[t]] = NULL
        /\ pc[t] \in SetNextLocs =>
              wstatus[node[t]] \in {"waiting", "waiting_nonblocking"}
        /\ pc[t] = "e_give" => wstatus[writer_head] = "waiting"
        /\ pc[t] \in {"r_count", "r_wake"} => rstatus[rnext[t]] = "waiting"
        /\ pc[t] = "b_wake" => node[t] # NULL /\ rstatus[node[t]] = "waiting"

\* The remaining assertions of the source.
SourceAssertions ==
    \A t \in Threads :
        /\ pc[t] = "r_spin" => rstatus[t] \in {"waiting", "active"}
        /\ pc[t] = "b_add" => word.rf
        /\ pc[t] = "b_pop" => reader_head # NULL
        /\ pc[t] \in {"writing", "e_clear"} =>
              /\ my_current_writer = t
              /\ writer_head = t /\ wstatus[t] = "active"
        /\ pc[t] = "e_free" => writer_head # t
        /\ pc[t] = "end_read" => word.rc > 0

\* The assertions of the destructor: with nobody inside, nothing is left of
\* those who were.
CleanWhenIdle ==
    (\A t \in Threads : pc[t] = "idle") =>
        /\ word = Free
        /\ reader_head = NULL /\ writer_head = NULL /\ writer_tail = NULL

-----------------------------------------------------------------------------
(* The invariant. *)

\* In the writers' list, until its successor has been taken over.
Queued(t) ==
    \/ pc[t] \in {"w_link", "w_first", "w_spin", "f_head", "f_cas", "f_wait", "writing",
                  "e_clear", "e_next", "e_and", "e_head", "e_cas", "e_wait"}
    \/ pc[t] \in SetNextLocs /\ back[t] = "w_first"
    \/ pc[t] \in UnblockLocs /\ back[t] = "e_head"

\* Whose turn it is among the writers: only it calls set_next_writer.
InCharge(t) ==
    \/ pc[t] \in SetNextLocs \cup {"w_first", "f_head", "f_cas", "f_wait", "writing",
            "e_clear", "e_next", "e_give", "e_and", "e_head", "e_cas", "e_wait"}
    \/ pc[t] = "w_spin" /\ wstatus[t] = "active"
    \/ pc[t] \in UnblockLocs /\ back[t] = "e_head"

\* About to make the next in the list active.
Passing(t) == pc[t] \in SetNextLocs /\ back[t] # "w_first"

\* In the readers' stack, or in a group that is being woken.
Stacked(t) ==
    \/ pc[t] \in {"r_or", "r_spin", "r_count", "r_wake"}
    \/ pc[t] \in UnblockLocs /\ back[t] = "r_spin"

\* What each place in the code says of the thread's own variables.
Local ==
    \A t \in Threads :
        /\ pc[t] \in SetNextLocs =>
              /\ back[t] \in {"w_first", "f_free", "e_free"}
              /\ back[t] = "w_first" => node[t] = t
        /\ pc[t] \in UnblockLocs => back[t] \in {"r_spin", "e_head"}
        /\ pc[t] = "s_head" /\ back[t] = "w_first" =>
              wstatus[t] \in {"waiting", "waiting_nonblocking"}
        /\ pc[t] = "s_cas" => back[t] = "w_first" /\ wstatus[t] = "waiting_nonblocking"
        /\ pc[t] \in {"s_or1", "s_w2wait", "s_or2", "s_rcwait"} => wstatus[node[t]] = "waiting"
        /\ pc[t] = "s_active" => wstatus[node[t]] \in {"waiting", "waiting_nonblocking"}
        /\ pc[t] = "w_swap" => wstatus[t] = "waiting" /\ wnext[t] = NULL
        /\ pc[t] = "w_cas" => wstatus[t] = "waiting_nonblocking" /\ wnext[t] = NULL
        /\ pc[t] = "w_link" => wstatus[t] = "waiting"
        /\ pc[t] = "w_spin" => wstatus[t] \in {"waiting", "active"}
        /\ pc[t] = "w_first" => wstatus[t] \in {"waiting_nonblocking", "active"}
        /\ pc[t] \in {"f_head", "f_cas", "f_wait"} => wstatus[t] = "waiting_nonblocking"
        /\ pc[t] \in (EndWriteLocs \ {"e_free"}) \cup {"writing"} => wstatus[t] = "active"
        /\ pc[t] \in UnblockLocs /\ back[t] = "e_head" => wstatus[t] = "active"
        /\ pc[t] = "r_push" => rstatus[t] = "waiting"
        /\ pc[t] = "r_spin" => rstatus[t] \in {"waiting", "active"}
        /\ pc[t] \in {"r_count", "r_wake"} => rstatus[t] = "active" /\ rnext[t] # NULL
        /\ Stacked(t) /\ pc[t] \notin {"r_spin", "r_count", "r_wake"} => rstatus[t] = "waiting"

\* A writer that waits in the list and has linked itself, or been linked.
Linked(s) == pc[s] = "w_spin" /\ wstatus[s] = "waiting"

\* One writer is in charge; each other is linked to at most one before it.
WritersInLine ==
    /\ \A t, u \in Threads : InCharge(t) /\ InCharge(u) => t = u
    /\ writer_tail = NULL => \A t \in Threads : ~ InCharge(t)
    /\ writer_tail # NULL =>
          /\ Queued(writer_tail) /\ wnext[writer_tail] = NULL
          /\ \A t \in Threads : pc[t] = "w_link" => node[t] # writer_tail
    /\ \A t \in Threads :
        /\ pc[t] = "w_link" => /\ node[t] \in Threads \ {t}
                               /\ Queued(node[t]) /\ wnext[node[t]] = NULL
        /\ Queued(t) /\ wnext[t] # NULL => Linked(wnext[t])
        /\ Passing(t) =>
              /\ node[t] \in Threads /\ Linked(node[t])
              /\ \A u \in Threads : Queued(u) => wnext[u] # node[t]
        /\ pc[t] = "e_give" =>
              /\ wnext[t] \in Threads /\ Linked(wnext[t])
              /\ \A u \in Threads : Queued(u) => wnext[u] # wnext[t]
    /\ \A t, u \in Threads :
        /\ pc[t] = "w_link" /\ pc[u] = "w_link" /\ node[t] = node[u] => t = u
        /\ Queued(t) /\ Queued(u) /\ wnext[t] = wnext[u] /\ wnext[t] # NULL => t = u

\* writer_head, by what the writer in charge is doing.
HeadExact ==
    /\ (\A t \in Threads : ~ InCharge(t)) => writer_head = NULL
    /\ \A t \in Threads :
        /\ pc[t] = "s_head" => writer_head \in {NULL, t}
        /\ pc[t] \in SetNextLocs \ {"s_head"} => writer_head = node[t]
        /\ pc[t] = "w_spin" /\ wstatus[t] = "active" => writer_head = t
        /\ pc[t] \in {"w_first", "f_head", "writing", "e_clear", "e_next", "e_and", "e_head"} =>
              writer_head = t
        /\ pc[t] \in UnblockLocs /\ back[t] = "e_head" => writer_head = t
        /\ pc[t] \in {"f_cas", "f_wait", "e_cas", "e_wait"} => writer_head = NULL
        /\ pc[t] = "e_give" => writer_head = wnext[t]
    /\ \A t \in Threads :
        /\ pc[t] \in {"writing", "e_clear"} => my_current_writer = t
        /\ my_current_writer = t => pc[t] \in {"writing", "e_clear"}

\* The writer in charge has raised WFLAG1; it holds the lock, or is about to.
Holding(t) ==
    \/ pc[t] \in {"s_active", "writing", "e_clear", "e_next", "e_give", "e_and"}
    \/ pc[t] \in {"w_spin", "w_first"} /\ wstatus[t] = "active"

Flagged(t) == pc[t] \in {"s_w2wait", "s_or2", "s_rcwait"} \/ Holding(t)

\* Who opens the way for the readers of the stack: of those, the first.
Opening(t) == pc[t] \in {"r_or", "b_add", "b_win1", "b_win2", "b_or2", "b_pop"}

FlagsExact ==
    /\ word.w1 <=> \E t \in Threads : Flagged(t)
    /\ word.w2 => word.w1
    /\ \A t \in Threads :
        /\ pc[t] = "s_rcwait" \/ Holding(t) => word.w2
        /\ pc[t] \in {"b_win2", "b_or2"} => word.w1
        /\ pc[t] = "b_add" /\ word.w1 =>
              ~ word.w2 /\ \A u \in Threads : Flagged(u) => pc[u] = "s_w2wait"
        /\ Holding(t) => \A u \in Threads : Counted(u) => pc[u] = "tr_undo"

\* RFLAG is up as long as somebody is about to lower it: the reader that raised
\* it, or the writer in charge when it has finished.
ReadersAnnounced ==
    /\ \A t, u \in Threads : Opening(t) /\ Opening(u) => t = u
    /\ \A t \in Threads : Opening(t) => reader_head # NULL /\ (word.rf <=> pc[t] = "b_add")
    /\ word.rf => reader_head # NULL
    /\ word.rf => word.w1 \/ \E t \in Threads : pc[t] = "b_add"

\* A reader that still waits and that no other queued reader is to wake.
Top(h) ==
    /\ h \in Threads /\ Stacked(h) /\ rstatus[h] = "waiting"
    /\ \A t \in Threads : Stacked(t) /\ h \in below[t] => t = h

\* The queued readers form chains: below[t] is the chain that begins at t.
Chains ==
    \A t \in Threads : Stacked(t) =>
        /\ t \in below[t]
        /\ rnext[t] = NULL => below[t] = {t}
        /\ rnext[t] # NULL =>
              /\ rnext[t] \in Threads /\ Stacked(rnext[t])
              /\ t \notin below[rnext[t]]
              /\ below[t] = {t} \cup below[rnext[t]]

\* The chains have no reader in common, and of each chain only the first can
\* have been woken.
Apart ==
    \A t, u \in Threads :
        /\ Stacked(t) /\ u \in below[t] /\ u # t => Stacked(u) /\ rstatus[u] = "waiting"
        /\ Stacked(t) /\ Stacked(u) /\ below[t] \cap below[u] # {} =>
              t \in below[u] \/ u \in below[t]
        /\ Stacked(t) /\ Stacked(u) /\ t \in below[u] /\ u \in below[t] => t = u

\* Where the chains begin that nobody has been woken of, and whose readers do
\* the unblocking.
Tops ==
    /\ reader_head # NULL => Top(reader_head)
    /\ \A t \in Threads :
        /\ pc[t] = "b_wake" =>
              /\ Top(node[t]) /\ node[t] # reader_head
              /\ back[t] = "r_spin" => t \in below[node[t]]
        /\ Opening(t) /\ Stacked(t) => t \in below[reader_head]
    /\ \A t, u \in Threads :
        pc[t] = "b_wake" /\ pc[u] = "b_wake" /\ node[t] = node[u] => t = u

GroupsApart == Chains /\ Apart /\ Tops

\* The inductive invariant.
IInv ==
    /\ TypeOK /\ Local /\ WritersInLine /\ HeadExact /\ FlagsExact /\ ReadersAnnounced
    /\ GroupsApart /\ CountExact

\* What the word, the queue and the stack say of the threads: who is counted, who
\* is in charge, who is to be woken; and no node is written to after its thread
\* has gone.
Bookkeeping == IInv /\ NodesAlive

-----------------------------------------------------------------------------
(* Refinement. *)

mode == [t \in Threads |->
            IF pc[t] = "reading" THEN "read"
            ELSE IF pc[t] = "writing" THEN "write" ELSE "none"]

RW == INSTANCE RWLock WITH kept <- [t \in Threads |-> FALSE]

\* The lock is a reader-writer lock (without upgrades).
RefinesRWLock == RW!LockSpec

-----------------------------------------------------------------------------
(* Liveness. *)

\* Writer preference: a writer that called lock() gets in although readers
\* and other writers come and go for ever.  The exception are calls of
\* try_lock_read: each counts itself in before it fails, and a writer that reads
\* the count only at such moments never sees it at zero.
WritersGetIn ==
    <>[](\A t \in Threads : pc[t] # "tr_undo") =>
        \A t \in Writers : pc[t] = "w_swap" ~> pc[t] = "writing"

=============================================================================
