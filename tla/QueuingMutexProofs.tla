-------------------------- MODULE QueuingMutexProofs --------------------------
(***************************************************************************)
(* tbb::queuing_mutex for any set of threads: the nodes form the queue of  *)
(* the waiting threads, the lock is exclusive, and no thread writes to a   *)
(* node that has left the queue.                                           *)
(***************************************************************************)
EXTENDS QueuingMutex, TLAPS

LEMMA InitInv == Init => IInv
BY NullAssumption
DEF Init, IInv, TypeOK, OrderIsQueue, Linked, HeadOwns, Fresh, SuccessorKnown,
    Locs, QueueLocs, OwnerLocs, ReleaseLocs

LEMMA EmptySeqLen == \A s : s = << >> => Len(s) = 0
OBVIOUS

\* The ghost queue when a thread joins and when its head leaves.
LEMMA OrderAppend ==
    ASSUME order \in Seq(Threads), NEW t \in Threads, order' = Append(order, t)
    PROVE  /\ order' \in Seq(Threads) /\ order' # << >>
           /\ Len(order) \in Nat /\ Len(order') = Len(order) + 1
           /\ order'[Len(order')] = t
           /\ \A i \in 1 .. Len(order) : order'[i] = order[i]
OBVIOUS

LEMMA OrderTail ==
    ASSUME order \in Seq(Threads), order # << >>, order' = Tail(order)
    PROVE  /\ order' \in Seq(Threads)
           /\ Len(order) \in Nat /\ Len(order') = Len(order) - 1
           /\ \A i \in 1 .. Len(order') : order'[i] = order[i + 1]
           /\ Len(order) > 1 => order' # << >>
<1>1. /\ order' \in Seq(Threads)
      /\ Len(order) \in Nat /\ Len(order') = Len(order) - 1
      /\ \A i \in 1 .. Len(order') : order'[i] = order[i + 1]
    OBVIOUS
<1>2. order' = << >> => Len(order') = 0
    BY Zenon, EmptySeqLen
<1> QED BY <1>1, <1>2


\* The owner of the lock is the head of the queue.
LEMMA OwnerIsHead ==
    ASSUME IInv, NEW t \in Threads, pc[t] \in OwnerLocs
    PROVE  order # << >> /\ order[1] = t
BY DEF IInv, TypeOK, OrderIsQueue, HeadOwns, OwnerLocs, ReleaseLocs, QueueLocs

LEMMA StepInv == IInv /\ [Next]_vars => IInv'
<1> SUFFICES ASSUME IInv, [Next]_vars PROVE IInv'
    OBVIOUS
<1> USE NullAssumption
<1> USE DEF IInv, TypeOK, Locs, QueueLocs, OwnerLocs, ReleaseLocs, Goto
<1>1. ASSUME NEW t \in Threads, Acquire(t) \/ TryAcquire(t) PROVE IInv'
    <2> USE <1>1 DEF Acquire, TryAcquire, ResetNode
    <2>1. \A i \in 1 .. Len(order) : order[i] # t /\ order[i] \in Threads
        BY DEF OrderIsQueue
    <2>4. TypeOK'
        BY <2>1
    <2>5. OrderIsQueue'
        BY <2>1 DEF OrderIsQueue
    <2>6. Linked'
        BY <2>1 DEF OrderIsQueue, Linked, Fresh, HeadOwns
    <2>7. HeadOwns'
        BY <2>1 DEF OrderIsQueue, Linked, Fresh, HeadOwns
    <2>8. Fresh' /\ SuccessorKnown'
        BY <2>1 DEF OrderIsQueue, Linked, Fresh, SuccessorKnown, HeadOwns
    <2> QED BY <2>4, <2>5, <2>6, <2>7, <2>8
<1>2. ASSUME NEW t \in Threads, Swap(t) PROVE IInv'
    <2> USE <1>2 DEF Swap
    <2>1. \A i \in 1 .. Len(order) : order[i] # t /\ order[i] \in Threads
        BY DEF OrderIsQueue
    <2>2. /\ order' \in Seq(Threads) /\ order' # << >>
          /\ Len(order) \in Nat /\ Len(order') = Len(order) + 1
          /\ order'[Len(order')] = t
          /\ \A i \in 1 .. Len(order) : order'[i] = order[i]
        BY OrderAppend
    <2>4. TypeOK'
        BY <2>1, <2>2
    <2>5. OrderIsQueue'
        BY <2>1, <2>2 DEF OrderIsQueue
    <2>6. Linked'
        BY <2>1, <2>2 DEF OrderIsQueue, Linked, Fresh, HeadOwns
    <2>7. HeadOwns'
        BY <2>1, <2>2 DEF OrderIsQueue, Linked, Fresh, HeadOwns
    <2>8. Fresh' /\ SuccessorKnown'
        BY <2>1, <2>2 DEF OrderIsQueue, Linked, Fresh, SuccessorKnown, HeadOwns
    <2> QED BY <2>4, <2>5, <2>6, <2>7, <2>8
<1>3. ASSUME NEW t \in Threads, Link(t) PROVE IInv'
    <2> USE <1>3 DEF Link
    <2>1. PICK k \in 1 .. Len(order) - 1 : order[k + 1] = t /\ order[k] = pred[t]
        <3>1. PICK j \in 1 .. Len(order) : order[j] = t
            BY DEF OrderIsQueue
        <3>2. j # 1
            BY <3>1 DEF HeadOwns
        <3>3. j - 1 \in 1 .. Len(order) - 1 /\ order[(j - 1) + 1] = t
            BY <3>1, <3>2
        <3>4. order[j - 1] = pred[t]
            BY <3>3 DEF Linked
        <3> QED BY <3>3, <3>4
    <2>4. TypeOK'
        BY <2>1
    <2>5. OrderIsQueue'
        BY <2>1 DEF OrderIsQueue
    <2>6. Linked'
        BY <2>1 DEF OrderIsQueue, Linked, Fresh, HeadOwns
    <2>7. HeadOwns'
        BY <2>1 DEF OrderIsQueue, Linked, Fresh, HeadOwns
    <2>8. Fresh' /\ SuccessorKnown'
        BY <2>1 DEF OrderIsQueue, Linked, Fresh, SuccessorKnown, HeadOwns
    <2> QED BY <2>4, <2>5, <2>6, <2>7, <2>8
<1>4. ASSUME NEW t \in Threads, Spin(t) PROVE IInv'
    <2> USE <1>4 DEF Spin
    <2>1. order # << >> /\ order[1] = t
        BY DEF OrderIsQueue, HeadOwns
    <2>4. TypeOK'
        BY <2>1
    <2>5. OrderIsQueue'
        BY <2>1 DEF OrderIsQueue
    <2>6. Linked'
        BY <2>1 DEF OrderIsQueue, Linked, Fresh, HeadOwns
    <2>7. HeadOwns'
        BY <2>1 DEF OrderIsQueue, Linked, Fresh, HeadOwns
    <2>8. Fresh' /\ SuccessorKnown'
        BY <2>1 DEF OrderIsQueue, Linked, Fresh, SuccessorKnown, HeadOwns
    <2> QED BY <2>4, <2>5, <2>6, <2>7, <2>8
<1>5. ASSUME NEW t \in Threads, TryCAS(t) PROVE IInv'
    <2> USE <1>5 DEF TryCAS
    <2>1. \A i \in 1 .. Len(order) : order[i] # t /\ order[i] \in Threads
        BY DEF OrderIsQueue
    <2>a. CASE q_tail = NULL
        <3>1. order = << >>
            BY <2>a DEF Linked
        <3>2. order' = <<t>> /\ q_tail' = t /\ pc'[t] = "held"
            BY <2>a, <3>1
        <3> QED
            BY <2>a, <3>1, <3>2 DEF OrderIsQueue, Linked, Fresh, HeadOwns, SuccessorKnown
    <2>b. CASE q_tail # NULL
        BY <2>1, <2>b DEF OrderIsQueue, Linked, Fresh, HeadOwns, SuccessorKnown
    <2> QED BY <2>a, <2>b
<1>6. ASSUME NEW t \in Threads, Release(t) \/ CheckNext(t) \/ AwaitNext(t) PROVE IInv'
    <2> USE <1>6 DEF Release, CheckNext, AwaitNext
    <2>1. order # << >> /\ order[1] = t
        BY OwnerIsHead
    <2>4. TypeOK'
        BY <2>1
    <2>5. OrderIsQueue'
        BY <2>1 DEF OrderIsQueue
    <2>6. Linked'
        BY <2>1 DEF OrderIsQueue, Linked, Fresh, HeadOwns
    <2>7. HeadOwns'
        BY <2>1 DEF OrderIsQueue, Linked, Fresh, HeadOwns
    <2>8. Fresh' /\ SuccessorKnown'
        BY <2>1 DEF OrderIsQueue, Linked, Fresh, SuccessorKnown, HeadOwns
    <2> QED BY <2>4, <2>5, <2>6, <2>7, <2>8
<1>7. ASSUME NEW t \in Threads, ReleaseCAS(t) PROVE IInv'
    <2> USE <1>7 DEF ReleaseCAS
    <2>1. order # << >> /\ order[1] = t
        BY OwnerIsHead
    <2>a. CASE q_tail = t
        <3>1. Len(order) = 1
            <4>1. 1 \in 1 .. Len(order) /\ Len(order) \in 1 .. Len(order)
                BY <2>1
            <4>2. order[Len(order)] = order[1]
                BY <2>1, <2>a DEF Linked
            <4> QED BY <4>1, <4>2 DEF OrderIsQueue
        <3>2. order' \in Seq(Threads) /\ Len(order') = 0 /\ order' = << >>
            BY <2>1, <2>a, <3>1, OrderTail
        <3>3. q_tail' = NULL /\ pc'[t] = "idle"
            BY <2>a
        <3>4. \A u \in Threads : pc'[u] \notin QueueLocs
            BY <2>1, <2>a, <3>1, <3>3 DEF OrderIsQueue
        <3>5. OrderIsQueue' /\ Linked' /\ HeadOwns'
            BY <3>2, <3>3, <3>4 DEF OrderIsQueue, Linked, HeadOwns
        <3> QED
            BY <2>a, <3>2, <3>3, <3>4, <3>5 DEF Fresh, SuccessorKnown
    <2>b. CASE q_tail # t
        <3>1. Len(order) > 1
            BY <2>1, <2>b DEF Linked
        <3> QED
            BY <2>1, <2>b, <3>1
            DEF OrderIsQueue, Linked, Fresh, HeadOwns, SuccessorKnown
    <2> QED BY <2>a, <2>b
<1>8. ASSUME NEW t \in Threads, Give(t) PROVE IInv'
    <2> USE <1>8 DEF Give
    <2>1. order # << >> /\ order[1] = t
        BY OwnerIsHead
    <2>2. /\ order' \in Seq(Threads)
          /\ Len(order) \in Nat /\ Len(order') = Len(order) - 1
          /\ \A i \in 1 .. Len(order') : order'[i] = order[i + 1]
        BY <2>1, OrderTail
    <2>3. Len(order) > 1 /\ order[2] = next[t] /\ pc[order[2]] = "spin"
        BY <2>1 DEF Linked, SuccessorKnown, HeadOwns
    <2>4. TypeOK'
        BY <2>1, <2>2, <2>3
    <2>5. OrderIsQueue'
        <3>1. \A i \in 1 .. Len(order') : order'[i] # t
            BY <2>1, <2>2 DEF OrderIsQueue
        <3>2. \A u \in Threads \ {t} :
                 (\E i \in 1 .. Len(order) : order[i] = u)
                    <=> (\E i \in 1 .. Len(order') : order'[i] = u)
            <4> SUFFICES ASSUME NEW u \in Threads \ {t}
                         PROVE  (\E i \in 1 .. Len(order) : order[i] = u)
                                   <=> (\E i \in 1 .. Len(order') : order'[i] = u)
                OBVIOUS
            <4>1. ASSUME NEW i \in 1 .. Len(order), order[i] = u
                  PROVE  \E j \in 1 .. Len(order') : order'[j] = u
                <5>1. i - 1 \in 1 .. Len(order') /\ order'[i - 1] = u
                    BY <2>1, <2>2, <4>1
                <5> QED BY <5>1
            <4>2. ASSUME NEW j \in 1 .. Len(order'), order'[j] = u
                  PROVE  \E i \in 1 .. Len(order) : order[i] = u
                BY <2>2, <4>2
            <4> QED BY <4>1, <4>2
        <3>3. \A u \in Threads :
                 pc'[u] \in QueueLocs
                    <=> \E i \in 1 .. Len(order') : order'[i] = u
            BY <2>1, <3>1, <3>2 DEF OrderIsQueue
        <3>4. \A i, j \in 1 .. Len(order') : order'[i] = order'[j] => i = j
            BY <2>2 DEF OrderIsQueue
        <3> QED BY <3>3, <3>4 DEF OrderIsQueue
    <2>6. Linked'
        <3>0. /\ Len(order') \in 1 .. Len(order')
              /\ Len(order') + 1 = Len(order)
            BY <2>2, <2>3
        <3>1. order'[Len(order')] = order[Len(order)]
            <4>1. order'[Len(order')] = order[Len(order') + 1]
                BY <2>2, <3>0
            <4> QED BY <4>1, <3>0
        <3>3. order' # << >>
            BY <2>1, <2>3, OrderTail
        <3>2. ASSUME NEW i \in 1 .. Len(order') - 1
              PROVE  IF pc'[order'[i + 1]] = "link"
                     THEN pred'[order'[i + 1]] = order'[i] /\ next'[order'[i]] = NULL
                     ELSE next'[order'[i]] = order'[i + 1]
            <4>1. /\ i + 1 \in 1 .. Len(order) - 1
                  /\ order'[i] = order[i + 1] /\ order'[i + 1] = order[(i + 1) + 1]
                BY <2>2
            <4>2. order[(i + 1) + 1] # t
                BY <2>1, <4>1 DEF OrderIsQueue
            <4> QED BY <4>1, <4>2 DEF Linked
        <3> QED BY <2>3, <3>1, <3>2, <3>3 DEF Linked
    <2>7. HeadOwns'
        BY <2>1, <2>2, <2>3 DEF OrderIsQueue, Linked, Fresh, HeadOwns
    <2>8. Fresh' /\ SuccessorKnown'
        BY <2>1, <2>2, <2>3 DEF OrderIsQueue, Linked, Fresh, SuccessorKnown, HeadOwns
    <2> QED BY <2>4, <2>5, <2>6, <2>7, <2>8
<1>9. CASE UNCHANGED vars
    BY <1>9 DEF vars, OrderIsQueue, Linked, Fresh, HeadOwns, SuccessorKnown
<1> QED
    BY <1>1, <1>2, <1>3, <1>4, <1>5, <1>6, <1>7, <1>8, <1>9 DEF Next, Step

\* In every reachable state the nodes form the queue of the waiting threads.
THEOREM Invariant == Spec => []IInv
<1> QED BY InitInv, StepInv, PTL DEF Spec

\* At most one thread is between acquiring the lock and handing it over.
THEOREM Exclusive == Spec => []MutualExclusion
<1>1. IInv => MutualExclusion
    BY OwnerIsHead DEF MutualExclusion
<1> QED BY <1>1, Invariant, PTL

\* No thread writes to a scoped_lock that has left the queue.
THEOREM NodesStayAlive == Spec => []NodesAlive
<1>1. IInv => NodesAlive
    <2> SUFFICES ASSUME IInv, NEW t \in Threads
                 PROVE  /\ pc[t] = "link" => /\ pc[pred[t]] \in QueueLocs
                                             /\ next[pred[t]] = NULL
                        /\ pc[t] = "give" => /\ next[t] # NULL
                                             /\ pc[next[t]] = "spin"
                                             /\ ~going[next[t]]
        BY DEF NodesAlive
    <2> USE DEF IInv, TypeOK, OwnerLocs, ReleaseLocs, QueueLocs
    <2>1. CASE pc[t] = "link"
        <3>1. PICK j \in 1 .. Len(order) : order[j] = t
            BY <2>1 DEF OrderIsQueue
        <3>2. j # 1
            BY <2>1, <3>1 DEF HeadOwns
        <3>3. j - 1 \in 1 .. Len(order) - 1 /\ order[(j - 1) + 1] = t
            BY <3>1, <3>2
        <3>4. order[j - 1] = pred[t] /\ next[order[j - 1]] = NULL
            BY <2>1, <3>3 DEF Linked
        <3> QED BY <2>1, <3>3, <3>4 DEF OrderIsQueue
    <2>2. CASE pc[t] = "give"
        <3>1. order # << >> /\ order[1] = t
            BY <2>2, OwnerIsHead
        <3>2. Len(order) > 1 /\ next[t] # NULL
            BY <2>2, <3>1 DEF SuccessorKnown, Linked
        <3>4. 1 \in 1 .. Len(order) - 1 /\ order[1 + 1] = order[2]
            BY <3>2
        <3>5. next[t] = order[2]
            BY <3>1, <3>2, <3>4 DEF Linked
        <3>3. pc[order[2]] = "spin" /\ ~going[order[2]]
            BY <3>2, <3>1, NullAssumption, <2>2 DEF HeadOwns, Linked
        <3> QED BY <2>2, <3>2, <3>3, <3>5
    <2> QED BY <2>1, <2>2
<1> QED BY <1>1, Invariant, PTL

-----------------------------------------------------------------------------
(* The queue implements the fair mutex. *)

\* The abstract line when the head of the queue is releasing and when not; the
\* thread behind the head is not inside.
LEMMA LineReleasing ==
    ASSUME NEW nodes \in Seq(Threads), NEW at, nodes # << >>,
           at[nodes[1]] \in ReleaseLocs,
           Len(nodes) > 1 => at[nodes[2]] # "held"
    PROVE  /\ LineOf(nodes, at) = Tail(nodes)
           /\ ~InsideOf(LineOf(nodes, at), at)
<1>1. LineOf(nodes, at) = Tail(nodes)
    BY DEF LineOf
<1>2. ASSUME Tail(nodes) # << >> PROVE at[Head(Tail(nodes))] # "held"
    <2>1. Len(nodes) > 1 /\ Head(Tail(nodes)) = nodes[2]
        BY <1>2
    <2> QED BY <2>1
<1> QED BY <1>1, <1>2 DEF InsideOf

LEMMA LineWaiting ==
    ASSUME NEW nodes \in Seq(Threads), NEW at,
           nodes = << >> \/ at[nodes[1]] \notin ReleaseLocs
    PROVE  /\ LineOf(nodes, at) = nodes
           /\ InsideOf(LineOf(nodes, at), at)
                <=> (nodes # << >> /\ at[nodes[1]] = "held")
BY DEF LineOf, InsideOf

\* What the invariant says about the two first threads of the queue.
LEMMA Front ==
    ASSUME IInv
    PROVE  /\ order \in Seq(Threads) /\ pc \in [Threads -> Locs]
           /\ Len(order) > 1 => pc[order[2]] \in {"link", "spin"}
           /\ order # << >> => pc[order[1]] \in {"spin"} \cup OwnerLocs
           /\ \A t \in Threads : pc[t] \notin QueueLocs =>
                 \A i \in 1 .. Len(order) : order[i] # t
           /\ q_tail = NULL <=> order = << >>
BY NullAssumption DEF IInv, TypeOK, HeadOwns, OrderIsQueue, Linked

\* Every step of the queue is a step of the fair mutex or leaves it alone.
LEMMA StepRefines ==
    IInv /\ IInv' /\ [Next]_vars => [Fair!FairNext]_(Fair!fairVars)
<1> SUFFICES ASSUME IInv, IInv', [Next]_vars
             PROVE  [Fair!FairNext]_(Fair!fairVars)
    OBVIOUS
<1> USE NullAssumption DEF Fair!fairVars
<1>1. /\ order \in Seq(Threads) /\ pc \in [Threads -> Locs]
      /\ Len(order) > 1 => pc[order[2]] \in {"link", "spin"}
      /\ order # << >> => pc[order[1]] \in {"spin"} \cup OwnerLocs
      /\ \A t \in Threads : pc[t] \notin QueueLocs =>
            \A i \in 1 .. Len(order) : order[i] # t
      /\ q_tail = NULL <=> order = << >>
    BY Front
<1>2. /\ order' \in Seq(Threads) /\ pc' \in [Threads -> Locs]
      /\ Len(order') > 1 => pc'[order'[2]] \in {"link", "spin"}
    BY DEF IInv, TypeOK, HeadOwns
<1>3. /\ line = LineOf(order, pc) /\ inside = InsideOf(LineOf(order, pc), pc)
      /\ line' = LineOf(order', pc') /\ inside' = InsideOf(LineOf(order', pc'), pc')
    BY DEF line, inside
<1> USE DEF OwnerLocs, ReleaseLocs, QueueLocs, Goto
\* The queue stays as it is, and so does what its head is up to.
<1>4. ASSUME order' = order,
             order # << >> =>
                /\ pc'[order[1]] \in ReleaseLocs <=> pc[order[1]] \in ReleaseLocs
                /\ pc'[order[1]] = "held" <=> pc[order[1]] = "held"
      PROVE  UNCHANGED Fair!fairVars
    <2>1. CASE order # << >> /\ pc[order[1]] \in ReleaseLocs
        BY <1>1, <1>2, <1>3, <1>4, <2>1, LineReleasing DEF InsideOf
    <2>2. CASE order = << >> \/ pc[order[1]] \notin ReleaseLocs
        BY <1>1, <1>2, <1>3, <1>4, <2>2, LineWaiting DEF InsideOf
    <2> QED BY <2>1, <2>2
<1>5. ASSUME NEW t \in Threads, Acquire(t) \/ TryAcquire(t)
      PROVE  UNCHANGED Fair!fairVars
    BY <1>1, <1>4, <1>5 DEF Acquire, TryAcquire
<1>6. ASSUME NEW t \in Threads, Link(t) \/ CheckNext(t) \/ AwaitNext(t)
      PROVE  UNCHANGED Fair!fairVars
    <2>1. pc[t] = "link" => (order # << >> => order[1] # t)
        BY <1>1
    <2> QED BY <1>1, <1>4, <1>6, <2>1 DEF Link, CheckNext, AwaitNext
\* Joining an empty queue, by a fetch_and_store or by a try.
<1>7. ASSUME NEW t \in Threads, order = << >>, order' = <<t>>, pc'[t] = "held"
      PROVE  Fair!AskAndEnter(t)
    <2>1. line = << >>
        BY <1>3, <1>7, <1>1, LineWaiting
    <2>2. order'[1] = t /\ order' # << >>
        BY <1>7
    <2>3. line' = <<t>> /\ inside' = TRUE
        BY <1>2, <1>3, <1>7, <2>2, LineWaiting DEF InsideOf
    <2> QED BY <2>1, <2>3 DEF Fair!AskAndEnter
<1>8. ASSUME NEW t \in Threads, Swap(t) PROVE Fair!FairNext
    <2>1. CASE q_tail = NULL
        BY <1>1, <1>7, <1>8, <2>1 DEF Swap, Fair!FairNext
    <2>2. CASE q_tail # NULL
        <3>1. /\ order # << >> /\ order' = Append(order, t)
              /\ order'[1] = order[1] /\ order' # << >>
              /\ pc' = [pc EXCEPT ![t] = "link"] /\ order[1] # t
              /\ order[1] \in Threads
            BY <1>1, <1>8, <2>2 DEF Swap
        <3>4. pc'[order'[1]] = pc[order[1]]
            BY <1>1, <3>1
        <3>5. Len(order) > 1 => pc[order[2]] # "held"
            BY <1>1
        <3>6. Len(order') > 1 => pc'[order'[2]] # "held"
            BY <1>2
        <3>2. CASE pc[order[1]] \in ReleaseLocs
            <4>1. line = Tail(order) /\ line' = Tail(order')
                BY <1>1, <1>2, <1>3, <3>1, <3>2, <3>4, <3>5, <3>6, LineReleasing
            <4>2. Tail(order') = Append(Tail(order), t)
                BY <1>1, <3>1
            <4>3. inside' = inside
                BY <1>1, <1>2, <1>3, <3>1, <3>2, <3>4, <3>5, <3>6, LineReleasing
                DEF InsideOf
            <4>4. \A i \in 1 .. Len(line) : line[i] # t
                <5>1. \A i \in 1 .. Len(order) : order[i] # t
                    BY <1>1, <1>8 DEF Swap
                <5>2. \A i \in 1 .. Len(line) :
                         i + 1 \in 1 .. Len(order) /\ line[i] = order[i + 1]
                    BY <1>1, <3>1, <4>1
                <5> QED BY <5>1, <5>2
            <4> QED
                BY <4>1, <4>2, <4>3, <4>4
                DEF Fair!FairNext, Fair!Ask, Fair!InLine
        <3>3. CASE pc[order[1]] \notin ReleaseLocs
            <4>1. line = order /\ line' = order'
                BY <1>1, <1>2, <1>3, <3>1, <3>3, <3>4, LineWaiting
            <4>2. inside' = inside
                <5>1. InsideOf(LineOf(order, pc), pc) <=> pc[order[1]] = "held"
                    BY <1>1, <3>1, <3>3, LineWaiting
                <5>2. InsideOf(LineOf(order', pc'), pc') <=> pc'[order'[1]] = "held"
                    BY <1>2, <3>1, <3>3, <3>4, LineWaiting
                <5> QED BY <1>3, <3>4, <5>1, <5>2 DEF InsideOf
            <4>3. \A i \in 1 .. Len(line) : line[i] # t
                BY <1>1, <1>8, <4>1 DEF Swap
            <4> QED
                BY <3>1, <4>1, <4>2, <4>3
                DEF Fair!FairNext, Fair!Ask, Fair!InLine
        <3> QED BY <3>2, <3>3
    <2> QED BY <2>1, <2>2
<1>9. ASSUME NEW t \in Threads, Spin(t) PROVE Fair!Enter(t)
    <2>1. order # << >> /\ order[1] = t
        BY <1>9 DEF Spin, IInv, TypeOK, OrderIsQueue, HeadOwns
    <2>3. pc[order[1]] = "spin" /\ order' = order /\ pc'[order[1]] = "held"
        BY <1>1, <1>9, <2>1 DEF Spin
    <2>2. /\ line = order /\ line' = order
          /\ inside = FALSE /\ inside' = TRUE
        BY <1>1, <1>2, <1>3, <2>1, <2>3, LineWaiting DEF InsideOf
    <2> QED BY <1>1, <2>1, <2>2 DEF Fair!Enter
<1>10. ASSUME NEW t \in Threads, TryCAS(t)
       PROVE  [Fair!FairNext]_(Fair!fairVars)
    <2>1. CASE q_tail = NULL
        BY <1>1, <1>7, <1>10, <2>1 DEF TryCAS, Fair!FairNext
    <2>2. CASE q_tail # NULL
        BY <1>1, <1>4, <1>10, <2>2 DEF TryCAS
    <2> QED BY <2>1, <2>2
<1>11. ASSUME NEW t \in Threads, Release(t) PROVE Fair!Leave(t)
    <2>1. order # << >> /\ order[1] = t
        BY <1>11, OwnerIsHead DEF Release
    <2>2. line = order /\ inside = TRUE
        BY <1>1, <1>3, <1>11, <2>1, LineWaiting DEF Release, InsideOf
    <2>3. line' = Tail(order) /\ inside' = FALSE
        BY <1>1, <1>2, <1>3, <1>11, <2>1, LineReleasing DEF Release, InsideOf
    <2> QED BY <1>1, <2>1, <2>2, <2>3 DEF Fair!Leave
\* A release that is over: the abstract thread had left before.
<1>12. ASSUME NEW t \in Threads, pc[t] \in ReleaseLocs, order' = Tail(order),
              order' # << >> => pc'[order'[1]] = "spin"
       PROVE  UNCHANGED Fair!fairVars
    <2>1. order # << >> /\ order[1] = t
        BY <1>12, OwnerIsHead
    <2>2. line = Tail(order) /\ inside = FALSE
        BY <1>1, <1>3, <1>12, <2>1, LineReleasing DEF InsideOf
    <2>3. line' = order' /\ inside' = FALSE
        BY <1>2, <1>3, <1>12, LineWaiting DEF InsideOf
    <2> QED BY <1>12, <2>2, <2>3
<1>13. ASSUME NEW t \in Threads, ReleaseCAS(t) PROVE UNCHANGED Fair!fairVars
    <2>1. CASE q_tail = t
        <3>1. order # << >> /\ order[1] = t
            BY <1>13, OwnerIsHead DEF ReleaseCAS
        <3>2. 1 \in 1 .. Len(order) /\ Len(order) \in 1 .. Len(order)
            BY <1>1, <3>1
        <3>3. order[Len(order)] = t
            BY <2>1, <3>1 DEF IInv, Linked
        <3>6. order[Len(order)] = order[1]
            BY <3>1, <3>3
        <3>7. \A i, j \in 1 .. Len(order) : order[i] = order[j] => i = j
            BY DEF IInv, OrderIsQueue
        <3>4. Len(order) = 1
            BY <3>2, <3>6, <3>7
        <3>5. order' = Tail(order) /\ order' = << >>
            BY <1>1, <1>13, <2>1, <3>4 DEF ReleaseCAS
        <3> QED BY <1>12, <1>13, <3>5 DEF ReleaseCAS
    <2>2. CASE q_tail # t
        BY <1>1, <1>4, <1>13, <2>2 DEF ReleaseCAS
    <2> QED BY <2>1, <2>2
<1>14. ASSUME NEW t \in Threads, Give(t) PROVE UNCHANGED Fair!fairVars
    <2>1. order # << >> /\ order[1] = t
        BY <1>14, OwnerIsHead DEF Give
    <2>2. ASSUME order' # << >> PROVE pc'[order'[1]] = "spin"
        <3>1. Len(order) > 1 /\ order'[1] = order[2]
            BY <1>1, <1>14, <2>1, <2>2 DEF Give
        <3>2. 1 \in 1 .. Len(order) - 1 /\ 2 \in 1 .. Len(order) /\ order[1 + 1] = order[2]
            BY <1>1, <3>1
        <3>3. pc[order[2]] = "spin"
            BY <1>1, <1>14, <2>1, <3>1, <3>2
            DEF Give, IInv, SuccessorKnown, Linked
        <3> QED BY <1>1, <1>14, <3>1, <3>3 DEF Give
    <2> QED BY <1>12, <1>14, <2>2 DEF Give
<1>15. CASE UNCHANGED vars
    BY <1>15, <1>4 DEF vars
<1> QED
    BY <1>5, <1>6, <1>8, <1>9, <1>10, <1>11, <1>13, <1>14, <1>15
    DEF Next, Step, Fair!FairNext

\* queuing_mutex is fair: it implements the mutex in which threads enter one
\* at a time in the order of their fetch_and_store.
THEOREM Refinement == Spec => RefinesFairMutex
<1>1. Init => Fair!FairInit
    BY DEF Init, Fair!FairInit, line, inside, LineOf, InsideOf
<1>2. IInv /\ IInv' /\ [Next]_vars => [Fair!FairNext]_(Fair!fairVars)
    BY StepRefines
<1> QED
    BY <1>1, <1>2, Invariant, PTL DEF Spec, RefinesFairMutex, Fair!FairLockSpec

=============================================================================
