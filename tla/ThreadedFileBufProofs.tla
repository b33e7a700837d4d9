------------------------ MODULE ThreadedFileBufProofs ------------------------
(***************************************************************************)
(* pangolin::threadedfilebuf for any buffer and any lengths of writes: the *)
(* ring holds the bytes that are on their way, the file is written in      *)
(* order, and no wakeup of a thread that writes is lost.                   *)
(***************************************************************************)
EXTENDS ThreadedFileBuf, TLAPS

LEMMA InitInv == Init => IInv
<1> SUFFICES ASSUME Init PROVE IInv
    OBVIOUS
<1> USE SizesAssumption DEF Init, Gone
<1>1. TypeOK
    <2>1. mem_buffer \in [0 .. mem_max_size - 1 -> Nat]
        OBVIOUS
    <2>2. << >> \in Seq(Nat)
        OBVIOUS
    <2> QED BY <2>1, <2>2 DEF TypeOK, AppLocs, WriterLocs, Calling, Closing
<1>2. Control /\ NoLostWakeup /\ ChunkStays
    BY DEF Control, NoLostWakeup, ChunkStays, Calling, Closing
<1>3. Len(file) = 0
    OBVIOUS
<1>4. RingHoldsRest /\ FileInOrder
    BY <1>3 DEF RingHoldsRest, FileInOrder
<1> QED BY <1>1, <1>2, <1>4 DEF IInv

LEMMA Concat ==
    ASSUME NEW s \in Seq(Nat), NEW u \in Seq(Nat)
    PROVE  /\ Len(s \o u) = Len(s) + Len(u)
           /\ \A i \in 1 .. Len(s) + Len(u) :
                 (s \o u)[i] = IF i <= Len(s) THEN s[i] ELSE u[i - Len(s)]
OBVIOUS

\* What an action that leaves the ring, the stream and the file alone keeps.
LEMMA RingKept ==
    ASSUME IInv, UNCHANGED <<ring, sent, file>>, Gone' = Gone
    PROVE  RingHoldsRest' /\ FileInOrder'
<1>1. RingHoldsRest /\ FileInOrder
    BY DEF IInv
<1>2. \A i : Pos(i)' = Pos(i)
    BY DEF Pos, ring
<1> QED BY <1>1, <1>2 DEF RingHoldsRest, FileInOrder, ring

LEMMA StepInv == IInv /\ [Next]_vars => IInv'
<1> SUFFICES ASSUME IInv, [Next]_vars PROVE IInv'
    OBVIOUS
<1> USE SizesAssumption DEF IInv, ring, thread
<1>0. TypeOK /\ Control /\ RingHoldsRest /\ ChunkStays /\ FileInOrder /\ NoLostWakeup
    BY DEF IInv
<1>1. CASE Open
    <2> USE <1>1 DEF Open, NewBuffer
    <2>1. TypeOK'
        BY DEF TypeOK, AppLocs, WriterLocs, Calling, Closing, ChunkStays, Control, RingHoldsRest
    <2>2. (Control /\ NoLostWakeup)'
        BY DEF TypeOK, Control, NoLostWakeup, Calling, Closing, AppLocs, ChunkStays
    <2>3. ChunkStays'
        BY DEF TypeOK, Control, ChunkStays, RingHoldsRest
    <2>4. RingHoldsRest'
        BY DEF TypeOK, RingHoldsRest, ChunkStays, Control, Pos, Gone
    <2>5. FileInOrder'
        BY DEF TypeOK, FileInOrder, RingHoldsRest, ChunkStays, Pos, Gone
    <2> QED BY <2>1, <2>2, <2>3, <2>4, <2>5
<1>2. ASSUME NEW n \in Nat \ {0}, Overflow \/ XsPutN(n) PROVE IInv'
    <2> USE <1>2 DEF Overflow, XsPutN
    <2>1. TypeOK'
        <3>1. num_bytes' \in Nat /\ app' \in {"grow", "put"}
            OBVIOUS
        <3>2. UNCHANGED <<ring, should_run, thread, sent, file>>
            OBVIOUS
        <3> QED BY <3>1, <3>2 DEF TypeOK, AppLocs, WriterLocs, Calling, Closing
    <2>2. (Control /\ NoLostWakeup)'
        BY DEF TypeOK, Control, NoLostWakeup, Calling, Closing, AppLocs
    <2>3. ChunkStays'
        BY DEF ChunkStays
    <2>4. Gone' = Gone /\ UNCHANGED <<ring, sent, file>>
        BY DEF Gone
    <2> QED BY <2>1, <2>2, <2>3, <2>4, RingKept
<1>3. CASE Close
    <2> USE <1>3 DEF Close
    <2>1. TypeOK'
        BY DEF TypeOK, AppLocs, WriterLocs, Calling, Closing
    <2>2. (Control /\ NoLostWakeup)'
        BY DEF TypeOK, Control, NoLostWakeup, Calling, Closing, AppLocs
    <2>3. ChunkStays'
        BY DEF ChunkStays
    <2>4. Gone' = Gone /\ UNCHANGED <<ring, sent, file>>
        BY DEF Gone
    <2> QED BY <2>1, <2>2, <2>3, <2>4, RingKept
<1>4. CASE GrowWait \/ PutWait
    <2> USE <1>4 DEF GrowWait, PutWait, MutexFree
    <2>1. TypeOK'
        BY DEF TypeOK, AppLocs, WriterLocs, Calling, Closing
    <2>2. (Control /\ NoLostWakeup)'
        BY DEF TypeOK, Control, NoLostWakeup, Calling, Closing, AppLocs
    <2>3. ChunkStays'
        BY DEF ChunkStays
    <2>4. Gone' = Gone /\ UNCHANGED <<ring, sent, file>>
        BY DEF Gone
    <2> QED BY <2>1, <2>2, <2>3, <2>4, RingKept
<1>5. CASE Grow
    <2> USE <1>5 DEF Grow, NewBuffer, MutexFree
    <2>1. TypeOK'
        BY DEF TypeOK, AppLocs, WriterLocs, Calling, Closing, ChunkStays, Control, RingHoldsRest
    <2>2. (Control /\ NoLostWakeup)'
        BY DEF TypeOK, Control, NoLostWakeup, Calling, Closing, AppLocs, ChunkStays
    <2>3. ChunkStays'
        BY DEF TypeOK, Control, ChunkStays, RingHoldsRest
    <2>4. RingHoldsRest'
        BY DEF TypeOK, RingHoldsRest, ChunkStays, Control, Pos, Gone
    <2>5. FileInOrder'
        BY DEF TypeOK, FileInOrder, RingHoldsRest, ChunkStays, Pos, Gone
    <2> QED BY <2>1, <2>2, <2>3, <2>4, <2>5
<1>6. CASE Put
    <2> USE <1>6 DEF Put, CopyIn, ArrayA, MutexFree
    <2>1. TypeOK'
        BY DEF TypeOK, AppLocs, WriterLocs, Calling, Closing, ChunkStays, Control, RingHoldsRest
    <2>2. (Control /\ NoLostWakeup)'
        BY DEF TypeOK, Control, NoLostWakeup, Calling, Closing, AppLocs, ChunkStays
    <2>3. ChunkStays'
        BY DEF TypeOK, Control, ChunkStays, RingHoldsRest
    <2>4. RingHoldsRest'
        <3>1. /\ mem_start \in Nat /\ mem_end \in Nat /\ mem_size \in Nat
              /\ mem_max_size \in Nat \ {0} /\ num_bytes \in Nat /\ sent \in Nat
              /\ num_bytes > 0 /\ mem_size + num_bytes <= mem_max_size
              /\ mem_start < mem_max_size /\ mem_end < mem_max_size
              /\ mem_end = IF mem_start + mem_size < mem_max_size
                           THEN mem_start + mem_size
                           ELSE mem_start + mem_size - mem_max_size
              /\ Len(file) \in Nat /\ Gone \in Nat
              /\ sent + Gone = Len(file) + mem_size
            BY DEF TypeOK, Control, Calling, RingHoldsRest, Gone
        <3>2. /\ mem_size' = mem_size + num_bytes /\ mem_start' = mem_start
              /\ mem_max_size' = mem_max_size /\ file' = file
              /\ sent' = sent + num_bytes /\ Gone' = Gone
            BY DEF Gone
        <3>9. \A i \in 0 .. mem_max_size - 1 :
                 mem_buffer'[i] = IF mem_end <= i /\ i < mem_end + num_bytes
                                  THEN sent + 1 + i - mem_end
                                  ELSE IF ArrayA < num_bytes /\ i < num_bytes - ArrayA
                                       THEN sent + 1 + ArrayA + i
                                       ELSE mem_buffer[i]
            OBVIOUS
        <3>3. /\ mem_end' < mem_max_size
              /\ mem_end' = IF mem_start + mem_size' < mem_max_size
                            THEN mem_start + mem_size'
                            ELSE mem_start + mem_size' - mem_max_size
            BY <3>1, <3>2
        <3>6. RingHoldsRest
            OBVIOUS
        <3> HIDE <1>6 DEF Put, CopyIn, IInv, ring, thread, MutexFree
        <3>4. ASSUME NEW i \in 0 .. mem_size' - 1
              PROVE  mem_buffer'[Pos(i)] = Len(file) - Gone + i + 1
            <4>1. Pos(i) \in 0 .. mem_max_size - 1
                BY <3>1, <3>2, <3>4 DEF Pos
            <4>2. CASE i < mem_size
                <5>1. ~(mem_end <= Pos(i) /\ Pos(i) < mem_end + num_bytes)
                    BY <3>1, <3>4, <4>2 DEF Pos
                <5>2. ~(ArrayA < num_bytes /\ Pos(i) < num_bytes - ArrayA)
                    BY <3>1, <3>4, <4>2 DEF Pos
                <5>3. mem_buffer'[Pos(i)] = mem_buffer[Pos(i)]
                    BY <3>9, <4>1, <5>1, <5>2
                <5> QED BY <3>1, <3>4, <3>6, <4>2, <5>3 DEF RingHoldsRest
            <4>3. CASE i >= mem_size
                <5>1. CASE Pos(i) >= mem_end
                    <6>1. Pos(i) < mem_end + num_bytes /\ Pos(i) - mem_end = i - mem_size
                        BY <3>1, <3>2, <3>4, <4>3, <5>1 DEF Pos
                    <6>2. mem_buffer'[Pos(i)] = sent + 1 + Pos(i) - mem_end
                        BY <3>9, <4>1, <5>1, <6>1
                    <6> QED BY <3>1, <3>2, <3>4, <4>1, <6>1, <6>2
                <5>2. CASE Pos(i) < mem_end
                    <6>1. /\ ArrayA < num_bytes /\ Pos(i) < num_bytes - ArrayA
                          /\ ArrayA + Pos(i) = i - mem_size
                        BY <3>1, <3>2, <3>4, <4>3, <5>2 DEF Pos
                    <6>2. mem_buffer'[Pos(i)] = sent + 1 + ArrayA + Pos(i)
                        BY <3>1, <3>9, <4>1, <5>2, <6>1
                    <6>3. ArrayA \in Int /\ Pos(i) \in Int
                        BY <3>1, <4>1
                    <6> QED BY <3>1, <3>2, <3>4, <6>1, <6>2, <6>3
                <5> QED BY <3>1, <4>1, <5>1, <5>2
            <4> QED BY <3>1, <3>4, <4>2, <4>3
        <3>5. Pos(0)' = Pos(0) /\ \A i : Pos(i)' = Pos(i)
            BY <3>2 DEF Pos
        <3>7. RingHoldsRest' <=>
                 /\ mem_start' < mem_max_size' /\ mem_end' < mem_max_size'
                 /\ mem_size' <= mem_max_size'
                 /\ mem_end' = IF mem_start' + mem_size' < mem_max_size'
                               THEN mem_start' + mem_size'
                               ELSE mem_start' + mem_size' - mem_max_size'
                 /\ sent' + Gone' = Len(file') + mem_size'
                 /\ \A i \in 0 .. mem_size' - 1 :
                       mem_buffer'[Pos(i)'] = Len(file') - Gone' + i + 1
            BY DEF RingHoldsRest
        <3> QED BY <3>1, <3>2, <3>3, <3>4, <3>5, <3>7
    <2>5. FileInOrder'
        BY DEF TypeOK, FileInOrder, RingHoldsRest, ChunkStays, Pos, Gone
    <2> QED BY <2>1, <2>2, <2>3, <2>4, <2>5
<1>7. CASE Queued
    <2> USE <1>7 DEF Queued, NotifyQueued
    <2>1. TypeOK'
        BY DEF TypeOK, AppLocs, WriterLocs, Calling, Closing
    <2>2. (Control /\ NoLostWakeup)'
        BY DEF TypeOK, Control, NoLostWakeup, Calling, Closing, AppLocs
    <2>3. ChunkStays'
        BY DEF ChunkStays
    <2>4. Gone' = Gone /\ UNCHANGED <<ring, sent, file>>
        BY DEF Gone
    <2> QED BY <2>1, <2>2, <2>3, <2>4, RingKept
<1>8. CASE CloseNotify
    <2> USE <1>8 DEF CloseNotify, NotifyQueued
    <2>1. TypeOK'
        BY DEF TypeOK, AppLocs, WriterLocs, Calling, Closing
    <2>2. (Control /\ NoLostWakeup)'
        BY DEF TypeOK, Control, NoLostWakeup, Calling, Closing, AppLocs
    <2>3. ChunkStays'
        BY DEF ChunkStays
    <2>4. Gone' = Gone /\ UNCHANGED <<ring, sent, file>>
        BY DEF Gone
    <2> QED BY <2>1, <2>2, <2>3, <2>4, RingKept
<1>9. CASE Join
    <2> USE <1>9 DEF Join
    <2>1. TypeOK'
        BY DEF TypeOK, AppLocs, WriterLocs, Calling, Closing
    <2>2. (Control /\ NoLostWakeup)'
        BY DEF TypeOK, Control, NoLostWakeup, Calling, Closing, AppLocs
    <2>3. ChunkStays'
        BY DEF ChunkStays
    <2>4. Gone' = Gone /\ UNCHANGED <<ring, sent, file>>
        BY DEF Gone
    <2> QED BY <2>1, <2>2, <2>3, <2>4, RingKept
<1>10. CASE Stop \/ Sleepy \/ Sleep
    <2> USE <1>10 DEF Stop, Sleepy, Sleep
    <2>1. TypeOK'
        BY DEF TypeOK, AppLocs, WriterLocs, Calling, Closing
    <2>2. (Control /\ NoLostWakeup)'
        BY DEF TypeOK, Control, NoLostWakeup, Calling, Closing, AppLocs
    <2>3. ChunkStays'
        BY DEF ChunkStays
    <2>4. Gone' = Gone /\ UNCHANGED <<ring, sent, file>>
        BY DEF Gone
    <2> QED BY <2>1, <2>2, <2>3, <2>4, RingKept
<1>11. CASE TakeChunk
    <2> USE <1>11 DEF TakeChunk
    <2>1. TypeOK'
        BY DEF TypeOK, AppLocs, WriterLocs, RingHoldsRest
    <2>2. (Control /\ NoLostWakeup)'
        BY DEF TypeOK, Control, NoLostWakeup, Calling, Closing, AppLocs
    <2>3. ChunkStays'
        BY DEF TypeOK, ChunkStays, RingHoldsRest
    <2>4. Gone' = Gone /\ UNCHANGED <<ring, sent, file>>
        BY DEF Gone
    <2> QED BY <2>1, <2>2, <2>3, <2>4, RingKept
<1>12. ASSUME NEW k \in 0 .. data_to_write, FileWrite(k) PROVE IInv'
    <2> USE <1>12 DEF FileWrite
    <2>1. TypeOK'
        BY DEF TypeOK, AppLocs, WriterLocs, Calling, Closing, ChunkStays, Control, RingHoldsRest
    <2>2. (Control /\ NoLostWakeup)'
        BY DEF TypeOK, Control, NoLostWakeup, Calling, Closing, AppLocs, ChunkStays
    <2>3. ChunkStays'
        BY DEF TypeOK, Control, ChunkStays, RingHoldsRest
    <2>4. RingHoldsRest'
        <3>1. /\ k \in Nat /\ k <= mem_size
              /\ Gone = 0 /\ Gone' = k /\ Len(file) \in Nat
              /\ UNCHANGED <<ring, sent>>
            BY DEF TypeOK, ChunkStays, Gone
        <3>2. Len(file') = Len(file) + k
            <4>1. [i \in 1 .. k |-> mem_buffer[mem_start + i - 1]] \in Seq(Nat)
                BY <3>1 DEF TypeOK, ChunkStays
            <4> QED BY <3>1, <4>1 DEF TypeOK
        <3>3. \A i : Pos(i)' = Pos(i)
            BY <3>1 DEF Pos
        <3> QED BY <3>1, <3>2, <3>3 DEF RingHoldsRest, TypeOK
    <2>5. FileInOrder'
        <3>1. /\ k \in Nat /\ k <= mem_size /\ mem_start + k <= mem_max_size
              /\ mem_start \in Nat /\ mem_size \in Nat /\ mem_max_size \in Nat
              /\ Gone = 0 /\ Len(file) \in Nat
            BY DEF TypeOK, ChunkStays, Gone
        <3>2. ASSUME NEW j \in 1 .. k
              PROVE  mem_buffer[mem_start + j - 1] = Len(file) + j
            <4>1. j - 1 \in 0 .. mem_size - 1 /\ Pos(j - 1) = mem_start + j - 1
                BY <3>1 DEF Pos
            <4> QED BY <3>1, <4>1 DEF RingHoldsRest
        <3>3. file' = file \o [j \in 1 .. k |-> Len(file) + j]
            BY <3>2
        <3>4. [j \in 1 .. k |-> Len(file) + j] \in Seq(Nat)
            BY <3>1
        <3>5. file \in Seq(Nat)
            BY DEF TypeOK
        <3>6. /\ Len(file') = Len(file) + k
              /\ \A i \in 1 .. Len(file) + k :
                    file'[i] = IF i <= Len(file) THEN file[i] ELSE i
            <4> DEFINE u == [j \in 1 .. k |-> Len(file) + j]
            <4>1. u \in Seq(Nat) /\ Len(u) = k
                BY <3>1, <3>4
            <4>2. \A i \in 1 .. k : u[i] = Len(file) + i
                OBVIOUS
            <4>3. file' = file \o u
                BY <3>3
            <4> HIDE DEF u
            <4>4. /\ Len(file') = Len(file) + k
                  /\ \A i \in 1 .. Len(file) + k :
                       file'[i] = IF i <= Len(file) THEN file[i] ELSE u[i - Len(file)]
                BY <3>5, <4>1, <4>3, Concat
            <4>5. ASSUME NEW i \in 1 .. Len(file) + k, i > Len(file)
                  PROVE  u[i - Len(file)] = i
                <5>1. i - Len(file) \in 1 .. k /\ Len(file) + (i - Len(file)) = i
                    BY <3>1, <4>5
                <5> QED BY <4>2, <5>1
            <4>6. \A i \in 1 .. Len(file) + k : ~(i <= Len(file)) => i > Len(file)
                BY <3>1
            <4> HIDE <1>12
            <4> QED BY <4>4, <4>5, <4>6
        <3> QED BY <3>1, <3>6 DEF FileInOrder
    <2> QED BY <2>1, <2>2, <2>3, <2>4, <2>5
<1>13. CASE Written
    <2> USE <1>13 DEF Written
    <2>1. TypeOK'
        BY DEF TypeOK, AppLocs, WriterLocs, Calling, Closing, ChunkStays, Control, RingHoldsRest
    <2>2. (Control /\ NoLostWakeup)'
        BY DEF TypeOK, Control, NoLostWakeup, Calling, Closing, AppLocs, ChunkStays
    <2>3. ChunkStays'
        BY DEF TypeOK, Control, ChunkStays, RingHoldsRest
    <2>4. RingHoldsRest'
        <3>1. /\ mem_start \in Nat /\ mem_size \in Nat /\ mem_max_size \in Nat \ {0}
              /\ bytes_written \in Nat /\ bytes_written <= mem_size
              /\ mem_start + bytes_written <= mem_max_size
              /\ mem_start < mem_max_size /\ mem_size <= mem_max_size
              /\ Len(file) \in Nat /\ sent \in Nat
              /\ Gone = bytes_written /\ Gone' = 0
            BY DEF TypeOK, RingHoldsRest, ChunkStays, Gone
        <3>2. /\ mem_size' = mem_size - bytes_written
              /\ mem_start' = IF mem_start + bytes_written = mem_max_size THEN 0
                              ELSE mem_start + bytes_written
              /\ UNCHANGED <<mem_buffer, mem_max_size, mem_end, sent, file>>
            OBVIOUS
        <3>3. RingHoldsRest
            OBVIOUS
        <3> HIDE <1>13 DEF Written, IInv, ring, thread
        <3>4. ASSUME NEW i \in 0 .. mem_size' - 1
              PROVE  mem_buffer'[Pos(i)'] = Len(file') - Gone' + i + 1
            <4>1. /\ i + bytes_written \in 0 .. mem_size - 1
                  /\ Pos(i)' = Pos(i + bytes_written)
                BY <3>1, <3>2, <3>4 DEF Pos
            <4>2. mem_buffer[Pos(i + bytes_written)]
                  = Len(file) - Gone + (i + bytes_written) + 1
                BY <3>3, <4>1 DEF RingHoldsRest
            <4> QED BY <3>1, <3>2, <3>4, <4>1, <4>2
        <3>5. /\ mem_start' < mem_max_size' /\ mem_end' < mem_max_size'
              /\ mem_size' <= mem_max_size'
              /\ mem_end' = IF mem_start' + mem_size' < mem_max_size'
                            THEN mem_start' + mem_size'
                            ELSE mem_start' + mem_size' - mem_max_size'
              /\ sent' + Gone' = Len(file') + mem_size'
            BY <3>1, <3>2, <3>3 DEF RingHoldsRest
        <3> QED BY <3>4, <3>5 DEF RingHoldsRest
    <2>5. FileInOrder'
        BY DEF TypeOK, FileInOrder, RingHoldsRest, ChunkStays, Pos, Gone
    <2> QED BY <2>1, <2>2, <2>3, <2>4, <2>5
<1>14. CASE Dequeued
    <2> USE <1>14 DEF Dequeued, WakeApp
    <2>1. TypeOK'
        BY DEF TypeOK, AppLocs, WriterLocs, Calling, Closing
    <2>2. (Control /\ NoLostWakeup)'
        BY DEF TypeOK, Control, NoLostWakeup, Calling, Closing, AppLocs
    <2>3. ChunkStays'
        BY DEF ChunkStays
    <2>4. Gone' = Gone /\ UNCHANGED <<ring, sent, file>>
        BY DEF Gone
    <2> QED BY <2>1, <2>2, <2>3, <2>4, RingKept
<1>15. CASE SpuriousWakeup
    <2> USE <1>15 DEF SpuriousWakeup, WakeApp
    <2>1. TypeOK'
        BY DEF TypeOK, AppLocs, WriterLocs, Calling, Closing
    <2>2. (Control /\ NoLostWakeup)'
        BY DEF TypeOK, Control, NoLostWakeup, Calling, Closing, AppLocs
    <2>3. ChunkStays'
        BY DEF ChunkStays
    <2>4. Gone' = Gone /\ UNCHANGED <<ring, sent, file>>
        BY DEF Gone
    <2> QED BY <2>1, <2>2, <2>3, <2>4, RingKept
<1>16. CASE UNCHANGED vars
    BY <1>16 DEF vars, TypeOK, Control, RingHoldsRest, ChunkStays, FileInOrder,
                 NoLostWakeup, Gone, Pos
<1> QED
    BY <1>1, <1>2, <1>3, <1>4, <1>5, <1>6, <1>7, <1>8, <1>9, <1>10, <1>11,
       <1>12, <1>13, <1>14, <1>15, <1>16
    DEF Next, AppStep, WriterStep

\* In every reachable state, for every buffer size and all lengths of writes,
\* the ring holds what the file lacks and no thread sleeps out of turn.
THEOREM Invariant == Spec => []IInv
BY InitInv, StepInv, PTL DEF Spec

\* The file has the bytes of the stream, in order, each once.
THEOREM InOrder == Spec => []FileInOrder
BY Invariant, PTL DEF IInv

LEMMA StepRefines == IInv /\ [Next]_vars => [Pipe!Next]_(Pipe!vars)
<1> SUFFICES ASSUME IInv, [Next]_vars PROVE [Pipe!Next]_(Pipe!vars)
    OBVIOUS
<1> USE SizesAssumption DEF Pipe!Next, Pipe!vars, ring, thread
<1>0. TypeOK /\ Control /\ RingHoldsRest /\ ChunkStays
    BY DEF IInv
<1>1. CASE Open
    BY <1>1 DEF Open, Pipe!Open
<1>2. CASE Put
    <2>1. Pipe!Write
        BY <1>0, <1>2 DEF Put, Pipe!Write, TypeOK
    <2> QED BY <2>1
<1>3. CASE Join
    <2>1. mem_size = 0 /\ Gone = 0 /\ Len(file) \in Nat
        BY <1>0, <1>3 DEF Join, Control, Gone, TypeOK
    <2>2. Len(file) = sent
        BY <1>0, <2>1 DEF RingHoldsRest, TypeOK
    <2> QED BY <1>3, <2>2 DEF Join, Pipe!Close
<1>4. ASSUME NEW k \in 0 .. data_to_write, FileWrite(k)
      PROVE  \E n \in 0 .. sent - Len(file) : Pipe!Deliver(n)
    <2>1. /\ k \in Nat /\ k <= mem_size /\ mem_start + k <= mem_max_size
          /\ mem_start \in Nat /\ mem_size \in Nat /\ mem_max_size \in Nat
          /\ Gone = 0 /\ Len(file) \in Nat /\ sent \in Nat
        BY <1>0, <1>4 DEF FileWrite, TypeOK, ChunkStays, Gone
    <2>2. ASSUME NEW j \in 1 .. k
          PROVE  mem_buffer[mem_start + j - 1] = Len(file) + j
        <3>1. j - 1 \in 0 .. mem_size - 1 /\ Pos(j - 1) = mem_start + j - 1
            BY <2>1 DEF Pos
        <3> QED BY <1>0, <2>1, <3>1 DEF RingHoldsRest
    <2>3. Pipe!Deliver(k)
        BY <1>0, <1>4, <2>2 DEF FileWrite, Pipe!Deliver, Control
    <2>4. k \in 0 .. sent - Len(file)
        BY <1>0, <2>1 DEF RingHoldsRest
    <2> QED BY <2>3, <2>4
<1>5. CASE Overflow \/ (\E n \in Sizes : XsPutN(n)) \/ GrowWait \/ Grow \/ PutWait
           \/ Queued \/ Close \/ CloseNotify
    BY <1>5 DEF Overflow, XsPutN, GrowWait, Grow, PutWait, Queued, Close, CloseNotify
<1>6. CASE Stop \/ Sleepy \/ Sleep \/ TakeChunk \/ Written \/ Dequeued
           \/ SpuriousWakeup
    BY <1>6 DEF Stop, Sleepy, Sleep, TakeChunk, Written, Dequeued, SpuriousWakeup, WakeApp
<1>7. CASE UNCHANGED vars
    BY <1>7 DEF vars
<1> QED
    BY <1>1, <1>2, <1>3, <1>4, <1>5, <1>6, <1>7 DEF Next, AppStep, WriterStep

\* threadedfilebuf implements the pipe: bytes arrive in order, each once, and
\* when close() returns all of them have arrived.
THEOREM Refinement == Spec => RefinesPipe
<1>1. Init => Pipe!Init
    BY DEF Init, Pipe!Init
<1> QED
    BY <1>1, StepRefines, Invariant, PTL DEF Spec, RefinesPipe, Pipe!Spec

=============================================================================
