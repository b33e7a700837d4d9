---------------------------- MODULE ThreadedFileBuf ----------------------------
(***************************************************************************)
(* pangolin::threadedfilebuf: the thread that writes to the stream copies  *)
(* the bytes into a ring, and write_thread copies them from there to the   *)
(* file, without the mutex.                                                *)
(*                                                                         *)
(* A section under update_mutex is one action, except that write_thread    *)
(* reads should_run, which close() changes without the mutex, and goes to  *)
(* sleep in two.  A byte is its number in the stream since open().         *)
(* overflow(c) is xsputn of one byte: for one byte the two are the same    *)
(* code.  One thread at a time uses the stream, as std::streambuf requires *)
(* and PacketStreamWriter does; it writes only while the file is open and  *)
(* closes it once.                                                         *)
(***************************************************************************)
EXTENDS Integers, Sequences

CONSTANTS
    BufferSize,     \* buffer_size_bytes
    Sizes,          \* the lengths xsputn is called with
    MaxBytes        \* the bytes written to one file (a bound for TLC)

ASSUME SizesAssumption ==
    /\ BufferSize \in Nat \ {0}
    /\ Sizes \subseteq Nat \ {0}
    /\ MaxBytes \in Nat

VARIABLES
    mem_buffer, mem_size, mem_max_size, mem_start, mem_end,
    should_run,
    app, num_bytes,                     \* the thread that uses the stream
    writer, data_to_write, bytes_written,   \* write_thread
    sent,       \* how many bytes have been put into the ring since open()
    file        \* the bytes in the file

ring == <<mem_buffer, mem_size, mem_max_size, mem_start, mem_end>>
thread == <<writer, data_to_write, bytes_written>>
vars == <<ring, should_run, app, num_bytes, thread, sent, file>>

Calling == {"grow", "grow_wait", "put", "put_wait", "queued"}
Closing == {"stop", "join"}
AppLocs == {"closed", "idle"} \cup Calling \cup Closing
WriterLocs == {"none", "test", "sleep", "waiting", "write", "written",
               "dequeued", "done"}

TypeOK ==
    /\ mem_size \in Nat /\ mem_max_size \in Nat \ {0}
    /\ mem_start \in Nat /\ mem_end \in Nat
    /\ mem_buffer \in [0 .. mem_max_size - 1 -> Nat]
    /\ should_run \in BOOLEAN
    /\ app \in AppLocs /\ num_bytes \in Nat
    /\ writer \in WriterLocs /\ data_to_write \in Nat /\ bytes_written \in Nat
    /\ sent \in Nat /\ file \in Seq(Nat)

\* A new buffer; 0 is no byte of the stream.
NewBuffer(n) ==
    /\ mem_buffer' = [i \in 0 .. n - 1 |-> 0]
    /\ mem_max_size' = n
    /\ mem_start' = 0
    /\ mem_end' = 0

Init ==
    /\ mem_buffer = [i \in 0 .. BufferSize - 1 |-> 0]
    /\ mem_size = 0 /\ mem_max_size = BufferSize /\ mem_start = 0 /\ mem_end = 0
    /\ should_run = FALSE
    /\ app = "closed" /\ num_bytes = 0
    /\ writer = "none" /\ data_to_write = 0 /\ bytes_written = 0
    /\ sent = 0 /\ file = << >>

-----------------------------------------------------------------------------
(* The thread that uses the stream. *)

Open ==
    /\ app = "closed"
    /\ NewBuffer(BufferSize)
    /\ mem_size' = 0
    /\ should_run' = TRUE
    /\ writer' = "test"
    /\ app' = "idle"
    /\ sent' = 0 /\ file' = << >>
    /\ UNCHANGED <<num_bytes, data_to_write, bytes_written>>

\* write_thread keeps update_mutex until it is in the wait set of cond_queued.
MutexFree == writer # "sleep"

XsPutN(n) ==
    /\ app = "idle"
    /\ sent + n <= MaxBytes
    /\ num_bytes' = n
    /\ app' = IF n > mem_max_size THEN "grow" ELSE "put"
    /\ UNCHANGED <<ring, should_run, thread, sent, file>>

Overflow ==
    /\ app = "idle"
    /\ sent + 1 <= MaxBytes
    /\ num_bytes' = 1
    /\ app' = "put"
    /\ UNCHANGED <<ring, should_run, thread, sent, file>>

GrowWait ==
    /\ app = "grow" /\ MutexFree
    /\ mem_size > 0
    /\ app' = "grow_wait"
    /\ UNCHANGED <<ring, should_run, num_bytes, thread, sent, file>>

\* A write that replaces the buffer as soon as the ring has room for nothing
\* else, whatever is still in it.
Grow_NoWait ==
    /\ app = "grow" /\ MutexFree
    /\ NewBuffer(num_bytes * 4)
    /\ app' = "put"
    /\ UNCHANGED <<mem_size, should_run, num_bytes, thread, sent, file>>

Grow ==
    /\ app = "grow" /\ MutexFree
    /\ mem_size = 0
    /\ NewBuffer(num_bytes * 4)
    /\ app' = "put"
    /\ UNCHANGED <<mem_size, should_run, num_bytes, thread, sent, file>>

PutWait ==
    /\ app = "put" /\ MutexFree
    /\ mem_size + num_bytes > mem_max_size
    /\ app' = "put_wait"
    /\ UNCHANGED <<ring, should_run, num_bytes, thread, sent, file>>

\* The test that takes an empty ring for a full one.
ArrayA_Strict == IF mem_start < mem_end THEN mem_max_size - mem_end
                 ELSE mem_start - mem_end

\* The free bytes from mem_end on that are next to each other.
ArrayA == IF mem_start <= mem_end THEN mem_max_size - mem_end
          ELSE mem_start - mem_end

\* The copy: byte number sent + j + 1 goes to the j-th free byte.
CopyIn ==
    mem_buffer' = [i \in 0 .. mem_max_size - 1 |->
        IF mem_end <= i /\ i < mem_end + num_bytes THEN sent + 1 + i - mem_end
        ELSE IF ArrayA < num_bytes /\ i < num_bytes - ArrayA
             THEN sent + 1 + ArrayA + i
             ELSE mem_buffer[i]]

Put ==
    /\ app = "put" /\ MutexFree
    /\ mem_size + num_bytes <= mem_max_size
    /\ CopyIn
    /\ LET e == IF num_bytes <= ArrayA THEN mem_end + num_bytes
                ELSE num_bytes - ArrayA
       IN  mem_end' = IF e = mem_max_size THEN 0 ELSE e
    /\ mem_size' = mem_size + num_bytes
    /\ sent' = sent + num_bytes
    /\ app' = "queued"
    /\ UNCHANGED <<mem_max_size, mem_start, should_run, num_bytes, thread, file>>

\* notify on cond_queued: write_thread is the only one that waits for it.
NotifyQueued ==
    /\ writer' = IF writer = "waiting" THEN "test" ELSE writer
    /\ UNCHANGED <<data_to_write, bytes_written>>

Queued ==
    /\ app = "queued"
    /\ NotifyQueued
    /\ app' = "idle"
    /\ UNCHANGED <<ring, should_run, num_bytes, sent, file>>

Close ==
    /\ app = "idle"
    /\ should_run' = FALSE
    /\ app' = "stop"
    /\ UNCHANGED <<ring, num_bytes, thread, sent, file>>

CloseNotify ==
    /\ app = "stop"
    /\ NotifyQueued
    /\ app' = "join"
    /\ UNCHANGED <<ring, should_run, num_bytes, sent, file>>

Join ==
    /\ app = "join"
    /\ writer = "done"
    /\ writer' = "none"
    /\ app' = "closed"
    /\ UNCHANGED <<ring, should_run, num_bytes, data_to_write, bytes_written,
                   sent, file>>

-----------------------------------------------------------------------------
(* write_thread. *)

\* A write_thread that ends as soon as it is told to.
Stop_AtOnce ==
    /\ writer = "test"
    /\ ~should_run
    /\ writer' = "done"
    /\ UNCHANGED <<ring, should_run, app, num_bytes, data_to_write, bytes_written,
                   sent, file>>

Stop ==
    /\ writer = "test"
    /\ mem_size = 0 /\ ~should_run
    /\ writer' = "done"
    /\ UNCHANGED <<ring, should_run, app, num_bytes, data_to_write, bytes_written,
                   sent, file>>

Sleepy ==
    /\ writer = "test"
    /\ mem_size = 0 /\ should_run
    /\ writer' = "sleep"
    /\ UNCHANGED <<ring, should_run, app, num_bytes, data_to_write, bytes_written,
                   sent, file>>

Sleep ==
    /\ writer = "sleep"
    /\ writer' = "waiting"
    /\ UNCHANGED <<ring, should_run, app, num_bytes, data_to_write, bytes_written,
                   sent, file>>

TakeChunk ==
    /\ writer = "test"
    /\ mem_size > 0
    /\ data_to_write' = IF mem_start < mem_end THEN mem_end - mem_start
                        ELSE mem_max_size - mem_start
    /\ writer' = "write"
    /\ UNCHANGED <<ring, should_run, app, num_bytes, bytes_written, sent, file>>

\* file.sputn, which writes less than it is asked to when the disk is full.
FileWrite(k) ==
    /\ writer = "write"
    /\ k <= data_to_write
    /\ file' = file \o [i \in 1 .. k |-> mem_buffer[mem_start + i - 1]]
    /\ bytes_written' = k
    /\ writer' = "written"
    /\ UNCHANGED <<ring, should_run, app, num_bytes, data_to_write, sent>>

Written ==
    /\ writer = "written"
    /\ mem_size' = mem_size - bytes_written
    /\ LET s == mem_start + bytes_written
       IN  mem_start' = IF s = mem_max_size THEN 0 ELSE s
    /\ writer' = "dequeued"
    /\ UNCHANGED <<mem_buffer, mem_max_size, mem_end, should_run, app, num_bytes,
                   data_to_write, bytes_written, sent, file>>

WakeApp ==
    app' = CASE app = "grow_wait" -> "grow"
             [] app = "put_wait" -> "put"
             [] OTHER -> app

\* A write_thread that wakes the other thread only when the ring is full.
Dequeued_WhenFull ==
    /\ writer = "dequeued"
    /\ IF mem_size = mem_max_size - bytes_written THEN WakeApp ELSE UNCHANGED app
    /\ writer' = "test"
    /\ UNCHANGED <<ring, should_run, num_bytes, data_to_write, bytes_written,
                   sent, file>>

Dequeued ==
    /\ writer = "dequeued"
    /\ WakeApp
    /\ writer' = "test"
    /\ UNCHANGED <<ring, should_run, num_bytes, data_to_write, bytes_written,
                   sent, file>>

-----------------------------------------------------------------------------
\* A condition variable may return without having been notified.
SpuriousWakeup ==
    \/ /\ writer = "waiting" /\ writer' = "test"
       /\ UNCHANGED <<ring, should_run, app, num_bytes, data_to_write,
                      bytes_written, sent, file>>
    \/ /\ app \in {"grow_wait", "put_wait"} /\ WakeApp
       /\ UNCHANGED <<ring, should_run, num_bytes, thread, sent, file>>

AppStep ==
    GrowWait \/ Grow \/ PutWait \/ Put \/ Queued \/ CloseNotify \/ Join

WriterStep ==
    \/ Stop \/ Sleepy \/ Sleep \/ TakeChunk \/ Written \/ Dequeued
    \/ \E k \in 0 .. data_to_write : FileWrite(k)

Next ==
    \/ Open \/ Overflow \/ Close \/ (\E n \in Sizes : XsPutN(n))
    \/ AppStep \/ WriterStep \/ SpuriousWakeup

Spec == Init /\ [][Next]_vars

\* Both threads are scheduled, update_mutex is granted in the end to a thread
\* that finds it free again and again, and a file that takes nothing does not
\* do so for ever.  Nobody has to write, and spurious wakeups may come or not.
Fairness ==
    /\ SF_vars(AppStep) /\ WF_vars(WriterStep)
    /\ SF_vars(\E k \in 1 .. data_to_write : FileWrite(k))

FairSpec == Spec /\ Fairness

-----------------------------------------------------------------------------
(* Safety. *)

\* The bytes in the ring that have already gone to the file.
Gone == IF writer = "written" THEN bytes_written ELSE 0

\* The i-th byte of the ring after mem_start.
Pos(i) == IF mem_start + i < mem_max_size THEN mem_start + i
          ELSE mem_start + i - mem_max_size

\* The ring holds the bytes that have been sent and are not in the file, in
\* their order: neither a copy into the ring nor a change of its buffer touches
\* the bytes write_thread is about to write without the mutex.
RingHoldsRest ==
    /\ mem_start < mem_max_size /\ mem_end < mem_max_size
    /\ mem_size <= mem_max_size
    /\ mem_end = IF mem_start + mem_size < mem_max_size THEN mem_start + mem_size
                 ELSE mem_start + mem_size - mem_max_size
    /\ sent + Gone = Len(file) + mem_size
    /\ \A i \in 0 .. mem_size - 1 : mem_buffer[Pos(i)] = Len(file) - Gone + i + 1

\* The chunk write_thread has taken stays in the ring until it is written.
ChunkStays ==
    /\ writer \in {"write", "written"} =>
          /\ data_to_write > 0
          /\ data_to_write <= mem_size
          /\ mem_start + data_to_write <= mem_max_size
    /\ writer = "written" => bytes_written <= data_to_write

\* The file has the bytes of the stream, in order, each once.
FileInOrder == \A i \in 1 .. Len(file) : file[i] = i

\* A wait that is needed ends: nobody sleeps while it is its turn, unless the
\* other thread is on its way to wake it.
NoLostWakeup ==
    /\ writer = "sleep" => mem_size = 0
    /\ (writer = "waiting" /\ mem_size > 0) => app = "queued"
    /\ app \in {"grow_wait", "put_wait"} =>
          mem_size > 0 \/ writer = "dequeued"

Control ==
    /\ writer = "none" <=> app = "closed"
    /\ writer = "done" => app \in {"stop", "join"} /\ mem_size = 0
    /\ should_run <=> app \notin Closing \cup {"closed"}
    /\ app \in {"grow", "grow_wait"} => num_bytes > mem_max_size
    /\ app \in {"put", "put_wait"} => num_bytes <= mem_max_size
    /\ app \in Calling => num_bytes > 0
    /\ app = "closed" => mem_size = 0

\* The inductive invariant.
IInv ==
    /\ TypeOK /\ Control /\ RingHoldsRest /\ ChunkStays /\ FileInOrder
    /\ NoLostWakeup

Pipe == INSTANCE BytePipe WITH open <- app # "closed"

\* threadedfilebuf is the pipe it promises to be.
RefinesPipe == Pipe!Spec

-----------------------------------------------------------------------------
(* Liveness. *)

\* Every call that writes returns, however full the ring was.
WritesReturn == app \in Calling ~> app = "idle"

\* What has been written gets into the file.
BytesArrive ==
    \A n \in 1 .. MaxBytes : (sent = n /\ app # "closed") ~> Len(file) >= n

\* close() returns.
CloseReturns == app = "stop" ~> app = "closed"

=============================================================================
