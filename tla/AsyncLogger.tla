----------------------------- MODULE AsyncLogger -----------------------------
(***************************************************************************)
(* The logger of include/async_logger.hpp: producers put messages into a   *)
(* queue, a worker thread writes them to a file, and a controlling thread  *)
(* starts and stops the worker, several times if it likes.                 *)
(*                                                                         *)
(* queue_ is the BoundedFIFO that MPMCQueueImpl shows the real queue to    *)
(* implement.  The file and the write buffer are sequences of units; a     *)
(* message m occupies Size[m] consecutive units, <<m, 1>> .. <<m, Size>>.  *)
(*                                                                         *)
(* The worker's program counter wpc:                                       *)
(*   none   no thread                   check  top of either loop          *)
(*   deq    inside try_dequeue          flush  queue empty, before flush() *)
(*   room   write_message, up to the space test                            *)
(*   put    write_message, serialize_message and the counters              *)
(*   done   worker_loop returned        terminated  the process died       *)
(* and the controlling thread's cpc:                                       *)
(*   idle, spawn (start), join, flush, close (stop).                       *)
(***************************************************************************)
EXTENDS Integers, SequencesExt

CONSTANTS
  Producers,    \* threads that call log()
  Controller,   \* thread that calls start() and stop(); may be a producer
  Worker,       \* worker_thread_
  Nobody,
  Messages,     \* a message is in the log of a session at most once (bound)
  Size,         \* get_message_size
  Garbage,      \* content of memory that was never written
  Zero,         \* content of a file where ftruncate extended it
  Capacity,     \* QUEUE_SIZE
  BufferSize,   \* BUFFER_SIZE
  Alignment,    \* ALIGNMENT
  InitialSize,  \* initial_size of the mapping
  Modes,        \* values of write_mode_ to consider
  Faults,       \* system calls that may fail
  MapsWriteOnly,\* whether mmap accepts the O_WRONLY descriptor of open_file;
                \*   POSIX and Linux refuse it with EACCES
  MaxSessions   \* bound, per mode: how often start() may succeed

ASSUME SizeFits ==
  /\ Size \in [Messages -> Nat \ {0}]
  /\ \A m \in Messages : Size[m] <= BufferSize /\ Size[m] <= InitialSize
ASSUME Units ==
  /\ BufferSize \in Nat /\ InitialSize \in Nat /\ Alignment \in Nat \ {0}
  /\ BufferSize % Alignment = 0
ASSUME ThreadNames ==
  /\ Worker \notin Producers /\ Controller # Worker
  /\ Nobody \notin Producers \cup {Worker}
ASSUME ModesAndFaults ==
  /\ Modes \subseteq {"MMAP", "DIRECT", "BUFFERED"}
  /\ Faults \subseteq {"open", "ftruncate", "mmap", "thread", "short", "write"}
ASSUME SessionsNat == MaxSessions \in [Modes -> Nat]
ASSUME MapsWriteOnlyBoolean == MapsWriteOnly \in BOOLEAN

VARIABLES
  places, call, item, ret,   \* queue_ and the calls on it, see BoundedFIFO
  write_mode,                \* write_mode_
  running,                   \* running_
  wpc, draining,             \* the worker; draining: in its second loop
  cpc, sessions,             \* the controlling thread
  fd,                        \* fd_: none (-1), open, stale (closed, not -1)
  mapping,                   \* mmap_ptr_: null, mapped, stale
  mmap_size,                 \* mmap_size_
  write_buffer,              \* write_buffer_
  buffer_offset,             \* buffer_offset_
  total_written,             \* total_written_
  file,                      \* content: [byte, pad], pad: alignment padding
  claimed,                   \* history: messages of this session in the
                             \*   order in which log() claimed their places
  promised,                  \* history: messages whose log() returned true
                             \*   before the last stop() was called
  lost                       \* history: a write() of the last session failed
                             \*   or was short, or a start() that threw has
                             \*   emptied its file

queueVars == <<places, call, item, ret>>
fileVars == <<fd, mapping, mmap_size, file>>
bufferVars == <<write_buffer, buffer_offset, total_written>>
controlVars == <<write_mode, running, cpc, sessions>>
workerVars == <<wpc, draining>>
history == <<claimed, promised, lost>>
vars == <<queueVars, fileVars, bufferVars, controlVars, workerVars, history>>

Queue == INSTANCE BoundedFIFO WITH
           Consumers <- {Worker}, Observers <- {}, Values <- Messages

-----------------------------------------------------------------------------
(* Units of the file and of the buffer *)

\* serialize_message: the copy of a message's struct
Encode(m) == [i \in 1 .. Size[m] |-> <<m, i>>]

Overwrite(units, at, new) ==
  [i \in DOMAIN units |-> IF i > at /\ i <= at + Len(new) THEN new[i - at]
                                                          ELSE units[i]]

Cell(b) == [byte |-> b, pad |-> FALSE]

\* ftruncate(fd_, n) on a file with this content
Resize(content, n) ==
  [i \in 1 .. n |-> IF i <= Len(content) THEN content[i] ELSE Cell(Zero)]

\* mutant: no rounding
MutantRoundUp(n) == n

\* (bytes_to_write + ALIGNMENT - 1) & ~(ALIGNMENT - 1)
RoundUp(n) == ((n + Alignment - 1) \div Alignment) * Alignment

BytesToWrite ==
  IF write_mode = "DIRECT" THEN RoundUp(buffer_offset) ELSE buffer_offset

\* What ::write of n units may write, 0 standing for an error as well.  The
\* kernel owes a short direct write no multiple of ALIGNMENT.
WriteResults(n) ==
  {n} \cup {k \in 1 .. n - 1 : "short" \in Faults}
      \cup {k \in {0} : "write" \in Faults}

QueuedMessages == [i \in DOMAIN places |-> places[i].val]

Reserved == {places[i].val : i \in {j \in DOMAIN places :
                                      places[j].owner # Nobody}}

\* The messages of this session whose log() has returned true.
Accepted == ToSet(claimed) \ Reserved

\* The process has not died.
Alive == wpc # "terminated"

-----------------------------------------------------------------------------
Init ==
  /\ Queue!Init
  /\ write_mode \in Modes
  /\ running = FALSE
  /\ wpc = "none" /\ draining = FALSE
  /\ cpc = "idle" /\ sessions = 0
  /\ fd = "none" /\ mapping = "null" /\ mmap_size = 0 /\ file = <<>>
  /\ write_buffer = [i \in 1 .. BufferSize |-> Garbage]
  /\ buffer_offset = 0 /\ total_written = 0
  /\ claimed = <<>> /\ promised = {} /\ lost = FALSE

-----------------------------------------------------------------------------
(* log(), which is try_enqueue: it does not look at running_ *)

LogCall(p, m) ==
  /\ Alive
  /\ p = Controller => cpc = "idle"
  /\ m \notin ToSet(claimed)
  /\ \A q \in Producers : call[q] # "none" => item[q] # m
  /\ Queue!BeginEnqueue(p, m)
  /\ UNCHANGED <<fileVars, bufferVars, controlVars, workerVars, history>>

LogReserve(p) ==
  /\ Alive
  /\ Queue!Reserve(p)
  /\ claimed' = Append(claimed, item[p])
  /\ UNCHANGED <<fileVars, bufferVars, controlVars, workerVars, promised, lost>>

LogReturn(p) ==
  /\ Alive
  /\ Queue!Commit(p) \/ Queue!RefuseEnqueue(p)
  /\ UNCHANGED <<fileVars, bufferVars, controlVars, workerVars, history>>

Log(p) ==
  \/ \E m \in Messages : LogCall(p, m)
  \/ LogReserve(p)
  \/ LogReturn(p)

-----------------------------------------------------------------------------
(* flush(), by the worker and, after the join, by stop() *)

\* mutant: buffer_offset_ is not reset
MutantFlush ==
  \/ buffer_offset = 0 /\ UNCHANGED <<file, total_written, buffer_offset, lost>>
  \/ /\ buffer_offset > 0
     /\ UNCHANGED buffer_offset
     /\ IF write_mode = "MMAP"
        THEN UNCHANGED <<file, total_written, lost>>
        ELSE \E n \in WriteResults(BytesToWrite) :
               /\ lost' = (lost \/ n < BytesToWrite)
               /\ file' = file \o [i \in 1 .. n |->
                                     [byte |-> write_buffer[i],
                                      pad  |-> i > buffer_offset]]
               /\ total_written' = IF n > 0 THEN total_written + buffer_offset
                                            ELSE total_written

\* mutant: what write() returned is not looked at
MutantFlushCounts ==
  \/ buffer_offset = 0 /\ UNCHANGED <<file, total_written, buffer_offset, lost>>
  \/ /\ buffer_offset > 0
     /\ buffer_offset' = 0
     /\ \E n \in WriteResults(BytesToWrite) :
          /\ lost' = (lost \/ n < BytesToWrite)
          /\ file' = file \o [i \in 1 .. n |->
                                [byte |-> write_buffer[i],
                                 pad  |-> i > buffer_offset]]
          /\ total_written' = total_written + buffer_offset

Flush ==
  \/ buffer_offset = 0 /\ UNCHANGED <<file, total_written, buffer_offset, lost>>
  \/ /\ buffer_offset > 0
     /\ buffer_offset' = 0
     /\ IF write_mode = "MMAP"
        THEN UNCHANGED <<file, total_written, lost>>
        ELSE \E n \in WriteResults(BytesToWrite) :
               /\ lost' = (lost \/ n < BytesToWrite)
               /\ file' = file \o [i \in 1 .. n |->
                                     [byte |-> write_buffer[i],
                                      pad  |-> i > buffer_offset]]
               /\ total_written' = IF n > 0 THEN total_written + buffer_offset
                                            ELSE total_written

-----------------------------------------------------------------------------
(* worker_loop() *)

\* mutant: running_ is not looked at again
MutantLoopForever ==
  /\ wpc = "check"
  /\ Queue!BeginDequeue(Worker)
  /\ wpc' = "deq"
  /\ UNCHANGED <<fileVars, bufferVars, controlVars, draining, history>>

\* The load of running_, which decides between the loops, and the call of
\* try_dequeue that both of them make next.
LoopTest ==
  /\ wpc = "check"
  /\ draining' = (draining \/ ~ running)
  /\ Queue!BeginDequeue(Worker)
  /\ wpc' = "deq"
  /\ UNCHANGED <<fileVars, bufferVars, controlVars, history>>

Dequeue ==
  /\ wpc = "deq"
  /\ \/ Queue!Take(Worker) /\ UNCHANGED wpc
     \/ Queue!Free(Worker) /\ wpc' = "room"
  /\ UNCHANGED <<fileVars, bufferVars, controlVars, draining, history>>

\* mutant: no flush when the queue is empty
MutantDequeueFails ==
  /\ wpc = "deq"
  /\ Queue!RefuseDequeue(Worker)
  /\ wpc' = IF draining THEN "done" ELSE "check"
  /\ UNCHANGED <<fileVars, bufferVars, controlVars, draining, history>>

DequeueFails ==
  /\ wpc = "deq"
  /\ Queue!RefuseDequeue(Worker)
  /\ wpc' = IF draining THEN "done" ELSE "flush"
  /\ UNCHANGED <<fileVars, bufferVars, controlVars, draining, history>>

FlushWhenEmpty ==
  /\ wpc = "flush"
  /\ Flush
  /\ wpc' = "check"
  /\ UNCHANGED <<queueVars, fd, mapping, mmap_size, write_buffer, controlVars,
                 draining, claimed, promised>>

\* expand_mmap(): ftruncate is not checked; an exception of mmap leaves the
\* worker thread and terminates the process.
ExpandMmap ==
  /\ \/ file' = Resize(file, 2 * mmap_size)
     \/ "ftruncate" \in Faults /\ UNCHANGED file
  /\ \/ mmap_size' = 2 * mmap_size /\ wpc' = "put" /\ UNCHANGED mapping
     \/ /\ "mmap" \in Faults
        /\ mapping' = "stale" /\ wpc' = "terminated" /\ UNCHANGED mmap_size

\* mutant: the mapping is extended only when it is full
MutantMakeRoomInMapping ==
  /\ wpc = "room"
  /\ write_mode = "MMAP"
  /\ IF total_written >= mmap_size
     THEN ExpandMmap
     ELSE wpc' = "put" /\ UNCHANGED <<mapping, mmap_size, file>>
  /\ UNCHANGED <<queueVars, fd, bufferVars, controlVars, draining, history>>

MakeRoomInMapping ==
  /\ wpc = "room"
  /\ write_mode = "MMAP"
  /\ IF total_written + Size[item[Worker]] > mmap_size
     THEN ExpandMmap
     ELSE wpc' = "put" /\ UNCHANGED <<mapping, mmap_size, file>>
  /\ UNCHANGED <<queueVars, fd, bufferVars, controlVars, draining, history>>

\* mutant: the message's own size is left out of the test
MutantMakeRoomInBuffer ==
  /\ wpc = "room"
  /\ write_mode # "MMAP"
  /\ IF buffer_offset >= BufferSize
     THEN Flush
     ELSE UNCHANGED <<file, total_written, buffer_offset, lost>>
  /\ wpc' = "put"
  /\ UNCHANGED <<queueVars, fd, mapping, mmap_size, write_buffer, controlVars,
                 draining, claimed, promised>>

MakeRoomInBuffer ==
  /\ wpc = "room"
  /\ write_mode # "MMAP"
  /\ IF buffer_offset + Size[item[Worker]] > BufferSize
     THEN Flush
     ELSE UNCHANGED <<file, total_written, buffer_offset, lost>>
  /\ wpc' = "put"
  /\ UNCHANGED <<queueVars, fd, mapping, mmap_size, write_buffer, controlVars,
                 draining, claimed, promised>>

\* A store past the end of the file or outside the mapping kills the process
\* (it may also corrupt memory, after which nothing can be said).
PutInMapping ==
  /\ wpc = "put"
  /\ write_mode = "MMAP"
  /\ LET last == total_written + Size[item[Worker]]
     IN  IF last <= mmap_size /\ last <= Len(file)
         THEN /\ file' = Overwrite(file, total_written,
                           [i \in 1 .. Size[item[Worker]] |->
                              Cell(Encode(item[Worker])[i])])
              /\ total_written' = last
              /\ wpc' = "check"
         ELSE /\ wpc' = "terminated"
              /\ UNCHANGED <<file, total_written>>
  /\ UNCHANGED <<queueVars, fd, mapping, mmap_size, write_buffer,
                 buffer_offset, controlVars, draining, history>>

PutInBuffer ==
  /\ wpc = "put"
  /\ write_mode # "MMAP"
  /\ write_buffer' =
       Overwrite(write_buffer, buffer_offset, Encode(item[Worker]))
  /\ buffer_offset' = buffer_offset + Size[item[Worker]]
  /\ wpc' = "check"
  /\ UNCHANGED <<queueVars, fileVars, total_written, controlVars, draining,
                 history>>

WorkerLoop ==
  \/ LoopTest
  \/ Dequeue
  \/ DequeueFails
  \/ FlushWhenEmpty
  \/ MakeRoomInMapping
  \/ MakeRoomInBuffer
  \/ PutInMapping
  \/ PutInBuffer

-----------------------------------------------------------------------------
(* start() and stop().  A call that returns at its first test changes      *)
(* nothing and is not an action.                                           *)

\* No call of the controlling thread is in progress.
ControllerFree ==
  /\ Alive
  /\ cpc = "idle"
  /\ Controller \in Producers => call[Controller] = "none"

\* open() with O_TRUNC empties the file; what the history says of the last
\* session's file is forgotten with it.
Truncated(content) ==
  /\ file' = content
  /\ claimed' = QueuedMessages
  /\ promised' = {}

OpenFile ==
  /\ ControllerFree
  /\ ~ running
  /\ sessions < MaxSessions[write_mode]
  /\ sessions' = sessions + 1
  /\ fd' = "open"
  /\ lost' = FALSE
  /\ IF write_mode = "MMAP"
     THEN /\ MapsWriteOnly
          /\ Truncated(Resize(<<>>, InitialSize))
          /\ mapping' = "mapped"
          /\ mmap_size' = InitialSize
     ELSE /\ Truncated(<<>>)
          /\ UNCHANGED <<mapping, mmap_size>>
  /\ cpc' = "spawn"
  /\ UNCHANGED <<queueVars, bufferVars, write_mode, running, workerVars>>

\* mutant: running_ is set before the file is opened
MutantOpenFails ==
  /\ ControllerFree
  /\ ~ running
  /\ "open" \in Faults
  /\ fd' = "none"
  /\ running' = TRUE
  /\ UNCHANGED <<queueVars, mapping, mmap_size, file, bufferVars, cpc,
                 sessions, write_mode, workerVars, history>>

\* open_file() throws, out of start().
OpenFails ==
  /\ ControllerFree
  /\ ~ running
  /\ "open" \in Faults
  /\ fd' = "none"
  /\ UNCHANGED <<queueVars, mapping, mmap_size, file, bufferVars, controlVars,
                 workerVars, history>>

\* open() succeeded, then ftruncate or mmap fails: open_file() closes the
\* descriptor and throws, leaving its number in fd_.
MapFails ==
  /\ ControllerFree
  /\ ~ running
  /\ write_mode = "MMAP"
  /\ fd' = "stale"
  /\ lost' = TRUE
  /\ \/ "ftruncate" \in Faults /\ Truncated(<<>>) /\ UNCHANGED mapping
     \/ /\ "mmap" \in Faults \/ ~ MapsWriteOnly
        /\ Truncated(Resize(<<>>, InitialSize))
        /\ mapping' = "stale"
  /\ UNCHANGED <<queueVars, mmap_size, bufferVars, controlVars, workerVars>>

\* The store of running_ and the creation of the thread, which may throw.
Spawn ==
  /\ Alive /\ cpc = "spawn"
  /\ running' = TRUE
  /\ \/ wpc' = "check" /\ draining' = FALSE
     \/ "thread" \in Faults /\ UNCHANGED workerVars
  /\ cpc' = "idle"
  /\ UNCHANGED <<queueVars, fileVars, bufferVars, write_mode, sessions,
                 history>>

StopCall ==
  /\ ControllerFree
  /\ running
  /\ running' = FALSE
  /\ promised' = Accepted
  /\ cpc' = "join"
  /\ UNCHANGED <<queueVars, fileVars, bufferVars, write_mode, sessions,
                 workerVars, claimed, lost>>

\* mutant: stop() does not wait for the worker
MutantJoin ==
  /\ cpc = "join"
  /\ cpc' = "flush"
  /\ UNCHANGED <<queueVars, fileVars, bufferVars, write_mode, running,
                 sessions, workerVars, history>>

Join ==
  /\ cpc = "join"
  /\ wpc \in {"none", "done"}
  /\ wpc' = "none"
  /\ cpc' = "flush"
  /\ UNCHANGED <<queueVars, fileVars, bufferVars, write_mode, running,
                 sessions, draining, history>>

StopFlush ==
  /\ Alive /\ cpc = "flush"
  /\ Flush
  /\ cpc' = "close"
  /\ UNCHANGED <<queueVars, fd, mapping, mmap_size, write_buffer, write_mode,
                 running, sessions, workerVars, claimed, promised>>

\* mutant: the file keeps its preallocated size
MutantCloseFile ==
  /\ cpc = "close"
  /\ mapping' = IF write_mode = "MMAP" THEN "stale" ELSE mapping
  /\ fd' = "none"
  /\ cpc' = "idle"
  /\ UNCHANGED <<queueVars, mmap_size, file, bufferVars, write_mode, running,
                 sessions, workerVars, history>>

\* close_file(): munmap leaves mmap_ptr_ as it is; ftruncate is not checked.
CloseFile ==
  /\ Alive /\ cpc = "close"
  /\ IF write_mode = "MMAP" /\ mapping # "null"
     THEN /\ mapping' = "stale"
          /\ \/ file' = Resize(file, total_written)
             \/ "ftruncate" \in Faults /\ UNCHANGED file
     ELSE UNCHANGED <<mapping, file>>
  /\ fd' = "none"
  /\ cpc' = "idle"
  /\ UNCHANGED <<queueVars, mmap_size, bufferVars, write_mode, running,
                 sessions, workerVars, history>>

\* The rest of a start() or stop() in progress.
ControllerContinues == Spawn \/ Join \/ StopFlush \/ CloseFile

Control ==
  \/ OpenFile
  \/ OpenFails
  \/ MapFails
  \/ StopCall
  \/ ControllerContinues

-----------------------------------------------------------------------------
Next ==
  \/ \E p \in Producers : Log(p)
  \/ WorkerLoop
  \/ Control

Spec == Init /\ [][Next]_vars

-----------------------------------------------------------------------------
(***************************************************************************)
(* Properties.                                                             *)
(***************************************************************************)

TypeOK ==
  /\ places \in Seq([val : Messages, owner : Producers \cup {Nobody}])
  /\ call \in [Producers \cup {Worker} ->
                 {"none", "enqueue", "reserved", "dequeue", "taken"}]
  /\ item \in [Producers \cup {Worker} -> Messages \cup {Garbage}]
  /\ write_mode \in Modes
  /\ running \in BOOLEAN /\ draining \in BOOLEAN
  /\ wpc \in {"none", "check", "deq", "flush", "room", "put", "done",
              "terminated"}
  /\ cpc \in {"idle", "spawn", "join", "flush", "close"}
  /\ sessions \in 0 .. MaxSessions[write_mode]
  /\ fd \in {"none", "open", "stale"}
  /\ mapping \in {"null", "mapped", "stale"}
  /\ mmap_size \in Nat /\ total_written \in Nat
  /\ buffer_offset \in 0 .. BufferSize
  /\ DOMAIN write_buffer = 1 .. BufferSize

Stopped == cpc = "idle" /\ ~ running /\ sessions > 0

Encodings(msgs) == FlattenSeq([i \in DOMAIN msgs |-> Encode(msgs[i])])

\* The units of the file that hold messages, in order.
FileData ==
  IF write_mode = "MMAP"
  THEN [i \in 1 .. total_written |-> file[i].byte]
  ELSE FlattenSeq([i \in DOMAIN file |-> IF file[i].pad THEN <<>>
                                        ELSE <<file[i].byte>>])

\* The part of the write buffer that waits for flush().
Buffered == SubSeq(write_buffer, 1, buffer_offset)

\* The message the worker has dequeued and not stored yet.
InHand ==
  IF call[Worker] = "taken" \/ wpc \in {"room", "put"}
  THEN Encode(item[Worker]) ELSE <<>>

\* No message is lost, doubled, torn or reordered on its way from log() to
\* the file: the file, then the buffer up to buffer_offset_, then the message
\* in the worker's hands, then the queue spell out the messages in the order
\* in which their log() calls claimed a place.  Relates lines 92-94, 162-210
\* and 295-312, over all three write modes, in every session in which no
\* write() failed or was short.
LogIntegrity ==
  Alive /\ ~ lost =>
    FileData \o Buffered \o InHand \o Encodings(QueuedMessages)
      = Encodings(claimed)

\* When serialize_message is called (lines 199 and 207) its destination lies
\* inside the mapping, or inside the write buffer: one flush or one doubling
\* of the mapping has always made enough room.
RoomForMessage ==
  wpc = "put" =>
    IF write_mode = "MMAP"
    THEN total_written + Size[item[Worker]] <= mmap_size
    ELSE buffer_offset + Size[item[Worker]] <= BufferSize

\* O_DIRECT wants aligned offsets and lengths: the file offset stays a
\* multiple of ALIGNMENT however flushes are interleaved with messages, until
\* a write() is short, and rounding up (line 176) never reads past the end of
\* the buffer.
DirectAligned ==
  write_mode = "DIRECT" =>
    /\ ~ lost => Len(file) % Alignment = 0
    /\ BytesToWrite <= BufferSize

\* The worker and stop() only touch a file that is open (and mapped),
\* although a start() that throws leaves a closed descriptor in fd_ and
\* MAP_FAILED in mmap_ptr_ (lines 125 and 135), and stop() a dangling
\* mmap_ptr_ (line 150).
FileOpenWhileUsed ==
  (running \/ wpc \notin {"none", "terminated"}
           \/ cpc \in {"join", "flush", "close"}) /\ Alive =>
    /\ fd = "open"
    /\ write_mode = "MMAP" => mapping = "mapped"

\* start() and stop() as a life cycle: a worker exists only between a
\* completed start() and the join of the next stop(), and the file is open
\* (and mapped) from before the former until after the latter.
LifeCycle ==
  /\ cpc # "idle" => ~ running
  /\ ~ running /\ cpc # "join" => wpc \in {"none", "terminated"}
  /\ (running \/ cpc # "idle") /\ Alive =>
       /\ sessions > 0
       /\ fd = "open"
       /\ write_mode = "MMAP" => mapping = "mapped"

\* The message in the worker's hands is one that log() was given.
HandInv ==
  /\ \A p \in Producers :
       call[p] \in {"enqueue", "reserved"} => item[p] \in Messages
  /\ call[Worker] = "taken" \/ wpc \in {"room", "put"}
       => item[Worker] \in Messages

\* buffer_offset_ stays 0 in MMAP mode, and the mapping of the first session
\* never falls behind total_written_.
SpaceInv ==
  /\ write_mode = "MMAP" => buffer_offset = 0
  /\ write_mode = "MMAP" =>
       IF sessions = 0
       THEN total_written = 0 /\ wpc \in {"none", "terminated"}
       ELSE total_written <= mmap_size /\ InitialSize <= mmap_size
  /\ RoomForMessage

\* The inductive invariant behind FileOpenWhileUsed and RoomForMessage, over
\* every interleaving of log(), worker_loop(), start() and stop(), and every
\* failure of a system call, as long as MMAP mode is not started twice.
LoggerInv == LifeCycle /\ HandInv /\ SpaceInv

\* "Stop the logger thread and flush remaining data" (line 71): when stop()
\* returns, every message whose log() had returned true before stop() was
\* called is in the file.
StopFlushes ==
  Stopped => \A m \in promised : ToSet(Encode(m)) \subseteq ToSet(FileData)

\* Each write mode the README offers (README.md:9, "Async logger with MMAP /
\* O_DIRECT / buffered modes") can be started: open_file() does not throw
\* unless a system call fails for reasons of its own.
ModeStarts == fd = "stale" => Faults # {}

\* get_total_written() after stop(), which demo.cpp:183 and benchmark.cpp:206
\* report as the bytes the logger wrote, is the length of the file (of the
\* first session; in DIRECT mode the padding is not counted).
TotalIsFileSize ==
  Stopped /\ sessions = 1 /\ write_mode # "DIRECT" =>
    total_written = Len(file)

-----------------------------------------------------------------------------
(* Progress.  The scheduler keeps running the worker and a start() or      *)
(* stop() in progress.  Producers may stop anywhere in a log(), and nobody *)
(* is obliged to call start(), stop() or log().                            *)

FairSpec ==
  /\ Spec
  /\ WF_vars(WorkerLoop)
  /\ WF_vars(ControllerContinues)

\* stop() returns: the worker sees running_ = false, its drain ends and the
\* join of line 81 does not wait for ever, even if a producer stopped in the
\* middle of log().
StopReturns == cpc = "join" ~> cpc = "idle"

\* A message accepted while the logger runs reaches the file without waiting
\* for stop(): a partial buffer is flushed once the queue is empty (line 303).
\* A producer that stops between claim and publication holds up the messages
\* behind it, so none may do so for ever.
EventuallyLogged ==
  (\A p \in Producers : []<>(call[p] # "reserved")) =>
    \A m \in Messages :
      running /\ m \in Accepted ~>
        ToSet(Encode(m)) \subseteq ToSet(FileData) \/ ~ running

=============================================================================
