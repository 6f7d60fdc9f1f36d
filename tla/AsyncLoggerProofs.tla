-------------------------- MODULE AsyncLoggerProofs --------------------------
(***************************************************************************)
(* Proofs about the logger, for any producers and messages, any sizes of   *)
(* the queue, the buffer and the mapping, and any failing system calls.    *)
(***************************************************************************)
EXTENDS AsyncLogger, TLAPS

\* In MMAP mode the second session starts with the total_written_ of the
\* first and a small mapping, so the invariant needs one session there.
\* Where mmap refuses the descriptor there is no mapped session at all.
OneMappedSession ==
  "MMAP" \in Modes /\ MapsWriteOnly => MaxSessions["MMAP"] <= 1

Place == [val : Messages, owner : Producers \cup {Nobody}]

-----------------------------------------------------------------------------
(* The queue as the logger uses it *)

\* The state of the constructor.
LEMMA InvInit == Init => TypeOK /\ LoggerInv
  <1> SUFFICES ASSUME Init PROVE TypeOK /\ LoggerInv
    OBVIOUS
  <1> USE DEF Init, Queue!Init
  <1>0. Queue!Threads = Producers \cup {Worker}
    BY DEF Queue!Threads
  <1>1. TypeOK
    <2>1. places \in Seq([val : Messages, owner : Producers \cup {Nobody}])
      OBVIOUS
    <2>2. /\ call \in [Producers \cup {Worker} ->
                        {"none", "enqueue", "reserved", "dequeue", "taken"}]
          /\ item \in [Producers \cup {Worker} -> Messages \cup {Garbage}]
      BY <1>0
    <2>3. /\ sessions \in 0 .. MaxSessions[write_mode]
          /\ buffer_offset \in 0 .. BufferSize
      BY Units, SessionsNat
    <2> QED
      BY <2>1, <2>2, <2>3 DEF TypeOK
  <1>2. LifeCycle /\ HandInv
    BY <1>0 DEF LifeCycle, HandInv
  <1>3. SpaceInv
    BY DEF SpaceInv, RoomForMessage
  <1> QED
    BY <1>1, <1>2, <1>3 DEF LoggerInv

\* log() in any stage, try_enqueue included, keeps the invariant.
LEMMA InvLog ==
  ASSUME TypeOK, LoggerInv, NEW p \in Producers, Log(p)
  PROVE  TypeOK' /\ LoggerInv'
  <1> USE ThreadNames DEF LoggerInv
  <1>1. UNCHANGED <<fd, mapping, mmap_size, file, write_buffer, buffer_offset,
                    total_written, write_mode, running, cpc, sessions, wpc,
                    draining>>
    BY DEF Log, LogCall, LogReserve, LogReturn, fileVars, bufferVars,
           controlVars, workerVars, history
  <1>2. /\ item' \in [Producers \cup {Worker} -> Messages \cup {Garbage}]
        /\ item'[Worker] = item[Worker]
        /\ call' \in [Producers \cup {Worker} ->
                       {"none", "enqueue", "reserved", "dequeue", "taken"}]
        /\ call'[Worker] = call[Worker]
        /\ \A q \in Producers :
             call'[q] \in {"enqueue", "reserved"} => item'[q] \in Messages
    <2> USE DEF TypeOK, HandInv
    <2>1. CASE \E m \in Messages : LogCall(p, m)
      BY <2>1 DEF LogCall, Queue!BeginEnqueue, Queue!Begin
    <2>2. CASE LogReserve(p)
      BY <2>2 DEF LogReserve, Queue!Reserve
    <2>3. CASE LogReturn(p)
      BY <2>3 DEF LogReturn, Queue!Commit, Queue!RefuseEnqueue, Queue!End
    <2> QED
      BY <2>1, <2>2, <2>3 DEF Log
  <1>3. places' \in Seq(Place)
    <2>1. CASE UNCHANGED places
      BY <2>1 DEF TypeOK, Place
    <2>2. CASE LogReserve(p)
      <3>1. [val |-> item[p], owner |-> p] \in Place
        BY <2>2 DEF LogReserve, Queue!Reserve, HandInv, Place
      <3> QED
        BY <2>2, <3>1 DEF LogReserve, Queue!Reserve, TypeOK, Place
    <2>3. CASE Queue!Commit(p)
      <3>1. places \in Seq(Place)
        BY DEF TypeOK, Place
      <3>2. DOMAIN places = 1 .. Len(places) /\ Len(places) \in Nat
        BY <3>1
      <3>3. \A i \in 1 .. Len(places) : places[i] \in Place
        BY <3>1
      <3>4. places' \in [1 .. Len(places) -> Place]
        BY <2>3, <3>2, <3>3 DEF Queue!Commit, Place
      <3> QED
        BY <3>2, <3>4
    <2> QED
      BY <2>1, <2>2, <2>3 DEF Log, LogCall, LogReturn, Queue!BeginEnqueue,
                              Queue!RefuseEnqueue
  <1>4. TypeOK'
    BY <1>1, <1>2, <1>3 DEF TypeOK, Place
  <1>5. LifeCycle' /\ HandInv'
    BY <1>1, <1>2 DEF LifeCycle, HandInv, Alive
  <1>6. SpaceInv'
    BY <1>1, <1>2 DEF SpaceInv, RoomForMessage
  <1> QED
    BY <1>4, <1>5, <1>6

-----------------------------------------------------------------------------
(* The worker *)

\* The worker's steps that dequeue keep the invariant.
LEMMA InvDequeue ==
  ASSUME TypeOK, LoggerInv, LoopTest \/ Dequeue \/ DequeueFails
  PROVE  TypeOK' /\ LoggerInv'
  <1> USE ThreadNames DEF LoggerInv
  <1>1. UNCHANGED <<fd, mapping, mmap_size, file, write_buffer, buffer_offset,
                    total_written, write_mode, running, cpc, sessions>>
    BY DEF LoopTest, Dequeue, DequeueFails, fileVars, bufferVars,
           controlVars
  <1>2. /\ wpc \in {"check", "deq"}
        /\ wpc' \in {"deq", "room", "done", "flush"}
        /\ draining' \in BOOLEAN
    BY DEF LoopTest, Dequeue, DequeueFails, TypeOK
  <1>3. /\ call' \in [Producers \cup {Worker} ->
                       {"none", "enqueue", "reserved", "dequeue", "taken"}]
        /\ \A q \in Producers : call'[q] = call[q]
    BY DEF LoopTest, Dequeue, DequeueFails, TypeOK, Queue!BeginDequeue,
           Queue!Begin, Queue!Take, Queue!Free, Queue!RefuseDequeue, Queue!End
  <1>4. /\ places' \in Seq(Place)
        /\ item' \in [Producers \cup {Worker} -> Messages \cup {Garbage}]
        /\ \A q \in Producers : item'[q] = item[q]
        /\ call'[Worker] = "taken" \/ wpc' = "room"
             => item'[Worker] \in Messages
    <2>1. CASE Queue!Take(Worker)
      <3>1. places \in Seq(Place) /\ places # <<>>
        BY <2>1 DEF Queue!Take, Queue!FirstFilled, TypeOK, Place
      <3>2. Head(places) \in Place /\ Tail(places) \in Seq(Place)
        BY <3>1
      <3>3. Head(places).val \in Messages
        BY <3>2 DEF Place
      <3> QED
        BY <2>1, <3>2, <3>3 DEF Queue!Take, TypeOK
    <2>2. CASE ~ Queue!Take(Worker)
      BY <2>2 DEF LoopTest, Dequeue, DequeueFails, TypeOK, HandInv, Place,
                  Queue!BeginDequeue, Queue!Begin, Queue!Free,
                  Queue!RefuseDequeue, Queue!End
    <2> QED
      BY <2>1, <2>2
  <1>5. TypeOK'
    BY <1>1, <1>2, <1>3, <1>4 DEF TypeOK, Place
  <1>6. LifeCycle'
    BY <1>1, <1>2 DEF LifeCycle, Alive
  <1>7. HandInv'
    BY <1>2, <1>3, <1>4 DEF HandInv
  <1>8. SpaceInv'
    BY <1>1, <1>2 DEF SpaceInv, RoomForMessage
  <1> QED
    BY <1>5, <1>6, <1>7, <1>8

\* What flush() does to the counters: line 184 empties the buffer.
LEMMA FlushCounters ==
  ASSUME TypeOK, LoggerInv, Flush
  PROVE  /\ buffer_offset' = 0
         /\ total_written' \in Nat
         /\ write_mode = "MMAP" => UNCHANGED total_written
  BY DEF Flush, TypeOK, LoggerInv, SpaceInv

\* A step of flush() or write_message(): the queue, the file descriptor and
\* the controlling thread are left alone.
WriteStep ==
  /\ places' = places /\ call' = call /\ item' = item
  /\ write_mode' = write_mode /\ running' = running /\ cpc' = cpc
  /\ sessions' = sessions /\ draining' = draining /\ fd' = fd
  /\ wpc \in {"flush", "room", "put"}
  /\ wpc' \in {"check", "put", "terminated"}
  /\ wpc' = "put" => wpc = "room"
  /\ mapping' = mapping \/ (wpc' = "terminated" /\ mapping' = "stale")
  /\ mmap_size' \in Nat /\ total_written' \in Nat
  /\ buffer_offset' \in 0 .. BufferSize
  /\ DOMAIN write_buffer' = 1 .. BufferSize

\* Such a step keeps the invariant if it keeps SpaceInv.
LEMMA InvWriteStep ==
  ASSUME TypeOK, LoggerInv, WriteStep, SpaceInv'
  PROVE  TypeOK' /\ LoggerInv'
  <1> USE DEF LoggerInv, WriteStep
  <1>1. TypeOK'
    BY DEF TypeOK
  <1>2. LifeCycle'
    BY DEF LifeCycle, Alive
  <1>3. HandInv'
    BY DEF HandInv
  <1> QED
    BY <1>1, <1>2, <1>3

\* flush() of an idle worker keeps the invariant.
LEMMA InvFlushWhenEmpty ==
  ASSUME TypeOK, LoggerInv, FlushWhenEmpty
  PROVE  TypeOK' /\ LoggerInv'
  <1>1. SpaceInv'
    BY FlushCounters DEF FlushWhenEmpty, LoggerInv, SpaceInv, RoomForMessage,
                         controlVars
  <1>2. mmap_size \in Nat /\ DOMAIN write_buffer = 1 .. BufferSize
    BY DEF TypeOK
  <1>3. WriteStep
    BY <1>2, FlushCounters, Units
       DEF WriteStep, FlushWhenEmpty, queueVars, controlVars
  <1> QED
    BY <1>1, <1>3, InvWriteStep

\* Line 194: one doubling makes room, because the mapping is at least as
\* large as the initial one and total_written_ does not exceed it.
LEMMA InvMakeRoomInMapping ==
  ASSUME TypeOK, LoggerInv, MakeRoomInMapping
  PROVE  TypeOK' /\ LoggerInv'
  <1> USE DEF MakeRoomInMapping, ExpandMmap
  <1>1. /\ item[Worker] \in Messages /\ Size[item[Worker]] \in Nat
        /\ Size[item[Worker]] <= InitialSize
        /\ mmap_size \in Nat /\ total_written \in Nat /\ InitialSize \in Nat
    BY SizeFits, Units DEF LoggerInv, HandInv, TypeOK
  <1>2. sessions # 0 /\ total_written <= mmap_size /\ InitialSize <= mmap_size
    BY DEF LoggerInv, SpaceInv
  <1>3. mmap_size' \in Nat /\ mmap_size <= mmap_size'
    BY <1>1
  <1>4. SpaceInv'
    BY <1>1, <1>2, <1>3
       DEF LoggerInv, SpaceInv, RoomForMessage, controlVars, bufferVars,
           queueVars
  <1>5. /\ DOMAIN write_buffer = 1 .. BufferSize
        /\ buffer_offset \in 0 .. BufferSize
    BY DEF TypeOK
  <1>6. WriteStep
    BY <1>1, <1>3, <1>5 DEF WriteStep, queueVars, bufferVars, controlVars
  <1> QED
    BY <1>4, <1>6, InvWriteStep

\* Line 203: a flush makes room, because no message exceeds the buffer.
LEMMA InvMakeRoomInBuffer ==
  ASSUME TypeOK, LoggerInv, MakeRoomInBuffer
  PROVE  TypeOK' /\ LoggerInv'
  <1> USE DEF MakeRoomInBuffer
  <1>1. /\ item[Worker] \in Messages /\ Size[item[Worker]] \in Nat
        /\ Size[item[Worker]] <= BufferSize
        /\ BufferSize \in Nat /\ buffer_offset \in 0 .. BufferSize
    BY SizeFits, Units DEF LoggerInv, HandInv, TypeOK
  <1>2. /\ buffer_offset' \in 0 .. BufferSize
        /\ buffer_offset' + Size[item[Worker]] <= BufferSize
        /\ total_written' \in Nat
    BY <1>1, FlushCounters DEF TypeOK
  <1>3. SpaceInv'
    BY <1>2 DEF LoggerInv, SpaceInv, RoomForMessage, controlVars, queueVars
  <1>4. mmap_size \in Nat /\ DOMAIN write_buffer = 1 .. BufferSize
    BY DEF TypeOK
  <1>5. WriteStep
    BY <1>2, <1>4 DEF WriteStep, queueVars, controlVars
  <1> QED
    BY <1>3, <1>5, InvWriteStep

\* Lines 199-200 and 207-208: the counters stay within the room made.
LEMMA InvPut ==
  ASSUME TypeOK, LoggerInv, PutInMapping \/ PutInBuffer
  PROVE  TypeOK' /\ LoggerInv'
  <1>1. /\ item[Worker] \in Messages /\ Size[item[Worker]] \in Nat
        /\ mmap_size \in Nat /\ total_written \in Nat
        /\ buffer_offset \in 0 .. BufferSize /\ BufferSize \in Nat
        /\ DOMAIN write_buffer = 1 .. BufferSize
    BY SizeFits, Units
       DEF LoggerInv, HandInv, TypeOK, PutInMapping, PutInBuffer
  <1>2. CASE PutInMapping
    <2> USE <1>2 DEF PutInMapping
    <2>1. total_written' \in Nat
      BY <1>1
    <2>2. SpaceInv'
      BY <1>1 DEF LoggerInv, SpaceInv, RoomForMessage, controlVars
    <2>3. WriteStep
      BY <1>1, <2>1 DEF WriteStep, queueVars, controlVars
    <2> QED
      BY <2>2, <2>3, InvWriteStep
  <1>3. CASE PutInBuffer
    <2> USE <1>3 DEF PutInBuffer
    <2>1. buffer_offset' \in 0 .. BufferSize
      BY <1>1 DEF LoggerInv, SpaceInv, RoomForMessage
    <2>2. SpaceInv'
      BY <1>1 DEF LoggerInv, SpaceInv, RoomForMessage, controlVars, fileVars
    <2>3. DOMAIN write_buffer' = 1 .. BufferSize
      BY <1>1 DEF Overwrite
    <2>4. WriteStep
      BY <1>1, <2>1, <2>3 DEF WriteStep, queueVars, controlVars, fileVars
    <2> QED
      BY <2>2, <2>4, InvWriteStep
  <1> QED
    BY <1>2, <1>3

-----------------------------------------------------------------------------
(* start() and stop() *)

\* Every step of the controlling thread keeps the invariant.
LEMMA InvControl ==
  ASSUME OneMappedSession,
         TypeOK, LoggerInv, Control
  PROVE  TypeOK' /\ LoggerInv'
  <1> USE SessionsNat DEF LoggerInv
  <1>1. UNCHANGED <<places, call, item, write_buffer, write_mode>>
    BY DEF Control, OpenFile, OpenFails, MapFails, StopCall,
           ControllerContinues, Spawn, Join, StopFlush, CloseFile, queueVars,
           bufferVars, controlVars
  <1>2. CASE OpenFile
    <2> USE <1>2 DEF OpenFile, ControllerFree, bufferVars, workerVars
    <2>1. TypeOK'
      BY <1>1, Units DEF TypeOK
    <2>0. sessions' > 0
      BY DEF TypeOK
    <2>2. LifeCycle' /\ HandInv'
      BY <1>1, <2>0 DEF LifeCycle, HandInv, Alive
    <2>3. write_mode = "MMAP" => sessions = 0
      BY DEF OneMappedSession, TypeOK
    <2>4. SpaceInv'
      BY <1>1, <2>3, Units DEF SpaceInv, RoomForMessage, LifeCycle, TypeOK
    <2> QED
      BY <2>1, <2>2, <2>4
  <1>3. CASE OpenFails \/ MapFails
    <2> USE <1>3 DEF OpenFails, MapFails, ControllerFree, bufferVars, workerVars, controlVars
    <2>1. TypeOK'
      BY <1>1 DEF TypeOK
    <2>2. LifeCycle' /\ HandInv'
      BY <1>1 DEF LifeCycle, HandInv, Alive
    <2>3. SpaceInv'
      BY <1>1 DEF SpaceInv, RoomForMessage
    <2> QED
      BY <2>1, <2>2, <2>3
  <1>4. CASE Spawn
    <2> USE <1>4 DEF Spawn, bufferVars, workerVars, fileVars
    <2>1. TypeOK'
      BY <1>1 DEF TypeOK
    <2>2. LifeCycle' /\ HandInv'
      BY <1>1 DEF LifeCycle, HandInv, Alive
    <2>3. SpaceInv'
      BY <1>1 DEF SpaceInv, RoomForMessage, LifeCycle
    <2> QED
      BY <2>1, <2>2, <2>3
  <1>5. CASE StopCall \/ Join
    <2> USE <1>5 DEF StopCall, Join, ControllerFree, bufferVars, workerVars, fileVars
    <2>1. TypeOK'
      BY <1>1 DEF TypeOK
    <2>2. LifeCycle' /\ HandInv'
      BY <1>1 DEF LifeCycle, HandInv, Alive
    <2>3. SpaceInv'
      BY <1>1 DEF SpaceInv, RoomForMessage
    <2> QED
      BY <2>1, <2>2, <2>3
  <1>6. CASE StopFlush
    <2> USE <1>6 DEF StopFlush, workerVars
    <2>1. TypeOK'
      BY <1>1, FlushCounters, Units DEF TypeOK
    <2>2. LifeCycle' /\ HandInv'
      BY <1>1 DEF LifeCycle, HandInv, Alive
    <2>3. SpaceInv'
      BY <1>1, FlushCounters DEF SpaceInv, RoomForMessage, LifeCycle
    <2> QED
      BY <2>1, <2>2, <2>3
  <1>7. CASE CloseFile
    <2> USE <1>7 DEF CloseFile, workerVars, bufferVars
    <2>1. TypeOK'
      BY <1>1 DEF TypeOK
    <2>2. LifeCycle' /\ HandInv'
      BY <1>1 DEF LifeCycle, HandInv, Alive
    <2>3. SpaceInv'
      BY <1>1 DEF SpaceInv, RoomForMessage
    <2> QED
      BY <2>1, <2>2, <2>3
  <1> QED
    BY <1>2, <1>3, <1>4, <1>5, <1>6, <1>7 DEF Control, ControllerContinues

-----------------------------------------------------------------------------
\* Every step keeps the invariant.
LEMMA InvStep ==
  ASSUME OneMappedSession,
         TypeOK, LoggerInv, [Next]_vars
  PROVE  TypeOK' /\ LoggerInv'
  <1>1. CASE Next
    BY <1>1, InvLog, InvDequeue, InvFlushWhenEmpty, InvMakeRoomInMapping,
       InvMakeRoomInBuffer, InvPut, InvControl DEF Next, WorkerLoop
  <1>2. CASE UNCHANGED vars
    <2> USE <1>2 DEF vars, queueVars, fileVars, bufferVars, controlVars,
                     workerVars, history
    <2>1. TypeOK'
      BY DEF TypeOK
    <2>2. LoggerInv'
      BY DEF LoggerInv, LifeCycle, HandInv, SpaceInv, RoomForMessage, Alive
    <2> QED
      BY <2>1, <2>2
  <1> QED
    BY <1>1, <1>2

\* The state of the logger is well typed and its life cycle, the message in
\* the worker's hands and the space it writes to are as LoggerInv says, for
\* every interleaving and every failure of a system call.
THEOREM LoggerInvariant ==
  ASSUME OneMappedSession
  PROVE  Spec => [](TypeOK /\ LoggerInv)
  <1>1. Init => TypeOK /\ LoggerInv
    BY InvInit
  <1>2. TypeOK /\ LoggerInv /\ [Next]_vars => (TypeOK /\ LoggerInv)'
    BY InvStep
  <1> QED
    BY <1>1, <1>2, PTL DEF Spec

\* The state of the logger is well typed; in particular buffer_offset_ never
\* exceeds BUFFER_SIZE.
THEOREM LoggerTypes ==
  ASSUME OneMappedSession
  PROVE  Spec => []TypeOK
  BY LoggerInvariant, PTL

\* serialize_message never writes outside the buffer or the mapping.
THEOREM RoomAlways ==
  ASSUME OneMappedSession
  PROVE  Spec => []RoomForMessage
  <1>1. LoggerInv => RoomForMessage
    BY DEF LoggerInv, SpaceInv
  <1> QED
    BY <1>1, LoggerInvariant, PTL

\* The worker and stop() never touch a file that is not open.
THEOREM FileAlwaysOpen ==
  ASSUME OneMappedSession
  PROVE  Spec => []FileOpenWhileUsed
  <1>1. LoggerInv => FileOpenWhileUsed
    BY DEF LoggerInv, LifeCycle, FileOpenWhileUsed
  <1> QED
    BY <1>1, LoggerInvariant, PTL

=============================================================================
