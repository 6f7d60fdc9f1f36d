--------------------------- MODULE ProgramsProofs ----------------------------
(***************************************************************************)
(* Proofs about the programs: what their second sections leave in the      *)
(* file and in the report, for every number of messages, size of the queue *)
(* and of the buffer, and whichever system calls of the logger fail.       *)
(***************************************************************************)
EXTENDS Programs, MessageLemmas

\* The logger of the second section with the theorems about it.
L == INSTANCE AsyncLoggerDataProofs WITH
  Producers <- {Main}, Controller <- Main,
  Size <- [m \in Messages |-> LogSizes[m[1]]],
  Alignment <- 1, InitialSize <- BufferSize,
  Modes <- {"BUFFERED"},
  MapsWriteOnly <- TRUE, MaxSessions <- [w \in {"BUFFERED"} |-> 1]

\* Where the main thread can be in a section: the calls of the logger belong
\* to the second, the pin's own scope to the demo.
PlaceInv ==
  /\ section \in 1 .. 3
  /\ step \in {"enter", "unpin", "next", "leave", "done", "aborted"} \/ Logs
  /\ step = "unpin" => program = "demo" /\ Pins
  /\ step = "aborted" => Logs

\* main starts with the first section.
LEMMA PlaceInit == Init => PlaceInv
  BY DEF Init, PlaceInv, Logs, Pins

\* No step leaves the places of its section.
LEMMA PlaceStep ==
  ASSUME PlaceInv, [Next]_vars
  PROVE  PlaceInv'
  <1> USE DEF PlaceInv, Logs, Pins, Goto
  <1>1. CASE Enter \/ EnterPinned \/ EndOfScope
    BY <1>1 DEF Enter, EnterPinned, EndOfScope
  <1>2. CASE Start \/ StartThread \/ CallLog \/ InsideLog \/ LogReturns
             \/ InsideStop
    <2>1. UNCHANGED <<program, section>> /\ Logs
      BY <1>2 DEF Start, StartThread, CallLog, InsideLog, LogReturns,
                  InsideStop, mainVars
    <2> QED
      BY <1>2, <2>1 DEF Start, StartThread, CallLog, InsideLog, LogReturns,
                        InsideStop, mainVars
  <1>3. CASE ParseNext \/ EndOfLoop
    <2>1. /\ UNCHANGED <<program, section>>
          /\ step' \in {"next", "leave"} \/ (step' \in {"log", "stopping"} /\ Logs)
      BY <1>3 DEF ParseNext, EndOfLoop, Count
    <2> QED
      BY <2>1
  <1>4. CASE Leave
    <2>1. section' \in 1 .. 3 /\ step' \in {"enter", "done"}
      BY <1>4 DEF Leave
    <2> QED
      BY <2>1
  <1>5. CASE WorkerThread \/ UNCHANGED vars
    <2>1. UNCHANGED <<program, section, step>>
      BY <1>5 DEF WorkerThread, vars, mainVars
    <2> QED
      BY <2>1
  <1> QED
    BY <1>1, <1>2, <1>3, <1>4, <1>5 DEF Next, MainThread

-----------------------------------------------------------------------------
(* The messages of the programs *)

\* The sizes the logger asks for are those of the structs.
LEMMA LogSizesAre ==
  /\ DOMAIN LogSizes = {"A", "E", "P"}
  /\ \A t \in {"A", "E", "P"} : /\ t \in DOMAIN Structs
                                /\ LogSizes[t] = sizeof(Structs[t])
                                /\ LogSizes[t] \in Nat \ {0}
  <1>1. ASSUME NEW t \in {"A", "E", "P"}
        PROVE  /\ t \in DOMAIN Structs
               /\ get_message_size([type |-> t]) = sizeof(Structs[t])
               /\ sizeof(Structs[t]) \in Nat \ {0}
    <2>1. t \in DOMAIN Structs
      BY DEF Structs
    <2>2. PICK msg : msg = [type |-> t]
      OBVIOUS
    <2>3. msg.type = t
      BY <2>2
    <2>4. get_message_size(msg) = sizeof(Structs[t])
      BY <2>1, <2>3, LogCases
    <2>5. /\ Structs[t] \in Seq(Field)
          /\ sizeof(ITCHMessageHeader) <= sizeof(Structs[t])
      BY <2>1, StructsLayout DEF Layout
    <2>6. sizeof(Structs[t]) \in Nat
      BY <2>5, SizeOf
    <2> QED
      BY <2>1, <2>2, <2>4, <2>5, <2>6, HeaderLayout
  <1> DEFINE a == get_message_size([type |-> "A"])
             e == get_message_size([type |-> "E"])
             p == get_message_size([type |-> "P"])
  <1>2. LogSizes = [A |-> a, E |-> e, P |-> p]
    BY DEF LogSizes, MessageType
  <1> HIDE DEF a, e, p
  <1>3. /\ DOMAIN LogSizes = {"A", "E", "P"}
        /\ LogSizes["A"] = a /\ LogSizes["E"] = e /\ LogSizes["P"] = p
    BY <1>2
  <1> QED
    BY <1>1, <1>3 DEF a, e, p

\* What the loops look at in a message of the programs.
Wellformed(message) ==
  /\ message.has_value
  /\ message.type \in DOMAIN LogSizes
  /\ message.length = LogSizes[message.type]

\* A message from a generator that assigns every field is well formed.
LEMMA GeneratedWellformed ==
  ASSUME NEW t \in {"A", "E", "P"}, NEW assigned, Complete(t, assigned)
  PROVE  Wellformed(Message(Fill(Structs[t], assigned)))
  <1> DEFINE bytes == Fill(Structs[t], assigned)
             message == Message(bytes)
             member == Assign(Structs[t], Tables[t], bytes)
  <1>1. /\ Len(bytes) = sizeof(Structs[t])
        /\ parse(bytes) = [has_value |-> TRUE, type |-> t, member |-> member]
    BY GeneratedParsed, Zenon
  <1>2. message = [length |-> Len(bytes), has_value |-> parse(bytes).has_value,
                   type |-> parse(bytes).type]
    BY DEF Message
  <1> HIDE DEF bytes, message, member
  <1>3. parse(bytes).has_value = TRUE /\ parse(bytes).type = t
    BY <1>1
  <1>4. message.has_value = TRUE /\ message.type = t
        /\ message.length = sizeof(Structs[t])
    BY <1>1, <1>2, <1>3
  <1>5. message.has_value
    BY <1>4, Zenon
  <1>6. message.type \in DOMAIN LogSizes
        /\ message.length = LogSizes[message.type]
    BY <1>4, LogSizesAre
  <1> QED
    BY <1>5, <1>6, Zenon DEF Wellformed, message, bytes

\* All the messages of the programs.
Produced ==
  {AddOrder, ExecuteOrder, OrderAAPL, OrderMSFT, OrderTSLA, TradeGOOGL,
   TradeNVDA}

\* They parse, and the logger needs their length for them.
LEMMA AllWellformed == \A message \in Produced : Wellformed(message)
  <1>1. /\ Complete("A", OrderOf("rdtsc", Value("B", 8), Value("100", 32),
                                 Value("AAPL", 32), Value("1500000", 32)))
        /\ \A s : Complete("A", OrderOf("midnight", Value("side", 8),
                     Value("shares", 32), s, Value("price_cents", 32)))
    BY OrderComplete, PartsAreSeqs
  <1>2. \A s : Complete("P", TradeOf(s))
    BY TradeComplete
  <1>3. Complete("E", ExecuteOf)
    BY ExecuteComplete
  <1>4. /\ Wellformed(Message(generate_add_order))
        /\ \A s : Wellformed(Message(create_add_order(s)))
    BY <1>1, GeneratorsFill, GeneratedWellformed
  <1>5. \A s : Wellformed(Message(create_trade(s)))
    BY <1>2, GeneratorsFill, GeneratedWellformed
  <1>6. Wellformed(Message(generate_execute_order))
    BY <1>3, GeneratorsFill, GeneratedWellformed
  <1> QED
    BY <1>4, <1>5, <1>6 DEF Produced, AddOrder, ExecuteOrder, OrderAAPL,
       OrderMSFT, OrderTSLA, TradeGOOGL, TradeNVDA

\* The batches consist of such messages, the logger's is no longer than its
\* bound, and the main thread has not taken more messages than there are.
BatchInv ==
  /\ batches \in [1 .. 3 -> Seq(Produced)]
  /\ Len(batches[2]) <= MaxMessages
  /\ i \in 0 .. Len(batch)
  /\ step \in {"log", "logging"} => i >= 1

\* Alternate makes a sequence of n messages.
LEMMA AlternateSeq ==
  ASSUME NEW n \in Nat, NEW even \in Produced, NEW odd \in Produced
  PROVE  /\ Alternate(n, even, odd) \in Seq(Produced)
         /\ Len(Alternate(n, even, odd)) = n
  BY DEF Alternate

\* main makes all its messages before it takes the first.
LEMMA BatchInit == Init => PlaceInv /\ BatchInv
  <1> SUFFICES ASSUME Init PROVE PlaceInv /\ BatchInv
    OBVIOUS
  <1>1. PlaceInv
    BY PlaceInit
  <1>2. num_messages \in Nat /\ num_messages <= MaxMessages
    BY MaxMessagesNat DEF Init
  <1>3. {AddOrder, ExecuteOrder, OrderAAPL, OrderMSFT, OrderTSLA, TradeGOOGL,
         TradeNVDA} \subseteq Produced
    BY DEF Produced
  <1>4. /\ BenchmarkMessages(num_messages) \in Seq(Produced)
        /\ demo_async_logging(num_messages) \in Seq(Produced)
        /\ demo_performance_features(num_messages) \in Seq(Produced)
        /\ Len(BenchmarkMessages(num_messages)) = num_messages
        /\ Len(demo_async_logging(num_messages)) = num_messages
    BY <1>2, <1>3, AlternateSeq DEF BenchmarkMessages, demo_async_logging,
                                    demo_performance_features
  <1>5. demo_basic_parsing \in Seq(Produced)
    BY <1>3 DEF demo_basic_parsing
  <1>6. batches \in [1 .. 3 -> Seq(Produced)] /\ Len(batches[2]) = num_messages
    <2>1. CASE program = "benchmark"
      BY <1>4, <2>1 DEF Init
    <2>2. CASE program # "benchmark"
      <3> DEFINE a == demo_basic_parsing
                 b == demo_async_logging(num_messages)
                 c == demo_performance_features(num_messages)
      <3>1. batches = <<a, b, c>>
        BY <2>2 DEF Init
      <3>2. a \in Seq(Produced) /\ b \in Seq(Produced) /\ c \in Seq(Produced)
        BY <1>4, <1>5
      <3> HIDE DEF a, b, c
      <3>3. batches \in [1 .. 3 -> Seq(Produced)] /\ batches[2] = b
        BY <3>1, <3>2
      <3> QED
        BY <1>4, <3>3 DEF b
    <2> QED
      BY <2>1, <2>2
  <1>7. batch \in Seq(Produced) /\ Len(batch) \in Nat
    BY <1>6, LenProperties DEF Init, batch
  <1> QED
    BY <1>1, <1>2, <1>6, <1>7 DEF BatchInv, Init

\* Every step keeps it.
LEMMA BatchStep ==
  ASSUME PlaceInv, BatchInv, [Next]_vars
  PROVE  BatchInv'
  <1> USE DEF Goto
  <1>1. /\ batch \in Seq(Produced) /\ Len(batch) \in Nat
        /\ \A s \in 1 .. 3 : Len(batches[s]) \in Nat
    BY LenProperties DEF BatchInv, PlaceInv, batch
  <1>2. CASE Enter \/ EnterPinned \/ EndOfScope \/ Start \/ StartThread
             \/ CallLog \/ InsideLog \/ LogReturns \/ EndOfLoop \/ InsideStop
             \/ WorkerThread \/ UNCHANGED vars
    <2>1. UNCHANGED <<batches, section, i>>
      BY <1>2 DEF Enter, EnterPinned, EndOfScope, Start, StartThread, CallLog,
         InsideLog, LogReturns, EndOfLoop, InsideStop, WorkerThread, vars,
         mainVars
    <2>2. step' \in {"log", "logging"} => step \in {"log", "logging"}
      BY <1>2 DEF Enter, EnterPinned, EndOfScope, Start, StartThread, CallLog,
         InsideLog, LogReturns, EndOfLoop, InsideStop, WorkerThread, vars,
         mainVars
    <2> QED
      BY <2>1, <2>2 DEF BatchInv, batch
  <1>3. CASE ParseNext
    <2>1. UNCHANGED <<batches, section>> /\ i' = i + 1 /\ i < Len(batch)
      BY <1>3 DEF ParseNext
    <2> QED
      BY <1>1, <2>1 DEF BatchInv, batch
  <1>4. CASE Leave
    <2>1. /\ UNCHANGED batches /\ step' \in {"enter", "done"}
          /\ \/ i' = 0 /\ section' \in 1 .. 3
             \/ UNCHANGED <<i, section>>
      BY <1>4 DEF Leave, PlaceInv
    <2> QED
      BY <1>1, <2>1 DEF BatchInv, batch
  <1> QED
    BY <1>2, <1>3, <1>4 DEF Next, MainThread

-----------------------------------------------------------------------------
(* The logger inside the program is the logger of the theorems *)

\* main constructs the logger that the theorems start from.
LEMMA LoggerInit == Init => L!Init
  BY DEF Init, Logger!Init, L!Init, Logger!Queue!Init, L!Queue!Init,
         Logger!Queue!Threads, L!Queue!Threads

\* flush() in both instances.
LEMMA SameFlush == Logger!Flush => L!Flush
  BY DEF Logger!Flush, L!Flush, Logger!WriteResults, L!WriteResults,
         Logger!BytesToWrite, L!BytesToWrite, Logger!RoundUp, L!RoundUp

\* The message of a call of log() is one the logger knows.
LEMMA CurrentKnown ==
  ASSUME PlaceInv, BatchInv, Logs, i >= 1
  PROVE  /\ <<Current.type, i>> \in Messages
         /\ Current = batches[2][i] /\ i \in 1 .. Len(batches[2])
         /\ Wellformed(Current)
  <1>1. /\ batches[2] \in Seq(Produced) /\ Len(batches[2]) \in Nat
        /\ batch = batches[2]
    BY LenProperties DEF BatchInv, batch, Logs
  <1>2. i \in 1 .. Len(batches[2]) /\ i \in 1 .. MaxMessages
    BY <1>1, MaxMessagesNat DEF BatchInv
  <1>3. Current = batches[2][i] /\ Current \in Produced
    BY <1>1, <1>2 DEF Current
  <1>4. Wellformed(Current)
    BY <1>3, AllWellformed
  <1> QED
    BY <1>2, <1>3, <1>4 DEF Messages, Wellformed

\* Each step of the main thread that touches the logger is one of its calls.
LEMMA MainLoggerStep ==
  ASSUME PlaceInv, BatchInv
  PROVE  /\ Start => L!Next
         /\ StartThread => L!Next
         /\ CallLog => L!LogCall(Main, <<Current.type, i>>) /\ L!Next
         /\ InsideLog => L!LogReserve(Main) /\ L!Next
         /\ LogReturns => L!LogReturn(Main) /\ L!Next
         /\ EndOfLoop /\ Logs => L!StopCall /\ L!Next
         /\ InsideStop => L!ControllerContinues /\ L!Next
  <1> USE DEF Logger!Alive, L!Alive, Logger!ControllerFree, L!ControllerFree,
              Logger!queueVars, L!queueVars, Logger!fileVars, L!fileVars,
              Logger!bufferVars, L!bufferVars, Logger!controlVars,
              L!controlVars, Logger!workerVars, L!workerVars,
              Logger!history, L!history, Logger!ToSet, L!ToSet
  <1>1. Logger!OpenFile => L!OpenFile
    BY DEF Logger!OpenFile, L!OpenFile, Logger!Truncated, L!Truncated,
           Logger!QueuedMessages, L!QueuedMessages, Logger!Resize, L!Resize,
           Logger!Cell, L!Cell
  <1>2. Logger!OpenFails => L!OpenFails
    BY DEF Logger!OpenFails, L!OpenFails
  <1>3. Logger!Spawn => L!Spawn
    BY DEF Logger!Spawn, L!Spawn
  <1>4. \A m : Logger!LogCall(Main, m) => L!LogCall(Main, m)
    BY DEF Logger!LogCall, L!LogCall, Logger!Queue!BeginEnqueue,
           L!Queue!BeginEnqueue, Logger!Queue!Begin, L!Queue!Begin
  <1>5. Logger!LogReserve(Main) => L!LogReserve(Main)
    BY DEF Logger!LogReserve, L!LogReserve, Logger!Queue!Reserve,
           L!Queue!Reserve
  <1>6. Logger!LogReturn(Main) => L!LogReturn(Main)
    BY DEF Logger!LogReturn, L!LogReturn, Logger!Queue!Commit,
           L!Queue!Commit, Logger!Queue!RefuseEnqueue, L!Queue!RefuseEnqueue,
           Logger!Queue!End, L!Queue!End, Logger!Queue!Threads,
           L!Queue!Threads
  <1>7. Logger!StopCall => L!StopCall
    BY DEF Logger!StopCall, L!StopCall, Logger!Accepted, L!Accepted,
           Logger!Reserved, L!Reserved
  <1>8. Logger!Join => L!Join
    BY DEF Logger!Join, L!Join
  <1>9. Logger!StopFlush => L!StopFlush
    BY SameFlush DEF Logger!StopFlush, L!StopFlush
  <1>10. Logger!CloseFile => L!CloseFile
    BY DEF Logger!CloseFile, L!CloseFile, Logger!Resize, L!Resize,
           Logger!Cell, L!Cell
  <1>11. Logger!ControllerContinues => L!ControllerContinues
    BY <1>3, <1>8, <1>9, <1>10
       DEF Logger!ControllerContinues, L!ControllerContinues
  <1>12. L!OpenFile \/ L!OpenFails \/ L!StopCall \/ L!ControllerContinues
           => L!Next
    BY DEF L!Next, L!Control
  <1>13. L!Log(Main) => L!Next
    BY DEF L!Next
  <1>14. CallLog => Logs /\ i >= 1
    BY DEF CallLog, PlaceInv, BatchInv
  <1>15. CallLog => L!LogCall(Main, <<Current.type, i>>) /\ L!Next
    BY <1>4, <1>13, <1>14, CurrentKnown DEF CallLog, L!Log
  <1>16. /\ InsideLog => L!LogReserve(Main) /\ L!Next
         /\ LogReturns => L!LogReturn(Main) /\ L!Next
    BY <1>5, <1>6, <1>13 DEF InsideLog, LogReturns, L!Log
  <1> QED
    BY <1>1, <1>2, <1>3, <1>7, <1>11, <1>12, <1>15, <1>16
       DEF Start, StartThread, EndOfLoop, InsideStop, L!ControllerContinues

\* Each step of the worker thread is one of worker_loop().
LEMMA WorkerLoggerStep == WorkerThread => L!WorkerLoop /\ L!Next
  <1> USE DEF Logger!queueVars, L!queueVars, Logger!fileVars, L!fileVars,
              Logger!bufferVars, L!bufferVars, Logger!controlVars,
              L!controlVars, Logger!workerVars, L!workerVars,
              Logger!history, L!history, Logger!Queue!Begin, L!Queue!Begin,
              Logger!Queue!End, L!Queue!End, Logger!Queue!FirstFilled,
              L!Queue!FirstFilled
  <1>1. Logger!LoopTest => L!LoopTest
    BY DEF Logger!LoopTest, L!LoopTest, Logger!Queue!BeginDequeue,
           L!Queue!BeginDequeue
  <1>2. Logger!Dequeue => L!Dequeue
    BY DEF Logger!Dequeue, L!Dequeue, Logger!Queue!Take, L!Queue!Take,
           Logger!Queue!Free, L!Queue!Free
  <1>3. Logger!DequeueFails => L!DequeueFails
    BY DEF Logger!DequeueFails, L!DequeueFails, Logger!Queue!RefuseDequeue,
           L!Queue!RefuseDequeue
  <1>4. Logger!FlushWhenEmpty => L!FlushWhenEmpty
    BY SameFlush DEF Logger!FlushWhenEmpty, L!FlushWhenEmpty
  <1>5. Logger!MakeRoomInMapping => L!MakeRoomInMapping
    BY DEF Logger!MakeRoomInMapping, L!MakeRoomInMapping, Logger!ExpandMmap,
           L!ExpandMmap, Logger!Resize, L!Resize, Logger!Cell, L!Cell
  <1>6. Logger!MakeRoomInBuffer => L!MakeRoomInBuffer
    BY SameFlush DEF Logger!MakeRoomInBuffer, L!MakeRoomInBuffer
  <1>7. Logger!PutInMapping => L!PutInMapping
    BY DEF Logger!PutInMapping, L!PutInMapping, Logger!Overwrite,
           L!Overwrite, Logger!Cell, L!Cell, Logger!Encode, L!Encode
  <1>8. Logger!PutInBuffer => L!PutInBuffer
    BY DEF Logger!PutInBuffer, L!PutInBuffer, Logger!Overwrite, L!Overwrite,
           Logger!Encode, L!Encode
  <1>9. Logger!WorkerLoop => L!WorkerLoop
    BY <1>1, <1>2, <1>3, <1>4, <1>5, <1>6, <1>7, <1>8
       DEF Logger!WorkerLoop, L!WorkerLoop
  <1> QED
    BY <1>9 DEF WorkerThread, L!Next

\* The program as a whole takes steps of the logger or leaves it alone.
LEMMA LoggerStep ==
  ASSUME PlaceInv, BatchInv, [Next]_vars
  PROVE  [L!Next]_(L!vars)
  <1>1. CASE Enter \/ EnterPinned \/ EndOfScope \/ ParseNext
             \/ (EndOfLoop /\ ~ Logs) \/ Leave \/ UNCHANGED vars
    <2>1. UNCHANGED loggerVars
      BY <1>1 DEF Enter, EnterPinned, EndOfScope, ParseNext, EndOfLoop, Leave,
                  vars
    <2>2. UNCHANGED L!vars
      BY <2>1 DEF loggerVars, L!vars, L!queueVars, L!fileVars, L!bufferVars,
                  L!controlVars, L!workerVars, L!history
    <2> QED
      BY <2>2
  <1> QED
    BY <1>1, MainLoggerStep, WorkerLoggerStep DEF Next, MainThread

\* What the theorems about the logger assume of its constants.
LEMMA LoggerAssumptions ==
  /\ [m \in Messages |-> LogSizes[m[1]]] \in [Messages -> Nat \ {0}]
  /\ \A m \in Messages : [n \in Messages |-> LogSizes[n[1]]][m] <= BufferSize
  /\ BufferSize \in Nat /\ BufferSize % 1 = 0 /\ 1 \in Nat \ {0}
  /\ Worker \notin {Main} /\ Main # Worker
  /\ Nobody \notin {Main} \cup {Worker}
  /\ [w \in {"BUFFERED"} |-> 1] \in [{"BUFFERED"} -> Nat]
  /\ Faults \subseteq {"open", "ftruncate", "mmap", "thread", "short", "write"}
  /\ L!OneMappedSession
  <1>1. \A m \in Messages : LogSizes[m[1]] \in Nat \ {0}
                            /\ LogSizes[m[1]] <= BufferSize
    BY LogSizesAre, MessagesFit DEF Messages
  <1>2. L!OneMappedSession
    BY DEF L!OneMappedSession
  <1> QED
    BY <1>1, <1>2, MessagesFit, DistinctThreads, BufferedFaults

\* What is proved of the logger.
LoggerFacts == L!TypeOK /\ L!LoggerInv /\ L!DataInv /\ L!WholeInv

\* The invariants of the logger hold inside the programs.
LEMMA LoggerFactsHold == FairSpec => [](PlaceInv /\ BatchInv /\ LoggerFacts)
  <1>1. FairSpec => []PlaceInv
    BY PlaceInit, PlaceStep, PTL DEF FairSpec
  <1>2. FairSpec => [](PlaceInv /\ BatchInv)
    BY <1>1, BatchInit, BatchStep, PTL DEF FairSpec
  <1>3. FairSpec => L!Spec
    BY <1>2, LoggerInit, LoggerStep, PTL DEF FairSpec, L!Spec
  <1>4. L!Spec => [](L!TypeOK /\ L!LoggerInv /\ L!DataInv)
    BY LoggerAssumptions, L!DataInvariant
  <1>5. L!Spec => []L!WholeInv
    BY LoggerAssumptions, L!WholeInvariant
  <1>6. L!TypeOK /\ L!LoggerInv /\ L!DataInv /\ L!WholeInv => LoggerFacts
    BY DEF LoggerFacts
  <1> QED
    BY <1>2, <1>3, <1>4, <1>5, <1>6, PTL

-----------------------------------------------------------------------------
(* What has been logged and counted *)

\* The first n messages of the second section, as the logger knows them.
Sent(n) == [k \in 1 .. n |-> <<batches[2][k].type, k>>]

\* One more message, and the bytes it takes.
LEMMA SentLaws ==
  ASSUME BatchInv
  PROVE  /\ Sent(0) = <<>> /\ Len(L!Encodings(Sent(0))) = 0
         /\ \A n \in 0 .. Len(batches[2]) :
              /\ Sent(n) \in Seq(Messages) /\ Len(Sent(n)) = n
              /\ Len(L!Encodings(Sent(n))) \in Nat
         /\ \A n \in 1 .. Len(batches[2]) :
              /\ Sent(n) = Append(Sent(n - 1), <<batches[2][n].type, n>>)
              /\ batches[2][n].length \in Nat
              /\ Len(L!Encodings(Sent(n)))
                   = Len(L!Encodings(Sent(n - 1))) + batches[2][n].length
  <1> DEFINE b == batches[2]
  <1>1. b \in Seq(Produced) /\ Len(b) \in Nat /\ Len(b) <= MaxMessages
    BY LenProperties DEF BatchInv
  <1>2. \A k \in 1 .. Len(b) :
          /\ b[k].type \in DOMAIN LogSizes /\ b[k].length = LogSizes[b[k].type]
          /\ <<b[k].type, k>> \in Messages
    <2>1. \A k \in 1 .. Len(b) : b[k] \in Produced /\ k \in 1 .. MaxMessages
      BY <1>1, MaxMessagesNat
    <2> HIDE DEF b
    <2> QED
      BY <2>1, AllWellformed DEF Wellformed, Messages
  <1>3. ASSUME NEW n \in 0 .. Len(b)
        PROVE  Sent(n) \in Seq(Messages) /\ Len(Sent(n)) = n
    <2>1. Sent(n) \in [1 .. n -> Messages]
      BY <1>1, <1>2 DEF Sent
    <2> QED
      BY <2>1
  <1> HIDE DEF b
  <1>4. ASSUME NEW n \in 0 .. Len(b)
        PROVE  Len(L!Encodings(Sent(n))) \in Nat
    <2>1. L!Encodings(Sent(n)) \in Seq(L!Unit)
      BY <1>3, LoggerAssumptions, L!EncodingsType
    <2> QED
      BY <2>1, LenProperties
  <1>5. Sent(0) = <<>>
    BY DEF Sent
  <1>6. L!Encodings(<<>>) = <<>>
    BY LoggerAssumptions, L!EncodingsOne
  <1>7. ASSUME NEW n \in 1 .. Len(b)
        PROVE  /\ Sent(n) = Append(Sent(n - 1), <<b[n].type, n>>)
               /\ b[n].length \in Nat
               /\ Len(L!Encodings(Sent(n)))
                    = Len(L!Encodings(Sent(n - 1))) + b[n].length
    <2> DEFINE s == Sent(n - 1)
               m == <<b[n].type, n>>
    <2>0. n - 1 \in 0 .. Len(b)
      BY <1>1
    <2>1. s \in Seq(Messages) /\ Len(s) = n - 1 /\ m \in Messages
      BY <1>2, <1>3, <2>0
    <2>2. Sent(n) = Append(s, m)
      <3>1. Sent(n) \in Seq(Messages) /\ Len(Sent(n)) = n
        BY <1>1, <1>3
      <3>2. \A k \in 1 .. n : Sent(n)[k] = IF k = n THEN m ELSE s[k]
        BY DEF Sent, b
      <3> HIDE DEF s, m
      <3>3. Append(s, m) \in Seq(Messages) /\ Len(Append(s, m)) = n
            /\ \A k \in 1 .. n : Append(s, m)[k] = IF k = n THEN m ELSE s[k]
        BY <2>1
      <3> QED
        BY <3>1, <3>2, <3>3, SeqEqual
    <2>3. L!Encode(m) \in Seq(L!Unit) /\ Len(L!Encode(m)) = LogSizes[m[1]]
      BY <2>1, LoggerAssumptions, L!EncodeType
    <2>4. m[1] = b[n].type
      OBVIOUS
    <2> HIDE DEF s, m
    <2>5. Sent(n) = s \o <<m>> /\ <<m>> \in Seq(Messages)
      BY <2>1, <2>2
    <2>6. L!Encodings(s \o <<m>>) = L!Encodings(s) \o L!Encodings(<<m>>)
      BY <2>1, <2>5, LoggerAssumptions, L!EncodingsConcat
    <2>7. L!Encodings(<<m>>) = L!Encode(m)
      BY <2>1, LoggerAssumptions, L!EncodingsOne
    <2>8. L!Encodings(s) \in Seq(L!Unit)
      BY <2>1, LoggerAssumptions, L!EncodingsType
    <2> DEFINE x == L!Encodings(s)
               y == L!Encode(m)
    <2>9. L!Encodings(Sent(n)) = x \o y
      BY <2>5, <2>6, <2>7
    <2>10. x \in Seq(L!Unit) /\ y \in Seq(L!Unit)
      BY <2>3, <2>8
    <2>11. b[n].length = Len(y) /\ Len(y) \in Nat
      BY <1>2, <2>3, <2>4, <2>10, LenProperties
    <2> HIDE DEF x, y
    <2>12. Len(x \o y) = Len(x) + Len(y)
      BY <2>10, ConcatProperties
    <2> QED
      BY <2>2, <2>9, <2>11, <2>12 DEF x, s, m
  <1>8. Len(L!Encodings(Sent(0))) = 0
    BY <1>5, <1>6
  <1> QED
    BY <1>3, <1>4, <1>5, <1>7, <1>8, Zenon DEF b

\* The bytes of the first n messages, and how many have been counted.
Bytes(n) == Len(L!Encodings(Sent(n)))

Counted == IF step \in {"log", "logging"} THEN i - 1 ELSE i

\* The counters of the report, at every moment of a section.
CountInv ==
  /\ stats.total_messages = Counted
  /\ Logs => stats.total_bytes = Bytes(Counted)

\* The batches are made once.
LEMMA SameSent ==
  ASSUME batches' = batches
  PROVE  \A n : Sent(n)' = Sent(n) /\ Bytes(n)' = Bytes(n)
  <1>1. ASSUME NEW n PROVE Sent(n)' = Sent(n)
    BY DEF Sent
  <1>2. ASSUME NEW n PROVE Bytes(n)' = Bytes(n)
    BY <1>1 DEF Bytes
  <1> QED
    BY <1>1, <1>2

\* The programs' messages parse, so that ParseNext goes on to log or to count.
LEMMA NextParses ==
  ASSUME PlaceInv, BatchInv, ParseNext
  PROVE  /\ Logs => step' = "log" /\ UNCHANGED stats
         /\ ~ Logs => Count(batch[i + 1]) /\ UNCHANGED step
  <1>1. /\ batch \in Seq(Produced) /\ Len(batch) \in Nat
        /\ i + 1 \in 1 .. Len(batch)
    BY LenProperties DEF ParseNext, BatchInv, PlaceInv, batch
  <1>2. batch[i + 1] \in Produced
    BY <1>1
  <1>3. batch[i + 1].has_value
    BY <1>2, AllWellformed, Zenon DEF Wellformed
  <1> QED
    BY <1>3, Zenon DEF ParseNext

\* No message has been counted.
LEMMA CountInit == Init => CountInv
  <1> SUFFICES ASSUME Init PROVE CountInv
    OBVIOUS
  <1>1. BatchInv /\ stats.total_messages = 0 /\ stats.total_bytes = 0
        /\ Counted = 0
    BY BatchInit DEF Init, NoStats, Counted
  <1>2. Bytes(0) = 0
    BY <1>1, SentLaws DEF Bytes
  <1> QED
    BY <1>1, <1>2 DEF CountInv

\* Every step counts a message at most once, and none that is not accepted.
LEMMA CountStep ==
  ASSUME PlaceInv, BatchInv, CountInv, [Next]_vars
  PROVE  CountInv'
  <1> USE DEF Goto
  <1>0. /\ batch \in Seq(Produced) /\ Len(batch) \in Nat /\ i \in 0 .. Len(batch)
        /\ Logs => batch = batches[2]
    BY LenProperties DEF BatchInv, PlaceInv, batch, Logs
  <1>1. CASE UNCHANGED <<stats, i, section, batches>> /\ Counted' = Counted
    <2>1. Bytes(Counted)' = Bytes(Counted)
      BY <1>1, SameSent DEF Bytes, Sent
    <2> QED
      BY <1>1, <2>1 DEF CountInv, Logs
  <1>2. CASE Enter \/ EnterPinned \/ EndOfScope \/ Start \/ StartThread
             \/ CallLog \/ InsideLog \/ EndOfLoop \/ InsideStop
             \/ WorkerThread \/ UNCHANGED vars
    <2>1. UNCHANGED <<stats, i, section, batches>> /\ Counted' = Counted
      BY <1>2 DEF Enter, EnterPinned, EndOfScope, Start, StartThread, CallLog,
         InsideLog, EndOfLoop, InsideStop, WorkerThread, vars, mainVars,
         Counted
    <2> QED
      BY <1>1, <2>1
  <1>3. CASE LogReturns
    <2>1. CASE UNCHANGED stats /\ step' = "log"
      <3>1. UNCHANGED <<stats, i, section, batches>> /\ Counted' = Counted
        BY <1>3, <2>1 DEF LogReturns, Counted
      <3> QED
        BY <1>1, <3>1
    <2>2. CASE Count(Current) /\ step' = "next"
      <3>1. /\ UNCHANGED <<i, section, batches>> /\ Logs
            /\ i >= 1 /\ Counted = i - 1 /\ Counted' = i
        BY <1>3, <2>2 DEF LogReturns, Counted, BatchInv, PlaceInv
      <3>2. Current = batches[2][i] /\ i \in 1 .. Len(batches[2])
        BY <3>1, CurrentKnown
      <3>3. Bytes(i) = Bytes(i - 1) + Current.length
        BY <3>2, SentLaws DEF Bytes
      <3>4. Bytes(Counted)' = Bytes(i)
        BY <3>1, SameSent DEF Bytes, Sent
      <3>5. /\ stats'.total_messages = stats.total_messages + 1
            /\ stats'.total_bytes = stats.total_bytes + Current.length
        BY <2>2 DEF Count
      <3> QED
        BY <1>0, <3>1, <3>3, <3>4, <3>5 DEF CountInv
    <2> QED
      BY <1>3, <2>1, <2>2 DEF LogReturns
  <1>4. CASE ParseNext
    <2>1. /\ UNCHANGED <<section, batches>> /\ i' = i + 1
          /\ step = "next" /\ Counted = i
          /\ i + 1 \in 1 .. Len(batch)
      BY <1>0, <1>4 DEF ParseNext, Counted
    <2>3. CASE Logs
      <3>1. step' = "log" /\ UNCHANGED stats
        BY <1>4, <2>3, NextParses
      <3>2. Counted' = i
        BY <1>0, <2>1, <3>1 DEF Counted
      <3>3. Bytes(Counted)' = Bytes(i)
        BY <2>1, <3>2, SameSent DEF Bytes, Sent
      <3> QED
        BY <2>1, <2>3, <3>1, <3>2, <3>3 DEF CountInv
    <2>4. CASE ~ Logs
      <3>1. Count(batch[i + 1]) /\ UNCHANGED step
        BY <1>4, <2>4, NextParses
      <3>2. Counted' = i + 1 /\ ~ Logs'
        BY <2>1, <2>4, <3>1 DEF Counted, Logs
      <3>3. stats'.total_messages = stats.total_messages + 1
        BY <3>1 DEF Count
      <3> QED
        BY <2>1, <3>2, <3>3 DEF CountInv
    <2> QED
      BY <2>3, <2>4
  <1>5. CASE Leave
    <2>1. CASE section < 3
      <3>1. /\ stats'.total_messages = 0 /\ stats'.total_bytes = 0
            /\ batches' = batches /\ Counted' = 0
        BY <1>5, <2>1 DEF Leave, NoStats, Counted
      <3>2. Bytes(0) = 0
        BY SentLaws DEF Bytes
      <3>3. Bytes(Counted)' = Bytes(0)
        BY <3>1, SameSent DEF Bytes, Sent
      <3> QED
        BY <3>1, <3>2, <3>3 DEF CountInv
    <2>2. CASE ~ (section < 3)
      <3>1. UNCHANGED <<stats, i, section, batches>> /\ Counted' = Counted
        BY <1>5, <2>2 DEF Leave, Counted
      <3> QED
        BY <1>1, <3>1
    <2> QED
      BY <2>1, <2>2
  <1> QED
    BY <1>2, <1>3, <1>4, <1>5 DEF Next, MainThread

-----------------------------------------------------------------------------
(* The logger's session, stage by stage *)

\* How many of the section's messages have a place in the queue.
Claims ==
  IF step = "log" \/ (step = "logging" /\ call[Main] = "enqueue")
  THEN i - 1 ELSE i

\* The counter is the length of the data, unless a short write() has been
\* counted in full.
Exact == ~ lost \/ "short" \notin Faults

\* In BUFFERED mode the worker does not die, and only the main thread reserves
\* places.
SoundInv ==
  /\ wpc # "terminated" /\ Main \in DOMAIN ret
  /\ Exact => Len(L!FileData) = total_written
  /\ \A k \in DOMAIN places :
       places[k].owner # Nobody => call[Main] = "reserved"

\* Before start() returns: nothing has happened to the logger.
FreshInv ==
  section = 1 \/ (Logs /\ step \in {"enter", "spawn"}) =>
    /\ claimed = <<>> /\ places = <<>> /\ total_written = 0
    /\ call[Main] = "none" /\ wpc = "none"
    /\ Logs => i = 0

\* While the section logs: the worker stays in its first loop.
RunningInv ==
  Logs /\ step \in {"next", "log", "logging"} =>
    /\ running /\ ~ draining
    /\ wpc \notin {"none", "done"}

\* The messages taken so far are the ones claimed, and the one in the call of
\* log() is the last taken.
ClaimedInv ==
  /\ Logs /\ step \in {"next", "log", "logging", "stopping", "leave"} =>
       claimed = Sent(Claims)
  /\ Logs /\ step \in {"next", "log", "stopping", "leave"} =>
       call[Main] = "none"
  /\ step = "logging" =>
       /\ call[Main] \in {"enqueue", "reserved"}
       /\ item[Main] = <<Current.type, i>>

\* From stop() on: all messages were taken, and a worker that has returned
\* has left nothing in the queue.
StoppingInv ==
  /\ step \in {"stopping", "leave"} => i = Len(batch)
  /\ Logs /\ step \in {"stopping", "leave"} =>
       /\ ~ running
       /\ wpc \in {"none", "done"} => places = <<>>
  /\ step = "stopping" => cpc \in {"join", "flush", "close"}
  /\ Logs /\ step = "leave" => cpc = "idle"

\* The inductive invariant behind Delivered and ReportsAgree.
StageInv ==
  SoundInv /\ FreshInv /\ RunningInv /\ ClaimedInv /\ StoppingInv

\* flush() adds to the counter what it adds to the data, unless the write() is
\* short.
LEMMA FlushEffect ==
  ASSUME LoggerFacts, SoundInv, L!Flush,
         write_mode' = write_mode, write_buffer' = write_buffer
  PROVE  Exact' => Len(L!FileData)' = total_written'
  <1> SUFFICES ASSUME Exact' PROVE Len(L!FileData)' = total_written'
    OBVIOUS
  <1>1. /\ write_mode = "BUFFERED" /\ L!Alive
        /\ buffer_offset \in 0 .. BufferSize /\ total_written \in Nat
        /\ write_buffer \in [1 .. BufferSize -> L!Unit]
    BY DEF LoggerFacts, SoundInv, L!TypeOK, L!DataInv, L!DataType, L!Alive
  <1>2. lost => lost'
    BY LoggerAssumptions, L!FlushData DEF LoggerFacts
  <1>3. Len(L!FileData) = total_written
    BY <1>2 DEF SoundInv, Exact
  <1>4. \/ L!FileData' = L!FileData /\ total_written' = total_written
        \/ /\ L!FileData' = L!FileData \o L!Buffered
           /\ total_written' = total_written + buffer_offset
    <2>1. CASE "short" \notin Faults
      BY <1>1, <2>1, LoggerAssumptions, L!FlushData DEF LoggerFacts
    <2>2. CASE ~ lost'
      <3>1. CASE buffer_offset = 0
        <4>1. UNCHANGED <<file, total_written>>
          BY <3>1 DEF L!Flush
        <4> QED
          BY <4>1 DEF L!FileData, L!FlattenSeq
      <3>2. CASE buffer_offset # 0
        <4>1. L!BytesToWrite = buffer_offset
          BY <1>1 DEF L!BytesToWrite
        <4>2. PICK n \in L!WriteResults(L!BytesToWrite) :
                /\ lost' = (lost \/ n < L!BytesToWrite)
                /\ total_written' = IF n > 0 THEN total_written + buffer_offset
                                             ELSE total_written
          BY <1>1, <3>2 DEF L!Flush
        <4>3. n \in 0 .. buffer_offset
          BY <1>1, <4>1 DEF L!WriteResults
        <4>4. ~ (n < buffer_offset)
          BY <2>2, <4>1, <4>2, Zenon
        <4>5. total_written' = total_written + buffer_offset
          BY <1>1, <3>2, <4>2, <4>3, <4>4
        <4>6. L!FileData' = L!FileData \o L!Buffered
          BY <1>1, <2>2, LoggerAssumptions, L!FlushData DEF LoggerFacts
        <4> QED
          BY <4>5, <4>6
      <3> QED
        BY <3>1, <3>2
    <2> QED
      BY <2>1, <2>2 DEF Exact
  <1>5. L!FileData \in Seq(L!Unit) /\ L!Buffered \in Seq(L!Unit)
    BY <1>1, LoggerAssumptions, L!PartsType DEF LoggerFacts, L!DataInv
  <1>6. Len(L!Buffered) = buffer_offset
    <2> DEFINE w == write_buffer
               o == buffer_offset
               U == L!Unit
    <2>1. w \in [1 .. BufferSize -> U] /\ o \in 0 .. BufferSize
          /\ BufferSize \in Nat
      BY <1>1, MessagesFit
    <2>2. L!Buffered = SubSeq(w, 1, o)
      BY DEF L!Buffered
    <2> HIDE DEF w, o, U
    <2>3. Len(SubSeq(w, 1, o)) = o
      BY <2>1, LoggerAssumptions, L!SubSeqFront
    <2> QED
      BY <2>2, <2>3 DEF o
  <1> DEFINE x == L!FileData
             y == L!Buffered
             z == L!FileData'
  <1>7. /\ x \in Seq(L!Unit) /\ y \in Seq(L!Unit)
        /\ Len(x) = total_written /\ Len(y) = buffer_offset
        /\ \/ z = x /\ total_written' = total_written
           \/ z = x \o y /\ total_written' = total_written + buffer_offset
    BY <1>3, <1>4, <1>5, <1>6
  <1>8. Len(L!FileData)' = Len(z)
    OBVIOUS
  <1> HIDE DEF x, y, z
  <1>9. Len(x \o y) = Len(x) + Len(y)
    BY <1>7, ConcatProperties
  <1> QED
    BY <1>7, <1>8, <1>9

\* What a step of the worker leaves alone, and what its end means.
LEMMA WorkerEffect ==
  ASSUME LoggerFacts, SoundInv, L!WorkerLoop
  PROVE  /\ UNCHANGED <<claimed, running, cpc>>
         /\ DOMAIN ret' = DOMAIN ret
         /\ call'[Main] = call[Main] /\ item'[Main] = item[Main]
         /\ wpc \notin {"none", "done"} /\ wpc' \notin {"none", "terminated"}
         /\ draining' => draining \/ ~ running
         /\ wpc' = "done" => draining /\ ~ L!Queue!FirstFilled
         /\ \/ places' = places
            \/ places # <<>> /\ places' = Tail(places) /\ wpc' # "done"
         /\ Exact' => Len(L!FileData)' = total_written'
  <1>1. /\ write_mode = "BUFFERED"
        /\ call \in [{Main} \cup {Worker} ->
                       {"none", "enqueue", "reserved", "dequeue", "taken"}]
        /\ item \in [{Main} \cup {Worker} -> Messages \cup {Garbage}]
        /\ Main # Worker /\ (Exact => Len(L!FileData) = total_written)
    BY DistinctThreads DEF LoggerFacts, SoundInv, L!TypeOK
  <1> USE DEF L!queueVars, L!fileVars, L!bufferVars, L!controlVars,
              L!workerVars, L!history
  <1>2. CASE L!LoopTest
    <2>1. UNCHANGED <<file, total_written, write_mode, lost>>
      BY <1>2 DEF L!LoopTest
    <2>2. L!FileData' = L!FileData
      BY <2>1 DEF L!FileData, L!FlattenSeq
    <2>3. draining' => draining \/ ~ running
      BY <1>2, Zenon DEF L!LoopTest
    <2>4. /\ UNCHANGED <<claimed, running, cpc, places, item>>
          /\ DOMAIN ret' = DOMAIN ret /\ call'[Main] = call[Main]
          /\ wpc = "check" /\ wpc' = "deq"
      BY <1>1, <1>2 DEF L!LoopTest, L!Queue!BeginDequeue, L!Queue!Begin
    <2> QED
      BY <1>1, <2>1, <2>2, <2>3, <2>4 DEF Exact
  <1>3. CASE L!Dequeue
    <2>1. UNCHANGED <<file, total_written, write_mode, lost>>
      BY <1>3 DEF L!Dequeue
    <2>2. L!FileData' = L!FileData
      BY <2>1 DEF L!FileData, L!FlattenSeq
    <2> QED
      BY <1>1, <1>3, <2>1, <2>2
         DEF Exact, L!Dequeue, L!Queue!Take, L!Queue!Free, L!Queue!End,
             L!Queue!FirstFilled
  <1>4. CASE L!DequeueFails
    <2>1. UNCHANGED <<file, total_written, write_mode, lost>>
      BY <1>4 DEF L!DequeueFails
    <2>2. L!FileData' = L!FileData
      BY <2>1 DEF L!FileData, L!FlattenSeq
    <2> QED
      BY <1>1, <1>4, <2>1, <2>2
         DEF Exact, L!DequeueFails, L!Queue!RefuseDequeue, L!Queue!End
  <1>5. CASE L!FlushWhenEmpty
    <2>1. Exact' => Len(L!FileData)' = total_written'
      BY <1>5, FlushEffect DEF L!FlushWhenEmpty
    <2> QED
      BY <1>1, <1>5, <2>1 DEF L!FlushWhenEmpty
  <1>6. CASE L!MakeRoomInBuffer
    <2>1. Exact' => Len(L!FileData)' = total_written'
      <3>1. CASE L!Flush
        BY <1>6, <3>1, FlushEffect DEF L!MakeRoomInBuffer
      <3>2. CASE ~ L!Flush
        <4>1. UNCHANGED <<file, total_written, write_mode, lost>>
          BY <1>6, <3>2 DEF L!MakeRoomInBuffer
        <4>2. L!FileData' = L!FileData
          BY <4>1 DEF L!FileData, L!FlattenSeq
        <4> QED
          BY <1>1, <4>1, <4>2 DEF Exact
      <3> QED
        BY <3>1, <3>2
    <2> QED
      BY <1>1, <1>6, <2>1 DEF L!MakeRoomInBuffer
  <1>7. CASE L!PutInBuffer
    <2>1. UNCHANGED <<file, total_written, write_mode, lost>>
      BY <1>7 DEF L!PutInBuffer
    <2>2. L!FileData' = L!FileData
      BY <2>1 DEF L!FileData, L!FlattenSeq
    <2> QED
      BY <1>1, <1>7, <2>1, <2>2 DEF Exact, L!PutInBuffer
  <1>8. CASE L!MakeRoomInMapping \/ L!PutInMapping
    BY <1>1, <1>8 DEF L!MakeRoomInMapping, L!PutInMapping
  <1> QED
    BY <1>2, <1>3, <1>4, <1>5, <1>6, <1>7, <1>8 DEF L!WorkerLoop

\* main has not touched the logger when it starts.
LEMMA StageInit == Init => StageInv
  <1> SUFFICES ASSUME Init PROVE StageInv
    OBVIOUS
  <1>1. L!Init
    BY LoggerInit
  <1>2. /\ section = 1 /\ step = "enter"
        /\ places = <<>> /\ lost = FALSE /\ wpc = "none" /\ claimed = <<>>
        /\ total_written = 0 /\ file = <<>> /\ write_mode = "BUFFERED"
        /\ call[Main] = "none" /\ Main \in DOMAIN ret
    BY <1>1 DEF Init, L!Init, L!Queue!Init, L!Queue!Threads
  <1>3. L!FileData = <<>>
    BY <1>2 DEF L!FileData, L!FlattenSeq
  <1>4. SoundInv
    BY <1>2, <1>3 DEF SoundInv
  <1> QED
    BY <1>2, <1>4 DEF StageInv, FreshInv, RunningInv, ClaimedInv, StoppingInv,
                      Logs

\* FileData in steps that do not write.
LEMMA NothingWritten ==
  ASSUME UNCHANGED <<file, total_written, write_mode>>
  PROVE  Len(L!FileData)' = Len(L!FileData)
  <1>1. L!FileData' = L!FileData
    BY DEF L!FileData, L!FlattenSeq
  <1> QED
    BY <1>1

\* The worker's steps.
LEMMA StageWorker ==
  ASSUME PlaceInv, BatchInv, LoggerFacts, StageInv, WorkerThread
  PROVE  StageInv'
  <1>1. L!WorkerLoop /\ SoundInv
    BY WorkerLoggerStep DEF StageInv
  <1>2. UNCHANGED <<section, step, i, batches>> /\ Logs' = Logs
        /\ batch' = batch /\ Current' = Current
    BY DEF WorkerThread, mainVars, Logs, batch, Current
  <1>3. /\ UNCHANGED <<claimed, running, cpc>>
        /\ Main \in DOMAIN ret'
        /\ call'[Main] = call[Main] /\ item'[Main] = item[Main]
        /\ wpc \notin {"none", "done"} /\ wpc' \notin {"none", "terminated"}
        /\ draining' => draining \/ ~ running
        /\ wpc' = "done" => draining /\ ~ L!Queue!FirstFilled
        /\ \/ places' = places
           \/ places # <<>> /\ places' = Tail(places) /\ wpc' # "done"
        /\ Exact' => Len(L!FileData)' = total_written'
    BY <1>1, WorkerEffect DEF SoundInv
  <1>4. /\ places \in Seq([val : Messages, owner : {Main} \cup {Nobody}])
        /\ \A k \in DOMAIN places :
             places[k].owner # Nobody => call[Main] = "reserved"
    BY <1>1 DEF SoundInv, LoggerFacts, L!TypeOK
  <1>5. \A k \in DOMAIN places' :
          places'[k].owner # Nobody => call'[Main] = "reserved"
    <2>1. CASE places' = places
      BY <1>3, <1>4, <2>1
    <2>2. CASE places # <<>> /\ places' = Tail(places)
      <3>1. \A k \in DOMAIN places' : /\ k + 1 \in DOMAIN places
                                      /\ places'[k] = places[k + 1]
        BY <1>4, <2>2
      <3> QED
        BY <1>3, <1>4, <3>1
    <2> QED
      BY <1>3, <2>1, <2>2
  <1>6. SoundInv'
    BY <1>3, <1>5 DEF SoundInv
  <1>7. FreshInv'
    BY <1>2, <1>3 DEF StageInv, FreshInv
  <1>8. RunningInv'
    BY <1>2, <1>3 DEF StageInv, RunningInv
  <1>9. ClaimedInv'
    <2>1. Claims' = Claims
      BY <1>2, <1>3 DEF Claims
    <2>2. Sent(Claims)' = Sent(Claims)
      BY <1>2, <2>1 DEF Sent
    <2> QED
      BY <1>2, <1>3, <2>2 DEF StageInv, ClaimedInv
  <1>10. StoppingInv'
    <2>1. ASSUME Logs, step \in {"stopping", "leave"}, wpc' = "done"
          PROVE  places' = <<>>
      <3>1. call[Main] = "none"
        BY <2>1 DEF StageInv, ClaimedInv
      <3>2. places' = places /\ ~ L!Queue!FirstFilled
        BY <1>3, <2>1
      <3>3. places # <<>> => Head(places).owner = Nobody
        BY <1>4, <3>1
      <3> QED
        BY <3>2, <3>3 DEF L!Queue!FirstFilled
    <2> QED
      BY <1>2, <1>3, <2>1 DEF StageInv, StoppingInv
  <1> QED
    BY <1>6, <1>7, <1>8, <1>9, <1>10 DEF StageInv

\* The steps of the main thread that leave the logger alone.
LEMMA StageAlone ==
  ASSUME PlaceInv, BatchInv, LoggerFacts, StageInv,
         Enter \/ EnterPinned \/ EndOfScope \/ ParseNext
           \/ (EndOfLoop /\ ~ Logs) \/ Leave \/ UNCHANGED vars
  PROVE  StageInv'
  <1> USE DEF Goto
  <1>1. UNCHANGED loggerVars /\ UNCHANGED batches
    BY DEF Enter, EnterPinned, EndOfScope, ParseNext, EndOfLoop, Leave, vars,
           mainVars
  <1>2. UNCHANGED <<places, call, item, ret, write_mode, running, wpc, draining,
                    cpc, total_written, file, claimed, lost>>
    BY <1>1 DEF loggerVars
  <1>3. SoundInv'
    <2>1. Len(L!FileData)' = Len(L!FileData)
      BY <1>2, NothingWritten
    <2> QED
      BY <1>2, <2>1 DEF Exact, StageInv, SoundInv
  <1>4. CASE Enter \/ EnterPinned \/ EndOfScope \/ (EndOfLoop /\ ~ Logs)
    <2>1. /\ UNCHANGED <<section, i, batches>> /\ ~ Logs /\ ~ Logs'
          /\ step' \in {"unpin", "next", "leave"}
          /\ step' = "leave" => i = Len(batch)
          /\ batch' = batch
      BY <1>4 DEF Enter, EnterPinned, EndOfScope, EndOfLoop, Logs, Pins,
                  PlaceInv, batch
    <2> QED
      BY <1>2, <1>3, <2>1 DEF StageInv, FreshInv, RunningInv, ClaimedInv,
                              StoppingInv
  <1>5. CASE ParseNext
    <2>1. /\ UNCHANGED <<section, batches>> /\ Logs' = Logs /\ i' = i + 1
          /\ step = "next" /\ i \in Nat
      BY <1>5 DEF ParseNext, Logs, BatchInv
    <2>2. step' = IF Logs THEN "log" ELSE "next"
      BY <1>5, <2>1, NextParses DEF ParseNext
    <2>3. Logs => claimed = Sent(i) /\ call[Main] = "none" /\ running
                  /\ ~ draining /\ wpc \notin {"none", "done"}
      BY <2>1 DEF StageInv, ClaimedInv, RunningInv, Claims
    <2>4. Logs => Sent(Claims)' = Sent(i)
      BY <2>1, <2>2 DEF Sent, Claims
    <2>5. section' = 1 => FreshInv'
      BY <1>2, <2>1 DEF StageInv, FreshInv, Logs
    <2>6. FreshInv'
      BY <2>2, <2>5 DEF FreshInv, Logs
    <2> QED
      BY <1>2, <1>3, <2>1, <2>2, <2>3, <2>4, <2>6
         DEF StageInv, RunningInv, ClaimedInv, StoppingInv
  <1>6. CASE Leave
    <2>1. /\ step = "leave"
          /\ \/ step' = "enter" /\ section' = section + 1 /\ i' = 0
             \/ step' = "done" /\ section = 3 /\ section' = 3
      BY <1>6 DEF Leave, PlaceInv
    <2>2. section \in 1 .. 3
      BY DEF PlaceInv
    <2>3. FreshInv'
      BY <1>2, <2>1, <2>2 DEF StageInv, FreshInv, Logs
    <2> QED
      BY <1>2, <1>3, <2>1, <2>3 DEF StageInv, RunningInv, ClaimedInv,
                                    StoppingInv
  <1>7. CASE UNCHANGED vars
    <2>1. /\ UNCHANGED <<section, step, i, batches>> /\ Logs' = Logs
          /\ batch' = batch /\ Current' = Current
      BY <1>7 DEF vars, mainVars, Logs, batch, Current
    <2>2. Sent(Claims)' = Sent(Claims)
      BY <1>2, <2>1 DEF Sent, Claims
    <2>3. FreshInv'
      BY <1>2, <2>1 DEF StageInv, FreshInv
    <2>4. RunningInv' /\ StoppingInv'
      BY <1>2, <2>1 DEF StageInv, RunningInv, StoppingInv
    <2>5. ClaimedInv'
      BY <1>2, <2>1, <2>2 DEF StageInv, ClaimedInv
    <2> QED
      BY <1>3, <2>3, <2>4, <2>5 DEF StageInv
  <1> QED
    BY <1>4, <1>5, <1>6, <1>7

\* start(): the file is emptied, and the section goes on only with a worker.
LEMMA StageStart ==
  ASSUME PlaceInv, BatchInv, LoggerFacts, StageInv, Start \/ StartThread
  PROVE  StageInv'
  <1> USE DEF Goto, Logger!queueVars, Logger!fileVars, Logger!bufferVars,
              Logger!controlVars, Logger!workerVars, Logger!history
  <1>1. /\ step \in {"enter", "spawn"} /\ Logs /\ Logs' /\ batch' = batch
        /\ UNCHANGED <<section, i, batches>>
    BY DEF Start, StartThread, PlaceInv, Logs, batch
  <1>2. /\ claimed = <<>> /\ places = <<>> /\ total_written = 0
        /\ call[Main] = "none" /\ wpc = "none" /\ i = 0
        /\ Main \in DOMAIN ret /\ (Exact => Len(L!FileData) = 0)
        /\ write_mode = "BUFFERED"
    BY <1>1 DEF StageInv, FreshInv, SoundInv, LoggerFacts, L!TypeOK
  <1>3. CASE step = "enter" /\ Logger!OpenFile /\ step' = "spawn"
    <2>1. /\ UNCHANGED <<places, call, ret, total_written, write_mode, wpc>>
          /\ lost' = FALSE /\ file' = <<>> /\ claimed' = Logger!QueuedMessages
      BY <1>2, <1>3 DEF Logger!OpenFile, Logger!Truncated
    <2>2. claimed' = <<>>
      BY <1>2, <2>1 DEF Logger!QueuedMessages
    <2>3. L!FileData' = <<>>
      BY <1>2, <2>1 DEF L!FileData, L!FlattenSeq
    <2>4. SoundInv'
      BY <1>2, <2>1, <2>3 DEF SoundInv
    <2>5. FreshInv'
      BY <1>1, <1>2, <2>1, <2>2 DEF FreshInv
    <2> QED
      BY <1>3, <2>4, <2>5
         DEF StageInv, RunningInv, ClaimedInv, StoppingInv
  <1>4. CASE Logger!OpenFails /\ step' = "aborted"
    <2>1. UNCHANGED <<places, call, ret, total_written, write_mode, wpc, file,
                      lost>>
      BY <1>4 DEF Logger!OpenFails
    <2>2. SoundInv'
      BY <1>2, <2>1, NothingWritten DEF Exact, SoundInv
    <2> QED
      BY <1>1, <1>4, <2>2 DEF StageInv, FreshInv, RunningInv, ClaimedInv,
                              StoppingInv, Logs
  <1>5. CASE StartThread
    <2>1. /\ UNCHANGED <<places, call, ret, total_written, write_mode, file,
                         lost, claimed>>
          /\ running' = TRUE
          /\ \/ wpc' = "check" /\ draining' = FALSE /\ step' = "next"
             \/ wpc' = "none" /\ step' = "aborted"
      BY <1>2, <1>5 DEF StartThread, Logger!Spawn
    <2>2. SoundInv'
      BY <1>2, <2>1, NothingWritten DEF Exact, SoundInv
    <2>3. RunningInv'
      BY <2>1 DEF RunningInv
    <2>4. ClaimedInv'
      <3>1. step' = "next" => Sent(Claims)' = Sent(0)
        BY <1>1, <1>2 DEF Sent, Claims
      <3>2. Sent(0) = <<>>
        BY SentLaws
      <3> QED
        BY <1>2, <2>1, <3>1, <3>2 DEF ClaimedInv
    <2> QED
      BY <1>1, <2>1, <2>2, <2>3, <2>4 DEF StageInv, FreshInv, StoppingInv,
                                           Logs
  <1> QED
    BY <1>3, <1>4, <1>5 DEF Start

\* log(): the message gets its place before log() returns true, and none when
\* it returns false.
LEMMA StageLog ==
  ASSUME PlaceInv, BatchInv, LoggerFacts, StageInv,
         CallLog \/ InsideLog \/ LogReturns
  PROVE  StageInv'
  <1> USE DEF Goto, Logger!queueVars, Logger!fileVars, Logger!bufferVars,
              Logger!controlVars, Logger!workerVars, Logger!history
  <1>1. /\ step \in {"log", "logging"} /\ Logs /\ Logs' /\ i >= 1
        /\ step' \in {"next", "log", "logging"}
        /\ UNCHANGED <<section, i, batches>>
        /\ batch' = batch /\ Current' = Current
    BY DEF CallLog, InsideLog, LogReturns, mainVars, PlaceInv, Logs, BatchInv,
           batch, Current
  <1>2. UNCHANGED <<total_written, file, write_mode, running, wpc, draining, cpc,
                    lost>>
    BY DEF CallLog, InsideLog, LogReturns, Logger!LogCall, Logger!LogReserve,
           Logger!LogReturn
  <1>3. /\ running /\ ~ draining /\ wpc \notin {"none", "done"}
        /\ wpc # "terminated" /\ Main \in DOMAIN ret
        /\ Exact => Len(L!FileData) = total_written
        /\ \A k \in DOMAIN places :
             places[k].owner # Nobody => call[Main] = "reserved"
        /\ claimed = Sent(Claims) /\ i \in 1 .. Len(batches[2])
        /\ call \in [{Main} \cup {Worker} ->
                       {"none", "enqueue", "reserved", "dequeue", "taken"}]
        /\ item \in [{Main} \cup {Worker} -> Messages \cup {Garbage}]
        /\ places \in Seq([val : Messages, owner : {Main} \cup {Nobody}])
    BY <1>1, CurrentKnown DEF StageInv, SoundInv, RunningInv, ClaimedInv,
                              LoggerFacts, L!TypeOK
  <1>4. Exact' => Len(L!FileData)' = total_written'
    BY <1>2, <1>3, NothingWritten DEF Exact
  <1>5. FreshInv' /\ RunningInv' /\ StoppingInv'
    BY <1>1, <1>2, <1>3 DEF FreshInv, RunningInv, StoppingInv, Logs
  <1>6. CASE CallLog
    <2>1. /\ step = "log" /\ step' = "logging"
          /\ call[Main] = "none" /\ call'[Main] = "enqueue"
          /\ item'[Main] = <<Current.type, i>>
          /\ UNCHANGED <<places, claimed>> /\ DOMAIN ret' = DOMAIN ret
      BY <1>3, <1>6 DEF CallLog, Logger!LogCall, Logger!Queue!BeginEnqueue,
                        Logger!Queue!Begin
    <2>2. SoundInv'
      BY <1>2, <1>3, <1>4, <2>1 DEF SoundInv
    <2>3. Sent(Claims)' = Sent(Claims)
      BY <1>1, <2>1 DEF Sent, Claims
    <2>4. ClaimedInv'
      BY <1>1, <1>3, <2>1, <2>3 DEF ClaimedInv
    <2> QED
      BY <1>5, <2>2, <2>4 DEF StageInv
  <1>7. CASE InsideLog
    <2>1. /\ step = "logging" /\ step' = "logging"
          /\ call[Main] = "enqueue" /\ call'[Main] = "reserved"
          /\ claimed' = Append(claimed, item[Main])
          /\ UNCHANGED <<item, ret>>
      BY <1>3, <1>7 DEF InsideLog, Logger!LogReserve, Logger!Queue!Reserve,
                        mainVars
    <2>2. SoundInv'
      BY <1>2, <1>3, <1>4, <2>1 DEF SoundInv
    <2>3. item[Main] = <<Current.type, i>> /\ Current = batches[2][i]
      BY <1>1, <2>1, CurrentKnown DEF StageInv, ClaimedInv
    <2>4. claimed = Sent(i - 1)
      BY <1>3, <2>1 DEF Claims
    <2>5. Sent(i) = Append(Sent(i - 1), <<batches[2][i].type, i>>)
      BY <1>3, SentLaws
    <2>6. Sent(Claims)' = Sent(i)
      BY <1>1, <2>1 DEF Sent, Claims
    <2>7. claimed' = Sent(i)
      BY <2>1, <2>3, <2>4, <2>5
    <2>8. ClaimedInv'
      BY <1>1, <2>1, <2>3, <2>6, <2>7 DEF ClaimedInv
    <2> QED
      BY <1>5, <2>2, <2>8 DEF StageInv
  <1>8. CASE LogReturns
    <2>1. claimed' = claimed /\ step = "logging" /\ call'[Main] = "none"
          /\ DOMAIN ret' = DOMAIN ret
      BY <1>3, <1>8 DEF LogReturns, Logger!LogReturn, Logger!Queue!Commit,
                        Logger!Queue!RefuseEnqueue, Logger!Queue!End
    <2>2. CASE Logger!Queue!Commit(Main)
      <3>1. /\ call[Main] = "reserved" /\ ret'[Main] = "true"
            /\ step' = "next"
        BY <1>3, <1>8, <2>2 DEF LogReturns, Logger!Queue!Commit,
                                Logger!Queue!End
      <3>2. /\ DOMAIN places' = DOMAIN places
            /\ \A k \in DOMAIN places : places'[k].owner =
                 IF places[k].owner = Main THEN Nobody ELSE places[k].owner
        BY <2>2 DEF Logger!Queue!Commit
      <3>3. \A k \in DOMAIN places' : places'[k].owner = Nobody
        <4> DEFINE Place == [val : Messages, owner : {Main} \cup {Nobody}]
        <4>1. places \in Seq(Place)
          BY <1>3
        <4> HIDE DEF Place
        <4>2. \A k \in DOMAIN places : places[k] \in Place
          BY <4>1
        <4>3. \A k \in DOMAIN places : places[k].owner \in {Main, Nobody}
          BY <4>2 DEF Place
        <4> QED
          BY <3>2, <4>3
      <3>4. SoundInv'
        BY <1>2, <1>3, <1>4, <2>1, <3>3 DEF SoundInv
      <3>5. Sent(Claims)' = Sent(Claims)
        BY <1>1, <2>1, <3>1 DEF Sent, Claims
      <3>6. ClaimedInv'
        BY <1>1, <1>3, <2>1, <3>1, <3>5 DEF ClaimedInv
      <3> QED
        BY <1>5, <3>4, <3>6 DEF StageInv
    <2>3. CASE Logger!Queue!RefuseEnqueue(Main)
      <3>1. /\ call[Main] = "enqueue" /\ ret'[Main] = "false"
            /\ step' = "log" /\ places' = places
        BY <1>3, <1>8, <2>3 DEF LogReturns, Logger!Queue!RefuseEnqueue,
                                Logger!Queue!End
      <3>2. SoundInv'
        BY <1>2, <1>3, <1>4, <2>1, <3>1 DEF SoundInv
      <3>3. Sent(Claims)' = Sent(Claims)
        BY <1>1, <2>1, <3>1 DEF Sent, Claims
      <3>4. ClaimedInv'
        BY <1>1, <1>3, <2>1, <3>1, <3>3 DEF ClaimedInv
      <3> QED
        BY <1>5, <3>2, <3>4 DEF StageInv
    <2> QED
      BY <1>8, <2>2, <2>3 DEF LogReturns, Logger!LogReturn
  <1> QED
    BY <1>6, <1>7, <1>8

\* stop(): it is called after the last message, and waits for the worker.
LEMMA StageStop ==
  ASSUME PlaceInv, BatchInv, LoggerFacts, StageInv,
         (EndOfLoop /\ Logs) \/ InsideStop
  PROVE  StageInv'
  <1> USE DEF Goto, Logger!queueVars, Logger!fileVars, Logger!bufferVars,
              Logger!controlVars, Logger!workerVars, Logger!history
  <1>1. /\ Logs /\ Logs' /\ UNCHANGED <<section, i, batches>>
        /\ batch' = batch /\ step \in {"next", "stopping"}
        /\ step' \in {"stopping", "leave"} /\ i = Len(batch)
    BY DEF EndOfLoop, InsideStop, PlaceInv, Logs, StageInv, StoppingInv, batch
  <1>2. /\ call[Main] = "none" /\ claimed = Sent(i)
        /\ wpc # "terminated" /\ Main \in DOMAIN ret
        /\ (Exact => Len(L!FileData) = total_written) /\ write_mode = "BUFFERED"
        /\ \A k \in DOMAIN places :
             places[k].owner # Nobody => call[Main] = "reserved"
    BY <1>1 DEF StageInv, SoundInv, ClaimedInv, Claims, LoggerFacts, L!TypeOK
  <1>3. ASSUME UNCHANGED <<places, call, ret, claimed>>, wpc' # "terminated",
               Exact' => Len(L!FileData)' = total_written'
        PROVE  SoundInv' /\ FreshInv' /\ RunningInv' /\ ClaimedInv'
    <2>1. SoundInv'
      BY <1>2, <1>3 DEF SoundInv
    <2>2. FreshInv' /\ RunningInv'
      BY <1>1 DEF FreshInv, RunningInv, Logs
    <2>3. Sent(Claims)' = Sent(i)
      BY <1>1 DEF Sent, Claims
    <2>4. ClaimedInv'
      BY <1>1, <1>2, <1>3, <2>3 DEF ClaimedInv
    <2> QED
      BY <2>1, <2>2, <2>4
  <1>4. CASE EndOfLoop /\ Logs
    <2>1. /\ UNCHANGED <<places, call, ret, claimed, lost, wpc, total_written,
                         file, write_mode>>
          /\ running' = FALSE /\ cpc' = "join" /\ step' = "stopping"
      BY <1>4 DEF EndOfLoop, Logger!StopCall
    <2>2. Exact' => Len(L!FileData)' = total_written'
      BY <1>2, <2>1, NothingWritten DEF Exact
    <2>3. wpc \notin {"none", "done"}
      BY <1>4 DEF EndOfLoop, StageInv, RunningInv
    <2>4. StoppingInv'
      BY <1>1, <2>1, <2>3 DEF StoppingInv
    <2> QED
      BY <1>2, <1>3, <2>1, <2>2, <2>4 DEF StageInv
  <1>5. CASE InsideStop
    <2>1. /\ step = "stopping" /\ cpc \in {"join", "flush", "close"}
          /\ ~ running /\ (wpc \in {"none", "done"} => places = <<>>)
          /\ step' = IF cpc' = "idle" THEN "leave" ELSE "stopping"
      BY <1>1, <1>5 DEF InsideStop, StageInv, StoppingInv
    <2>2. Logger!Join \/ Logger!StopFlush \/ Logger!CloseFile
      BY <1>5, <2>1 DEF InsideStop, Logger!ControllerContinues, Logger!Spawn
    <2>3. /\ UNCHANGED <<places, call, ret, claimed, running, write_mode>>
          /\ wpc' = wpc \/ (wpc \in {"none", "done"} /\ wpc' = "none")
          /\ cpc' \in {"flush", "close", "idle"}
      BY <2>2 DEF Logger!Join, Logger!StopFlush, Logger!CloseFile
    <2>4. Exact' => Len(L!FileData)' = total_written'
      <3>1. CASE Logger!Join \/ Logger!CloseFile
        <4>1. UNCHANGED <<lost, total_written, file, write_mode>>
          BY <1>2, <3>1 DEF Logger!Join, Logger!CloseFile
        <4> QED
          BY <1>2, <4>1, NothingWritten DEF Exact
      <3>2. CASE Logger!StopFlush
        <4>1. L!Flush /\ UNCHANGED <<write_mode, write_buffer>>
          BY <3>2, SameFlush DEF Logger!StopFlush
        <4> QED
          BY <4>1, FlushEffect DEF StageInv
      <3> QED
        BY <2>2, <3>1, <3>2
    <2>5. StoppingInv'
      BY <1>1, <2>1, <2>3 DEF StoppingInv
    <2> QED
      BY <1>2, <1>3, <2>3, <2>4, <2>5 DEF StageInv
  <1> QED
    BY <1>4, <1>5

\* Every step keeps the stages.
LEMMA StageStep ==
  ASSUME PlaceInv, BatchInv, LoggerFacts, StageInv, [Next]_vars
  PROVE  StageInv'
  BY StageAlone, StageStart, StageLog, StageStop, StageWorker
     DEF Next, MainThread

\* All invariants of the programs together.
LEMMA ProgramInvariant ==
  FairSpec => [](PlaceInv /\ BatchInv /\ LoggerFacts /\ CountInv /\ StageInv)
  <1>1. Init => CountInv /\ StageInv
    BY CountInit, StageInit
  <1>2. PlaceInv /\ BatchInv /\ LoggerFacts /\ CountInv /\ StageInv
          /\ [Next]_vars => CountInv' /\ StageInv'
    BY CountStep, StageStep
  <1> QED
    BY <1>1, <1>2, LoggerFactsHold, PTL DEF FairSpec

\* When stop() has returned, queue, buffer and hands are empty, so that the
\* file is what was claimed, the messages of the batch, if no write failed.
LEMMA FileIsBatch ==
  ASSUME PlaceInv, BatchInv, LoggerFacts, StageInv, step = "leave", Logs,
         ~ lost
  PROVE  L!FileData = L!Encodings(Sent(Len(batches[2])))
  <1>1. /\ ~ lost /\ L!Alive /\ ~ running /\ cpc = "idle" /\ wpc = "none"
        /\ places = <<>> /\ call[Worker] = "none" /\ buffer_offset = 0
    BY DEF StageInv, SoundInv, StoppingInv, LoggerFacts, L!LoggerInv,
           L!LifeCycle, L!DataInv, L!PositionInv, L!Alive
  <1>2. claimed = Sent(Len(batches[2]))
    BY DEF StageInv, ClaimedInv, StoppingInv, Claims, batch, Logs
  <1>3. L!FileData \o L!Buffered \o L!InHand \o L!Encodings(L!QueuedMessages)
          = L!Encodings(claimed)
    BY <1>1 DEF LoggerFacts, L!DataInv, L!LogIntegrity
  <1>4. L!InHand = <<>>
    BY <1>1 DEF L!InHand
  <1>5. L!QueuedMessages = <<>>
    BY <1>1 DEF L!QueuedMessages
  <1>6. L!Encodings(<<>>) = <<>>
    BY LoggerAssumptions, L!EncodingsOne
  <1>7. L!Buffered = <<>>
    <2>1. write_buffer \in [1 .. BufferSize -> L!Unit]
      BY DEF LoggerFacts, L!DataInv, L!DataType
    <2> QED
      BY <1>1, <2>1 DEF L!Buffered
  <1>8. L!FileData \in Seq(L!Unit)
    BY <1>1, LoggerAssumptions, L!PartsType DEF LoggerFacts, L!DataInv
  <1> DEFINE x == L!FileData
  <1>9. x \o <<>> \o <<>> \o <<>> = L!Encodings(claimed) /\ x \in Seq(L!Unit)
    BY <1>3, <1>4, <1>5, <1>6, <1>7, <1>8
  <1> HIDE DEF x
  <1>10. x \o <<>> = x
    BY <1>9, ConcatEmptySeq
  <1>11. x = L!Encodings(claimed)
    BY <1>9, <1>10
  <1> QED
    BY <1>2, <1>11 DEF x

\* The second section leaves every message of its batch in the file, once and
\* in order, unless a write() fails or is short, for every number of messages,
\* queue capacity and buffer size and every interleaving of the main thread
\* and the worker: demo_async_logging and benchmark_with_logger.
THEOREM AlwaysDelivered == FairSpec => []Delivered
  <1>1. PlaceInv /\ BatchInv /\ LoggerFacts /\ CountInv /\ StageInv
          => Delivered
    <2> SUFFICES ASSUME PlaceInv, BatchInv, LoggerFacts, StageInv,
                        step = "leave", Logs, ~ lost
                 PROVE  Logger!FileData = Logger!Encodings(Logged)
      BY DEF Delivered, Reporting
    <2>1. batch = batches[2] /\ batches[2] \in Seq(Produced)
      BY DEF batch, Logs, BatchInv
    <2>2. Logged = Sent(Len(batches[2]))
      BY <2>1 DEF Logged, Sent
    <2>3. Logger!FileData = L!FileData
      BY DEF Logger!FileData, L!FileData, Logger!FlattenSeq, L!FlattenSeq
    <2> DEFINE s == Sent(Len(batches[2]))
    <2>4. Logger!Encodings(s) = L!Encodings(s)
      <3> HIDE DEF s
      <3> QED
        BY DEF Logger!Encodings, L!Encodings, Logger!Encode, L!Encode,
               Logger!FlattenSeq, L!FlattenSeq
    <2> QED
      BY <2>2, <2>3, <2>4, FileIsBatch
  <1> QED
    BY <1>1, ProgramInvariant, PTL

\* The reports are right: every message counted once, and the logger's
\* total_written_ is the number of bytes the program has received, unless a
\* write() fails or is short.
THEOREM ReportsAlwaysAgree == FairSpec => []ReportsAgree
  <1>1. PlaceInv /\ BatchInv /\ LoggerFacts /\ CountInv /\ StageInv
          => ReportsAgree
    <2> SUFFICES ASSUME PlaceInv, BatchInv, LoggerFacts, CountInv, StageInv,
                        step = "leave"
                 PROVE  /\ stats.total_messages = Len(batch)
                        /\ Logs /\ ~ lost => total_written = stats.total_bytes
      BY DEF ReportsAgree, Reporting
    <2>1. i = Len(batch) /\ Counted = i
      BY DEF StageInv, StoppingInv, Counted
    <2>2. stats.total_messages = Len(batch)
      BY <2>1 DEF CountInv
    <2>3. ASSUME Logs, ~ lost PROVE total_written = stats.total_bytes
      <3>1. stats.total_bytes = Bytes(Len(batches[2]))
        BY <2>1, <2>3 DEF CountInv, batch, Logs
      <3>2. L!FileData = L!Encodings(Sent(Len(batches[2])))
        BY <2>3, FileIsBatch
      <3>3. Len(L!FileData) = total_written
        BY <2>3 DEF Exact, StageInv, SoundInv
      <3> QED
        BY <3>1, <3>2, <3>3 DEF Bytes
    <2> QED
      BY <2>2, <2>3
  <1> QED
    BY <1>1, ProgramInvariant, PTL

\* Calls of write() that fail take whole messages with them: the file of the
\* second section holds messages of its batch, complete and in order, and
\* total_written_ is what they take, unless a write() may be short.
THEOREM MessagesAlwaysWhole == FairSpec => []WholeMessages
  <1>1. PlaceInv /\ BatchInv /\ LoggerFacts /\ CountInv /\ StageInv
          => WholeMessages
    <2> SUFFICES ASSUME PlaceInv, BatchInv, LoggerFacts, StageInv,
                        step = "leave", Logs, "short" \notin Faults
                 PROVE  /\ total_written = Len(Logger!FileData)
                        /\ \E kept \in SUBSET DOMAIN batch :
                             Logger!FileData =
                               Logger!FlattenSeq([k \in DOMAIN batch |->
                                 IF k \in kept THEN Logger!Encode(Logged[k])
                                               ELSE <<>>])
      BY DEF WholeMessages, Reporting
    <2> DEFINE n == Len(batches[2])
    <2>1. Logger!FileData = L!FileData
      BY DEF Logger!FileData, L!FileData, Logger!FlattenSeq, L!FlattenSeq
    <2>2. total_written = Len(Logger!FileData)
      BY <2>1 DEF StageInv, SoundInv, Exact
    <2>3. /\ batch = batches[2] /\ n \in Nat /\ DOMAIN batch = 1 .. n
          /\ Logged = Sent(n)
      BY DEF batch, Logs, BatchInv, Logged, Sent
    <2>4. /\ write_mode = "BUFFERED" /\ wpc = "none"
          /\ places = <<>> /\ call[Worker] = "none"
      BY DEF StageInv, SoundInv, StoppingInv, LoggerFacts, L!TypeOK,
             L!LoggerInv, L!LifeCycle, L!DataInv, L!PositionInv, L!Alive
    <2>5. claimed = Sent(n)
      BY DEF StageInv, ClaimedInv, StoppingInv, Claims, batch, Logs
    <2>6. PICK done \in Seq(Messages), held \in Seq(Messages) :
            /\ claimed = done \o held \o L!HandMessages \o L!QueuedMessages
            /\ L!SomeOf(done, L!FileData)
      BY <2>4 DEF LoggerFacts, L!WholeInv
    <2>7. L!HandMessages = <<>> /\ L!QueuedMessages = <<>>
      BY <2>4 DEF L!HandMessages, L!QueuedMessages
    <2>8. claimed = done \o held
      <3> DEFINE d == done \o held
      <3>1. d \in Seq(Messages) /\ claimed = d \o <<>> \o <<>>
        BY <2>6, <2>7, ConcatProperties
      <3> HIDE DEF d
      <3>2. d \o <<>> = d
        BY <3>1, ConcatEmptySeq
      <3>3. claimed = d
        BY <3>1, <3>2
      <3> QED
        BY <3>3 DEF d
    <2>9. L!SomeOf(Sent(n), L!FileData)
      BY <2>5, <2>6, <2>8, LoggerAssumptions, L!SomeOfMore
    <2>10. Sent(n) \in Seq(Messages) /\ Len(Sent(n)) = n
      BY <2>3, SentLaws
    <2>11. PICK parts \in Seq(Seq(L!Unit)) :
             /\ Len(parts) = n
             /\ \A k \in 1 .. n : parts[k] \in {L!Encode(Sent(n)[k]), <<>>}
             /\ L!FileData = L!FlattenSeq(parts)
      BY <2>9, <2>10 DEF L!SomeOf
    <2> DEFINE kept == {k \in 1 .. n : parts[k] = L!Encode(Sent(n)[k])}
               spelled == [k \in 1 .. n |-> IF k \in kept
                                            THEN L!Encode(Sent(n)[k]) ELSE <<>>]
    <2>12. parts = spelled
      <3>1. parts = [k \in 1 .. n |-> parts[k]]
        BY <2>3, <2>11
      <3>2. \A k \in 1 .. n : parts[k] = spelled[k]
        BY <2>11
      <3> QED
        BY <3>1, <3>2
    <2>13. spelled = [k \in DOMAIN batch |->
                        IF k \in kept THEN Logger!Encode(Logged[k]) ELSE <<>>]
      <3>1. \A k : L!Encode(Sent(n)[k]) = Logger!Encode(Logged[k])
        BY <2>3 DEF L!Encode, Logger!Encode
      <3> HIDE DEF kept
      <3> QED
        BY <2>3, <3>1
    <2>14. L!FlattenSeq(spelled) = Logger!FlattenSeq(spelled)
      <3> HIDE DEF spelled
      <3> QED
        BY DEF L!FlattenSeq, Logger!FlattenSeq
    <2>15. kept \in SUBSET DOMAIN batch
      BY <2>3
    <2> HIDE DEF kept, spelled
    <2>16. Logger!FileData = Logger!FlattenSeq(spelled)
      BY <2>1, <2>11, <2>12, <2>14
    <2> QED
      BY <2>2, <2>13, <2>15, <2>16
  <1> QED
    BY <1>1, ProgramInvariant, PTL

=============================================================================
