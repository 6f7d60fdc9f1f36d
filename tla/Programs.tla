------------------------------ MODULE Programs -------------------------------
(***************************************************************************)
(* src/demo.cpp and src/benchmark.cpp: how a program drives the generator, *)
(* the parser, the logger and the CPU pin.  Each runs three sections one   *)
(* after the other; the second has a logger, the third a ScopedCPUPin.     *)
(*                                                                         *)
(* The logger is AsyncLogger in BUFFERED mode, with the main thread as its *)
(* only producer and its controller.  A message of a batch is known to it  *)
(* by its type and its number; what its bytes become is the subject of     *)
(* MessagePath, here they count with their real sizes.                     *)
(*                                                                         *)
(* What the main thread does next, step:                                   *)
(*   enter    the start of a section    spawn     the rest of start()      *)
(*   unpin    the end of the pin's own scope (demo)                        *)
(*   next     the top of the loop over the messages                        *)
(*   log      the call of log()         logging   inside log()             *)
(*   stopping inside stop()             leave     the end of the section   *)
(*   done     main returned             aborted   an exception left main   *)
(***************************************************************************)
EXTENDS Generators, FiniteSets

CONSTANTS
  Main, Worker, Nobody, Garbage, Zero,
  MaxMessages,   \* bound: messages of a section
  Capacity,      \* QUEUE_SIZE, scaled down like the next
  BufferSize,    \* BUFFER_SIZE
  Faults,        \* system calls of the logger that may fail
  CPUs

VARIABLES
  program, num_messages,     \* which program, and its num_messages
  section, step, i,          \* the main thread; i: messages taken so far
  batches,                   \* the messages of the three sections
  stats,                     \* Stats: total_messages, total_bytes (in the
                             \*   demo, which has no Stats, a history)
  affinity, locked, guards,  \* see ScopedGuards
  places, call, item, ret, write_mode, running, wpc, draining, cpc, sessions,
  fd, mapping, mmap_size, write_buffer, buffer_offset, total_written, file,
  claimed, promised, lost    \* see AsyncLogger

mainVars == <<program, num_messages, section, step, i, batches, stats>>
guardVars == <<affinity, locked, guards>>
loggerVars == <<places, call, item, ret, write_mode, running, wpc, draining,
                cpc, sessions, fd, mapping, mmap_size, write_buffer,
                buffer_offset, total_written, file, claimed, promised, lost>>
vars == <<mainVars, guardVars, loggerVars>>

-----------------------------------------------------------------------------
(* The sections *)

\* A message, by its length and what the parser says of it.
Message(bytes) ==
  LET parsed == parse(bytes)
  IN  [length |-> Len(bytes), has_value |-> parsed.has_value,
       type |-> parsed.type]

AddOrder == Message(generate_add_order)
ExecuteOrder == Message(generate_execute_order)
OrderAAPL == Message(create_add_order(Value("AAPL", 32)))
OrderMSFT == Message(create_add_order(Value("MSFT", 32)))
OrderTSLA == Message(create_add_order(Value("TSLA", 32)))
TradeGOOGL == Message(create_trade(Value("GOOGL", 40)))
TradeNVDA == Message(create_trade(Value("NVDA", 32)))

\* Two messages in turn, as the loops over i % 2 make them.
Alternate(n, even, odd) ==
  [k \in 1 .. n |-> IF k % 2 = 1 THEN even ELSE odd]

demo_basic_parsing == <<OrderAAPL, OrderMSFT, TradeGOOGL>>
demo_async_logging(n) == Alternate(n, OrderTSLA, TradeNVDA)

\* one message, parsed again and again
demo_performance_features(n) == Alternate(n, OrderAAPL, OrderAAPL)

\* benchmark_parser_only, _with_logger and _with_cpu_pinning make the same
BenchmarkMessages(n) == Alternate(n, AddOrder, ExecuteOrder)

batch == batches[section]
Logs == section = 2
Pins == section = 3

\* A parsed message as the logger knows it, and the space it takes there.
LogSizes ==
  [ A |-> get_message_size([type |-> MessageType.ADD_ORDER]),
    E |-> get_message_size([type |-> MessageType.EXECUTE_ORDER]),
    P |-> get_message_size([type |-> MessageType.TRADE]) ]

Messages == (DOMAIN LogSizes) \X (1 .. MaxMessages)

\* Two threads, and a buffer that holds any message (BUFFER_SIZE is 4 MB).
ASSUME DistinctThreads == Main # Worker /\ Nobody \notin {Main, Worker}
ASSUME MaxMessagesNat == MaxMessages \in Nat
ASSUME BufferedFaults == Faults \subseteq {"open", "thread", "short", "write"}
ASSUME MessagesFit ==
  /\ BufferSize \in Nat
  /\ \A t \in DOMAIN LogSizes : LogSizes[t] <= BufferSize

Logger == INSTANCE AsyncLogger WITH
  Producers <- {Main}, Controller <- Main,
  Size <- [m \in Messages |-> LogSizes[m[1]]],
  Alignment <- 1, InitialSize <- BufferSize,
  Modes <- {"BUFFERED"},
  MapsWriteOnly <- TRUE, MaxSessions <- [w \in {"BUFFERED"} |-> 1]

Guards == INSTANCE ScopedGuards WITH
  Threads <- {Main}, Cores <- {0}, MaxGuards <- 1

-----------------------------------------------------------------------------
NoStats == [total_messages |-> 0, total_bytes |-> 0]

\* demo.cpp fixes its numbers of messages, benchmark.cpp takes any.
Init ==
  /\ program \in {"demo", "benchmark"}
  /\ num_messages \in 0 .. MaxMessages
  /\ program = "demo" => num_messages = MaxMessages
  /\ section = 1 /\ step = "enter" /\ i = 0
  /\ stats = NoStats
  /\ batches = IF program = "benchmark"
               THEN [s \in 1 .. 3 |-> BenchmarkMessages(num_messages)]
               ELSE << demo_basic_parsing, demo_async_logging(num_messages),
                       demo_performance_features(num_messages) >>
  /\ Logger!Init
  /\ Guards!Init

Goto(label) ==
  /\ step' = label
  /\ UNCHANGED <<program, num_messages, section, i, batches>>

Enter ==
  /\ step = "enter" /\ ~ Logs /\ ~ Pins
  /\ Goto("next")
  /\ UNCHANGED <<stats, guardVars, loggerVars>>

\* The demo's pin is gone before the loop, the benchmark's lives through it.
EnterPinned ==
  /\ step = "enter" /\ Pins
  /\ Guards!Pin(Main, 0)
  /\ Goto(IF program = "demo" THEN "unpin" ELSE "next")
  /\ UNCHANGED <<stats, loggerVars>>

EndOfScope ==
  /\ step = "unpin"
  /\ Guards!Unpin(Main)
  /\ Goto("next")
  /\ UNCHANGED <<stats, loggerVars>>

\* logger->start().  Nobody catches what it throws.
Start ==
  /\ step = "enter" /\ Logs
  /\ \/ Logger!OpenFile /\ Goto("spawn")
     \/ Logger!OpenFails /\ Goto("aborted")
  /\ UNCHANGED <<stats, guardVars>>

StartThread ==
  /\ step = "spawn"
  /\ Logger!Spawn
  /\ Goto(IF wpc' = "none" THEN "aborted" ELSE "next")
  /\ UNCHANGED <<stats, guardVars>>

\* The message the loop has taken last.
Current == batch[i]

Count(message) ==
  stats' = [total_messages |-> stats.total_messages + 1,
            total_bytes |-> stats.total_bytes + message.length]

\* The next message is parsed and, without a logger, counted.
ParseNext ==
  /\ step = "next" /\ i < Len(batch)
  /\ i' = i + 1
  /\ LET message == batch[i + 1]
     IN  IF ~ message.has_value THEN UNCHANGED <<stats, step>>
         ELSE IF Logs THEN step' = "log" /\ UNCHANGED stats
         ELSE Count(message) /\ UNCHANGED step
  /\ UNCHANGED <<program, num_messages, section, batches, guardVars,
                 loggerVars>>

CallLog ==
  /\ step = "log"
  /\ Logger!LogCall(Main, <<Current.type, i>>)
  /\ Goto("logging")
  /\ UNCHANGED <<stats, guardVars>>

InsideLog ==
  /\ step = "logging"
  /\ Logger!LogReserve(Main)
  /\ UNCHANGED <<mainVars, guardVars>>

\* mutants: a full queue is not waited for; every attempt is counted
MutantLogReturns ==
  /\ step = "logging"
  /\ Logger!LogReturn(Main)
  /\ Count(Current) /\ Goto("next")
  /\ UNCHANGED guardVars

MutantCountEachTry ==
  /\ step = "logging"
  /\ Logger!LogReturn(Main)
  /\ Count(Current)
  /\ Goto(IF ret'[Main] = "true" THEN "next" ELSE "log")
  /\ UNCHANGED guardVars

\* while (!logger->log(*parsed)) yield
LogReturns ==
  /\ step = "logging"
  /\ Logger!LogReturn(Main)
  /\ \/ ret'[Main] = "true" /\ Count(Current) /\ Goto("next")
     \/ ret'[Main] = "false" /\ UNCHANGED stats /\ Goto("log")
  /\ UNCHANGED guardVars

\* After the loop: logger->stop(), or nothing.
EndOfLoop ==
  /\ step = "next" /\ i = Len(batch)
  /\ \/ Logs /\ Logger!StopCall /\ Goto("stopping")
     \/ ~ Logs /\ Goto("leave") /\ UNCHANGED loggerVars
  /\ UNCHANGED <<stats, guardVars>>

InsideStop ==
  /\ step = "stopping"
  /\ Logger!ControllerContinues
  /\ Goto(IF cpc' = "idle" THEN "leave" ELSE "stopping")
  /\ UNCHANGED <<stats, guardVars>>

\* The section's objects are destroyed; ~AsyncLogger finds it stopped.
Leave ==
  /\ step = "leave"
  /\ IF guards[Main] # <<>> THEN Guards!Unpin(Main) ELSE UNCHANGED guardVars
  /\ IF section < 3
     THEN /\ section' = section + 1 /\ step' = "enter"
          /\ i' = 0 /\ stats' = NoStats
     ELSE step' = "done" /\ UNCHANGED <<section, i, stats>>
  /\ UNCHANGED <<program, num_messages, batches, loggerVars>>

MainThread ==
  \/ Enter \/ EnterPinned \/ EndOfScope
  \/ Start \/ StartThread
  \/ ParseNext
  \/ CallLog \/ InsideLog \/ LogReturns
  \/ EndOfLoop \/ InsideStop \/ Leave

WorkerThread ==
  /\ step # "aborted"
  /\ Logger!WorkerLoop
  /\ UNCHANGED <<mainVars, guardVars>>

Next == MainThread \/ WorkerThread

\* The scheduler keeps running both threads.
FairSpec ==
  /\ Init /\ [][Next]_vars
  /\ WF_vars(MainThread)
  /\ WF_vars(WorkerThread)

-----------------------------------------------------------------------------
\* The end of a section: its report is about to be printed.
Reporting == step = "leave"

\* The messages of the section, as the logger knows them.
Logged == [k \in DOMAIN batch |-> <<batch[k].type, k>>]

\* Every message a program makes up is in its log, once, in the order in
\* which it was made, when stop() has returned and no write() has failed or
\* was short: the wait for a full queue (demo.cpp:173, benchmark.cpp:189),
\* the drain of the worker and the flush of stop() leave none behind,
\* although stop() is called right after the last log().
Delivered ==
  Reporting /\ Logs /\ ~ lost =>
    Logger!FileData = Logger!Encodings(Logged)

\* The reports agree: every message of the section was counted once, however
\* often its log() was tried again and whatever became of it, and the
\* logger's get_total_written() ("Logger wrote", benchmark.cpp:206) is the
\* number of bytes the benchmark counted itself (line 197), although one adds
\* up the lengths of the messages received and the other the sizes of the
\* structs written, unless a write() has failed or was short.
ReportsAgree ==
  Reporting =>
    /\ stats.total_messages = Len(batch)
    /\ Logs /\ ~ lost => total_written = stats.total_bytes

\* However many calls of write() fail, each takes whole messages with it: what
\* remains in the file are messages of the batch, complete and in their
\* order, and "Logger wrote" is what they take.  flush() forgets the buffer
\* after a failure (async_logger.hpp:180-184) and never splits a message
\* between two calls of write().  A short write() would cut a message.
WholeMessages ==
  Reporting /\ Logs /\ "short" \notin Faults =>
    /\ total_written = Len(Logger!FileData)
    /\ \E kept \in SUBSET DOMAIN batch :
         Logger!FileData =
           Logger!FlattenSeq([k \in DOMAIN batch |->
             IF k \in kept THEN Logger!Encode(Logged[k]) ELSE <<>>])

\* Both programs come to an end: the main thread's retries are answered by a
\* worker that makes room, and stop() returns.
ProgramEnds == <>(step \in {"done", "aborted"})

=============================================================================
