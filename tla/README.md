# Verification of the market data parser

TLA+ models, TLC runs and TLAPS proofs for the C++ library in `include/`: a
parser for ITCH messages, a lock-free queue, an asynchronous file logger, and
system helpers. Line numbers below refer to the files under `include/` unless a
path is given.

## 1. The system

| Component | State | Operations | Hard behaviour |
|---|---|---|---|
| `MPMCQueue` (mpmc_queue.hpp) | `head_`, `tail_`, one sequence number and one item per slot | `try_enqueue`, `try_dequeue`, `size`, `empty`, from any thread | lock-free claims, stale loads, spurious compare-exchange failures, threads that stop in the middle of a call |
| `AsyncLogger` (async_logger.hpp) | a queue, `running_`, worker thread, descriptor, mapping, write buffer, counters | `start`, `stop`, `log`, statistics; the worker loop | `log` against worker against `stop`, restart, failing system calls, three write modes |
| ITCH protocol (itch_protocol.hpp) | none | packed structs, byte swaps, price conversion, symbol trimming | struct sizes decide which messages are accepted |
| `ITCHParser` (itch_parser.hpp) | none | `parse` | dispatch on type and exact length |
| `SystemUtils` (system_utils.hpp) | the thread's affinity, the process's memory lock | pin, lock, priority, TSC, huge pages, two RAII guards | nested guards |
| demo.cpp, benchmark.cpp | statistics | parse, `log` until accepted, `stop` | the retry loop against a full queue |

The programs parse on one thread, hand each message to `log()`, which is
`try_enqueue` on the logger's queue, and call `stop()` at the end. The worker
thread is the queue's only consumer; it is the only writer of the file until
`stop()` has joined it. `running_` is the only flag between them.

What makes each part correct:

* queue: no two threads touch a slot's item at once; items come out once, whole
  and in the order of their claims; `false` has a reason; a stopped thread does
  not block the others;
* logger: the file holds the accepted messages once, whole and in order; every
  write is inside the buffer or the mapping; the file is open whenever it is
  used, whatever failed before; `stop()` returns, and then everything accepted
  is in the file; an accepted message does not wait for `stop()`;
* protocol and parser: a message is accepted exactly for the right type and
  length, and the parser, the size switch and the copy switch of the logger
  agree on every field of it;
* system helpers: a guard's promise holds until the guard ends;
* programs: every generated message is in the log, the reports agree, and the
  program ends.

The full list of hazards, with lines and the properties aimed at them, is in
`PROJECT.json`.

## 2. Modules

| Module | What it is |
|---|---|
| `MPMCQueue` | the queue, one step per access to shared memory |
| `BoundedFIFO` | what the queue promises: reserve, commit, take, free |
| `MPMCQueueImpl` | refinement mapping from `MPMCQueue` to `BoundedFIFO` |
| `MCQueue`, `MCQueueLive` | instances for TLC |
| `MPMCQueueProofs` | proofs about `MPMCQueue` |
| `MPMCQueueImplProofs` | proof of the refinement |
| `AsyncLogger` | the logger; its queue is an instance of `BoundedFIFO` |
| `MCLogger` | instance for TLC |
| `AsyncLoggerProofs` | proofs about `AsyncLogger`: types, life cycle, space |
| `AsyncLoggerDataProofs` | proofs about the content of the file |
| `FlattenLemmas` | what `FlattenSeq` computes, for the proofs about messages and files |
| `ITCHProtocol` | message types, structs, sizes, byte swaps, symbol trimming (no state) |
| `ITCHParser` | `parse` and the logger's two switches over message types (no state) |
| `Generators` | the messages the programs make up, and `print_message` (no state) |
| `MessagePath` | one message from the wire to the log, on top of the three |
| `MCMessagePath` | instance for TLC |
| `MessageLemmas` | layout of the structs, `parse`, the switches and the generators, field by field |
| `MessagePathProofs` | proofs about `MessagePath` |
| `ScopedGuards` | `ScopedCPUPin` and `ScopedMemoryLock` |
| `Programs` | demo.cpp and benchmark.cpp: composes `Generators`, `ITCHParser`, `AsyncLogger` and `ScopedGuards` |
| `ProgramsProofs` | proofs about `Programs` |

### MPMCQueue

`head`, `tail`, `sequences` and `buffer` are the members of lines 117-122. A
thread's `pc` names the shared access it performs next, `pos` and `item` are
the locals of its call. `try_enqueue` is `EnqCall` (first load of `head_`),
`EnqLoadSeq` (load of the slot's sequence and the three-way branch), `EnqReload`
(line 69), `EnqClaim` or `EnqClaimFails` (line 57), `EnqWrite` (line 60) and
`EnqPublish` (lines 61-62); `try_dequeue` is the same with `Deq`; `size` is two
loads. `empty` compares the result of `size` with 0.

*Memory order.* The model is sequentially consistent. The code reads the x86
time stamp counter with inline assembly and so runs on x86 only, where the one
reordering is a store delayed past later loads of other locations. The only plain
store that matters is the one of a sequence number at the end of a call (line 61
or 92): the item's store or load stays before it, and the next claim, a locked
instruction, drains it. The ownership of slots therefore does not depend on the
difference. What the model leaves out is that another thread may see the store
late: a call may return `false` on a slot although the call that filled or freed
it has already returned.

*Spurious failure.* `compare_exchange_weak` may fail although the value matches:
`EnqClaimFails` has no guard on `head`.

*Numbers.* Positions are unbounded naturals where the code has `size_t`.
`WordsAgree` says that this makes no difference: the signed differences of lines
53 and 84 and the compare-exchanges, computed modulo `Word`, take the branch they
take on unbounded numbers. It needs that fewer than `Word / 2 - Capacity` claims
pass a thread between its load of the position and the comparison; with 2^64
values that is no restriction. The run uses `Word` 8, so that the condition fails
for some states and holds for others; its positions stay below 8, so that a
counter wraps around only in `WordArithmetic`, the proof of `WordsAgree` for every
word size. `size` does wrap (its operands are not read together), so its result is
taken modulo `Word`.

### BoundedFIFO and the refinement

A successful call has two visible moments: the claim and the return. Between them
a producer's place is reserved and blocks consumers behind it, and a consumer's
place is not free yet and may make producers fail. That is the weakest queue the
code implements; an atomic FIFO would be wrong: `try_dequeue` fails on a first
position that is claimed and not published although items stand behind it, and
`try_enqueue` on a slot that is consumed and not released. The mapping needs no
history: the places in use are the positions from `tail` to `head`, the item of an
unpublished one is the parameter of the thread that claimed it.

### AsyncLogger

The queue is `INSTANCE BoundedFIFO` with the worker as its only consumer, so
what is checked here holds for the real queue by the refinement. The worker's
`wpc` and the controlling thread's `cpc` name where they are in `worker_loop`,
`write_message`, `start` and `stop`; `Flush`, `ExpandMmap` and the other private
functions are operators used by the steps that call them. The file and the
buffer are sequences of units, a message is `Size[m]` units, and the file's
units remember whether they are padding of a direct write. The padding's content
is what the buffer held there before, as in the code; `FileData` leaves it out and
no property looks at it, since nothing in the repository says how a direct file is
read back.

Failing system calls are chosen by `Faults`: `open`, `ftruncate`, `mmap`, thread
creation, short and failed `write`. A failure in `start()` is an exception to
its caller; one in the worker (`expand_mmap`, line 229) terminates the process,
as does a store past the end of the file or outside the mapping.
`MapsWriteOnly` says whether `mmap` accepts a descriptor opened `O_WRONLY`. POSIX
systems refuse it, so with the code as it is no MMAP session starts
(`logger_mmap`, where it is `FALSE`). The other runs set it to `TRUE`: what they
show of MMAP mode is how lines 131-231 behave once the descriptor can be mapped.
The exceptions
are those of the Makefile build; CMake's Release flags contain
`-fno-exceptions`, with which `throw` does not compile.

`claimed`, `promised` and `lost` are history variables; no guard of the code's
steps reads them (`LogCall` reads `claimed` to bound the model: a message is
logged once per session). `lost` is set when a `write()` fails or is short, after
which the file cannot be complete, and cleared by the next `start()`.
`MaxSessions` bounds the sessions per write mode.

Simplifications: one thread calls `start` and `stop`, as in the programs; the
destructor is a `stop()` and then frees the buffer; a `start()` on a running
logger and a `stop()` on a stopped one return at once and are no steps.

### ITCHProtocol, ITCHParser, Generators and MessagePath

A struct is the sequence of its fields with their widths; `sizeof` and offsets
follow from `#pragma pack(1)`. A byte of a message is told apart from every other
by where it came from, so a property can say of each byte of the log which byte
of the wire it is; of its value only the message types and the blank matter. An
integer is its bytes, least significant first; assigning one to a narrower or a
wider field drops bytes or adds zeros (`hton16(counter_++)`, `hton64(1000000 +
counter_)`). A `parse_` function is the record of the fields it assigns with the
conversion of each; what it does not assign stays indeterminate in the union, and
what it reads past the end of the message is marked as coming from outside.
`parse`, `get_message_size` and `serialize_message` are three separate case
distinctions, as in the code. `MessagePath` takes one message through `Parse`,
`Show` (demo.cpp:140-142) and `Store` (lines 188-210). The message is of any type
and length, or from a generator. `Formats`, the struct of each type, is used by
the inputs and the properties only.

### ScopedGuards

Each thread has a stack of guards. The affinity is per thread, the memory lock
belongs to the process. Every system call may be refused, those of the destructors
included, which look at no result.

### Programs

The main thread of both programs, section by section: generate, `start()`, parse,
`log()` until it is accepted, `stop()`, report; parse on a pinned core. The logger
is an instance of `AsyncLogger` with the main thread as its only producer and its
controller. Its steps are those of the library, each conjoined with where the
program is, so a retry really meets a full queue and `stop()` a worker in any
state. Messages have the sizes of the real structs. `Faults` are the calls of a
buffered logger that may fail: `start()` may throw, which nobody catches, and a
`write()` may fail or be short, which nobody notices. What a section generates
does not depend on anything that happens later, so the batches are computed in
`Init`. Of each message they keep what the loops look at: its length, its type and
whether it parses. The demo has no `Stats`; the model counts there too, as a
history.

## 3. Runs

| Run | Checks | Shows |
|---|---|---|
| `queue` | `TypeOK`, `NoDataRace`, `BoundedOccupancy`, `SlotProtocol`, `WordsAgree`, `ImplementsFifo` | the queue implements `BoundedFIFO` in every interleaving, and its comparisons of words agree with the unbounded positions of the model |
| `queue_live` | `NonBlocking`, `SoleCallerSize` | calls return although another producer and another consumer are stuck; `size()` is exact for the only producer and never too large for the only consumer |
| `logger` | `TypeOK`, `RoomForMessage`, `LogIntegrity`, `TotalIsFileSize`, `StopReturns`, `EventuallyLogged` | all write modes, two producers, no failures: the file is right, `stop()` ends although producers are stuck in `log()`, messages reach the file without `stop()` |
| `logger_faults` | `FileOpenWhileUsed`, `DirectAligned`, `LoggerInv`, `LogIntegrity` | every system call may fail; a second session in the modes that `write()` |
| `parser` | `LoggedDecoded`, `ShownAsCreated`, `SymbolTrimmed` | a message is accepted by type and length, decoded field by field, logged whole, and shown as it was created |
| `programs` | `Delivered`, `ReportsAgree`, `WholeMessages`, `ProgramEnds` | demo and benchmark from `main` to its end: nothing is missing from the log unless a `write()` failed, and then whole messages |

`size()` promises nothing to a thread that is neither the only producer nor the
only consumer: between its two loads `tail_` may pass the loaded `head_`, and
`head - tail` wraps around.

Runs that end in a violation, each a disagreement between the code and what it
says of itself:

| Run | Property | What happens |
|---|---|---|
| `queue_one_slot` | `BoundedOccupancy` | `Capacity` 1 passes the `static_assert` (line 27) and loses items |
| `logger_drain` | `StopFlushes` | `stop()` leaves accepted messages behind another producer's claim |
| `logger_mmap` | `ModeStarts` | the file is opened `O_WRONLY` (line 109), with which `mmap` fails: MMAP mode, the default, never starts |
| `logger_short_write` | `TotalIsFileSize` | a short `write()` is counted in full |
| `struct_sizes` | `TestedSizes` | messages of the lengths test/test_parser.cpp:250-254 expects are refused; the structs are two bytes longer, which `-DNDEBUG` hides from the test |
| `guards` | `GuardHolds` | an inner guard's destructor undoes the outer one's pin or memory lock |

*Bounds.* Queue: two slots and `MaxPos` 3 let `head_` enter the second lap while
slots of the first are still being read or published, and two threads per side
let a claim fail for every reason. Two values are enough to see a swapped item.
Logger: three messages of sizes 1, 2 and 2 against a buffer of 4 and a mapping
of 3 units fill both exactly and overflow them; the mapping is doubled; with
alignment 2 direct writes are padded and not; the queue of two places gets full.
Parser: all 22 message types and one unknown, all lengths up to two more than the
longest struct, all 256 patterns of blanks in a symbol, symbols of one to eight
letters; nothing else distinguishes inputs. Programs: up to six messages against
a queue of two and a buffer of 80 bytes, which two messages of the benchmark
nearly fill and two of the demo overflow, so `log()` meets a full queue and
`write_message` a full buffer; `num_messages` of the benchmark includes 0; every
`write()` may fail. It is never short there: `Delivered` and `ReportsAgree` promise
as much after a short one as after a failed one, `WholeMessages` promises nothing
then, and `logger_faults` and `logger_short_write` show what it does.
Guards: two guards in each of two threads, two CPUs and a core that does not
exist.
`CHECK_DEADLOCK` is off for the logger (once its messages are logged and its
sessions used up, or the process has died, nothing happens any more), for a
message that has reached the log and for the programs, which end.

*Fairness.* `FairThread(t)` of the queue: a thread in a call keeps running, and
a compare-exchange that is possible again and again succeeds at some time; the
threads in `Stalled` get none of it. `FairSpec` of the logger: the worker and a
call of `start()` or `stop()` in progress keep running; producers may stop
anywhere. A producer stuck between claim and publication does hold up the
messages behind it, so `EventuallyLogged` assumes that none is stuck there for
ever. Nobody is obliged to make a call. `FairSpec` of the programs: both threads
keep running, which is all a scheduler has to give; the main thread's program
obliges it to call `stop()`.
The number of messages is finite, so a `stop()` that races an endless stream of
`log()` calls, whose drain need not end, is outside `StopReturns`; likewise
`NonBlocking` is checked with finitely many claims, because the queue is
lock-free and not wait-free.

## 4. Proofs

Every invariant of the passing runs is proved. A theorem holds for every value of
the constants that satisfies the module's `ASSUME`s and the assumptions in its
statement.

### The queue

`MPMCQueueProofs` and `MPMCQueueImplProofs`, for any sets of threads, any power
of two as capacity, any number of operations:

* `TypeCorrect`: `Spec => []TypeOK`;
* `ProtocolInvariant`: `Spec => []SlotProtocol` if `Capacity >= 2`;
* `DataRaceFreedom`, `OccupancyBound` and `WordArithmetic` (`WordsAgree`, for
  every word size) follow from it;
* `SizeForSoleCaller`: `Spec => []SoleCallerSize`, if the word can also hold
  the capacity;
* `QueueImplementsFifo`: `Spec => ImplementsFifo`, the refinement.

`NoDataRace` and `BoundedOccupancy` are not inductive: the code never compares
`head_` with `tail_`, so the bound must come out of the sequence numbers.
`SlotProtocol` ties them to the claims. `WriterInv` and `ReaderInv` say that a
thread between claim and store owns a position nobody else owns, in a slot that
still shows the number it was claimed with; `QueuedInv` and `FreeInv` say that
every position between `tail` and `head`, and every one of the free positions up
to `tail + Capacity`, has the right number in its slot or a thread at work on it;
`LoadedInv` and `LapInv` say that numbers only grow, which is why a claim after a
stale load still succeeds only in the lap that was seen. The slot arithmetic
(`SlotRange`, `SlotInjective`, `SlotNextLap`, `SlotFirstLap`) is proved first;
after it `Slot` stays folded. `Capacity >= 2` is needed: with one slot
`Published(p)` is the next position to be claimed (`queue_one_slot`).

`SoleCallerSize` speaks of the moment `size()` returns; `LoadedHeadInv` carries
what the first of its two loads saw to the second.

The refinement takes the steps one by one: a claim is `Reserve` or `Take`, a
publication `Commit`, a release `Free`, everything else a stutter, except that a
call that returns `false` is `RefuseEnqueue` or `RefuseDequeue` where it has
read the sequence number that makes it fail. `PlacesInv`, a consequence of
`SlotProtocol`, says which item each position in use stands for.

### The logger

`AsyncLoggerProofs` and `AsyncLoggerDataProofs`, for any producers, messages,
sizes and failing calls, from `SizeFits` (no message is larger than the buffer
or the first mapping), `Units` (the buffer is a multiple of the alignment) and
`OneMappedSession`:

* `LoggerInvariant`: `Spec => [](TypeOK /\ LoggerInv)`;
* `LoggerTypes`, `RoomAlways` and `FileAlwaysOpen` follow from it;
* `LogIntegrityAlways`: `Spec => []LogIntegrity`;
* `DirectAlignedAlways`: `Spec => []DirectAligned` (the offsets until a `write()`
  fails or is short);
* `TotalAlwaysFileSize`: `Spec => []TotalIsFileSize`, if also no call that moves
  data fails (`ReliableFile`; the run `logger_short_write` shows why).

`LifeCycle` ties the worker's existence and the open file to `running_` and to
where `start()` or `stop()` is; `HandInv` says the worker holds a real message;
`SpaceInv` keeps `total_written_` within a mapping that is at least as large as
the first, which is why one doubling is enough. It would fail in a second mapped
session, which maps `initial_size` again and keeps `total_written_`; hence
`OneMappedSession`: `MaxSessions["MMAP"] <= 1`, or `mmap` refuses the
descriptor as POSIX says (then no session is mapped at all).

`LogIntegrity` is nearly inductive: each step moves units from one of its four
parts to the next. `DataInv` adds the types of file and buffer and
`PositionInv`: `try_dequeue` runs only in the loops (so a message in the worker's
hands is not also in the queue's), `stop()` leaves an empty buffer behind (so the
`start()` that truncates the file starts from nothing), a mapped file is never
shorter than what was written. `TotalInv` adds where the counter equals the
length of the file before `stop()` has returned.

`LogIntegrity` says nothing once a `write()` has failed. `WholeInv` does, in the modes
that `write()`, if no write is short: the messages claimed are those that have left
the buffer, then those it holds, the worker's and the queue's, and the file spells out
some of the first, each whole and in order (`SomeOf`). It is proved for any number of
sessions (`WholeInvariant`) and used for the programs.

### Messages

`MessagePathProofs`, for messages of every length (`MaxLength`) and any set of
patterns of blanks:

* `PathInvariant`: each step works on the result of the one before;
* `AlwaysLoggedDecoded`, `AlwaysShownAsCreated` and `AlwaysSymbolTrimmed`:
  `Spec => []LoggedDecoded`, `[]ShownAsCreated`, `[]SymbolTrimmed`.

The state machine is simple; the work is in `MessageLemmas`. `OffsetLaws`,
`SizeOf` and `FlattenAt` say where the bytes of a field are in a struct.
`Layout(struct, table)` says that the fields have different names and that each
is assigned by the `parse_` function with a conversion of its width; it is
proved for the nine structs one by one, and everything else is proved once for
every struct with a `Layout`: `AssignAt` (what a `parse_` function leaves in the
union), `MemberOfParsed` (what a field of a parsed message is of the bytes on
the wire), `FillAt` (what a generator puts there), `GeneratedMember` (both
together: two swaps cancel). `ParseCases` and `LogCases` bring the three
switches of the code together.

### Programs

`ProgramsProofs`, for every number of messages, capacity of the queue and size of
the buffer, from `MessagesFit` (no message is larger than the buffer, 4 MB in
the code), `MaxMessagesNat`, `DistinctThreads` and `BufferedFaults` (any of the calls
of a buffered logger may fail, or none: `open`, thread creation, short and failed
`write()`):

* `AlwaysDelivered`: `FairSpec => []Delivered`;
* `ReportsAlwaysAgree`: `FairSpec => []ReportsAgree`;
* `MessagesAlwaysWhole`: `FairSpec => []WholeMessages`.

The first two speak of a section in which no `write()` failed or was short
(`~ lost`), except that every message is counted once in any case; the third of
programs whose `write()` may fail as often as it likes and is never short.
`PlaceInv` says which steps belong to which section and program. The rest builds
on the proofs about the parts. From `MessageLemmas`, `AllWellformed`: every
message the programs make up parses, and the logger's size of it is its length on
the wire; `BatchInv` carries this to the batches. `LoggerStep`: every step of a
program is a step of its logger or leaves it alone, so that the logger's
invariants hold inside the programs (`LoggerFactsHold`). `CountInv` says what the
counters are at every moment. Neither says that a message of the batch was
accepted, or that the worker has seen it when `stop()` returns. `StageInv` does,
stage by stage: until `start()` has returned nothing has happened (`FreshInv`);
while the section logs, the worker stays in its first loop (`RunningInv`) and what
has a place in the queue is the beginning of the batch, up to or without the
message in the call of `log()` (`ClaimedInv`); from `stop()` on a worker that has
returned has left an empty queue, because no place can be reserved and unfilled
when the only producer is the thread that waits for it (`StoppingInv`); the
counter is the length of the data, unless a short `write()` was counted in full
(`SoundInv`). At the end `LogIntegrity` reads file = batch (`FileIsBatch`).
`StageInv` was checked with TLC on three messages before it was proved.
`WholeMessages` needs the same at the level of messages, `WholeInv` of the logger.

### How induction over data is done

The induction rules of the library take an operator as a parameter, which the
provers cannot instantiate. Where a proof needs induction over numbers (what
`FlattenSeq`, `Offset` and the loop of `get_stock_symbol` compute) it takes the
least element of the set of counterexamples instead (`LeastNat`). The names of
fields are taken from a set of their own (`FieldName`), because the provers know
of a string only that it differs from others.

### Only model-checked

Liveness, which is out of this prover's reach: `NonBlocking`, `StopReturns`,
`EventuallyLogged` and `ProgramEnds`.

## 5. Not modelled

* a constructor of `AsyncLogger` that throws because `posix_memalign` fails (lines
  41-43): there is no logger then;
* several threads calling `start()` or `stop()` of one logger at once: the
  programs have one, and the code does not say that more are allowed;
* `price_to_double`, a division in floating point; the time stamps
  (`get_timestamp_ns`, `get_itch_timestamp`) beyond being some 64-bit value;
* latencies, percentiles and the text the programs print;
* the time stamp counter, CPU governor files, huge pages, real-time priority and
  prefetching: system I/O without state of the program;
* the test program, read as documentation; build and tuning scripts.
