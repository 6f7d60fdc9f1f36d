------------------------------ MODULE MPMCQueue ------------------------------
(***************************************************************************)
(* The lock-free queue of include/mpmc_queue.hpp.                          *)
(*                                                                         *)
(* Every access to shared memory (an atomic load, an atomic store, a       *)
(* compare-exchange, the plain read or write of a buffer slot) is one      *)
(* step, so threads interleave between any two of them; the computations   *)
(* on locals between two accesses belong to the access before them.  The   *)
(* result of the sequence load decides the branch the loop takes, so the   *)
(* loaded value itself is not kept.                                        *)
(*                                                                         *)
(* pc[t] names the access that thread t performs next:                     *)
(*   idle      no call in progress                                         *)
(*   e_load    reload head_        e_seq    load the slot's sequence       *)
(*   e_cas     claim head_         e_write  copy the item into the slot    *)
(*   e_pub     store the sequence and return true                          *)
(*   d_load .. d_rel               the same for try_dequeue                *)
(*   s_tail    second load of size()                                       *)
(*                                                                         *)
(* Positions are unbounded naturals, where the code's are size_t values    *)
(* (Word of them); WordsAgree says when the two take the same branches.    *)
(* size() subtracts two loads that need not be ordered, so its result      *)
(* wraps, modulo Word.                                                     *)
(***************************************************************************)
EXTENDS Integers

CONSTANTS
  Producers,  \* threads that call try_enqueue
  Consumers,  \* threads that call try_dequeue
  Observers,  \* threads that call size() or empty()
  Values,     \* items
  Garbage,    \* what a slot or an out parameter holds before its first write
  Capacity,   \* number of slots
  MaxPos,     \* bound: no try_enqueue starts once head_ has reached MaxPos
  Word        \* number of values of size_t (2^64 in the build)

Threads == Producers \cup Consumers \cup Observers

\* static_assert((Capacity & (Capacity - 1)) == 0); a zero-length buffer_ is
\* not an array, so 0 is left out although the assertion lets it through.
ASSUME CapacityNat == Capacity \in Nat \ {0}
ASSUME CapacityPowerOfTwo == \E k \in 0 .. Capacity : Capacity = 2 ^ k
ASSUME BoundsNat == MaxPos \in Nat /\ Word \in Nat \ {0}
ASSUME GarbageNotValue == Garbage \notin Values

VARIABLES
  head,       \* head_: next position a producer claims
  tail,       \* tail_: next position a consumer claims
  sequences,  \* sequences_: one number per slot
  buffer,     \* buffer_: one item per slot
  pc,         \* per thread: the access it performs next
  pos,        \* per thread: local pos (for size(): local head)
  item,       \* per thread: the item parameter of its call
  ret         \* per thread: what its last try_ call returned

vars == <<head, tail, sequences, buffer, pc, pos, item, ret>>

Slots == 0 .. Capacity - 1

PCs == {"idle", "e_load", "e_seq", "e_cas", "e_write", "e_pub",
        "d_load", "d_seq", "d_cas", "d_read", "d_rel", "s_tail"}

TypeOK ==
  /\ head \in Nat
  /\ tail \in Nat
  /\ sequences \in [Slots -> Nat]
  /\ buffer \in [Slots -> Values \cup {Garbage}]
  /\ pc \in [Threads -> PCs]
  /\ pos \in [Threads -> Nat]
  /\ item \in [Threads -> Values \cup {Garbage}]
  /\ ret \in [Threads -> {"none", "true", "false"}]

-----------------------------------------------------------------------------
\* index = pos & (Capacity - 1), for a Capacity that is a power of two
Slot(p) == p % Capacity

\* The sequence numbers a slot goes through: position p may be claimed by a
\* producer when the slot shows p, by a consumer when it shows Published(p),
\* and the slot is handed to the next lap by storing Released(p).
Published(p) == p + 1

\* mutant: a lap too early
MutantReleased(p) == p - Capacity
Released(p) == p + Capacity

EnqDiff(t) == sequences[Slot(pos[t])] - pos[t]
DeqDiff(t) == sequences[Slot(pos[t])] - Published(pos[t])

\* mutant: the difference stays unsigned
MutantSigned(w) == w

\* static_cast<intptr_t> of a word
Signed(w) == IF 2 * w < Word THEN w ELSE w - Word

Goto(t, label) == pc' = [pc EXCEPT ![t] = label]

Return(t, result) ==
  /\ Goto(t, "idle")
  /\ ret' = [ret EXCEPT ![t] = result]

-----------------------------------------------------------------------------
\* MPMCQueue(): every slot shows its own position of the first lap.
Init ==
  /\ head = 0
  /\ tail = 0
  /\ sequences = [i \in Slots |-> i]
  /\ buffer = [i \in Slots |-> Garbage]
  /\ pc = [t \in Threads |-> "idle"]
  /\ pos = [t \in Threads |-> 0]
  /\ item = [t \in Threads |-> Garbage]
  /\ ret = [t \in Threads |-> "none"]

-----------------------------------------------------------------------------
(* try_enqueue *)

\* The call and its first load of head_.
EnqCall(t, v) ==
  /\ pc[t] = "idle"
  /\ head < MaxPos
  /\ item' = [item EXCEPT ![t] = v]
  /\ ret' = [ret EXCEPT ![t] = "none"]
  /\ pos' = [pos EXCEPT ![t] = head]
  /\ Goto(t, "e_seq")
  /\ UNCHANGED <<head, tail, sequences, buffer>>

\* mutants: no reload of pos; no test for a full queue
MutantEnqNoReload(t) ==
  /\ pc[t] = "e_seq"
  /\ \/ EnqDiff(t) = 0 /\ Goto(t, "e_cas") /\ UNCHANGED ret
     \/ EnqDiff(t) < 0 /\ Return(t, "false")
     \/ EnqDiff(t) > 0 /\ Goto(t, "e_seq") /\ UNCHANGED ret
  /\ UNCHANGED <<head, tail, sequences, buffer, pos, item>>

MutantEnqNoFullTest(t) ==
  /\ pc[t] = "e_seq"
  /\ \/ EnqDiff(t) <= 0 /\ Goto(t, "e_cas") /\ UNCHANGED ret
     \/ EnqDiff(t) > 0 /\ Goto(t, "e_load") /\ UNCHANGED ret
  /\ UNCHANGED <<head, tail, sequences, buffer, pos, item>>

\* Load of the slot's sequence and the three-way branch on diff.
EnqLoadSeq(t) ==
  /\ pc[t] = "e_seq"
  /\ \/ EnqDiff(t) = 0 /\ Goto(t, "e_cas") /\ UNCHANGED ret
     \/ EnqDiff(t) < 0 /\ Return(t, "false")
     \/ EnqDiff(t) > 0 /\ Goto(t, "e_load") /\ UNCHANGED ret
  /\ UNCHANGED <<head, tail, sequences, buffer, pos, item>>

\* Another thread is ahead: pos = head_.load()
EnqReload(t) ==
  /\ pc[t] = "e_load"
  /\ pos' = [pos EXCEPT ![t] = head]
  /\ Goto(t, "e_seq")
  /\ UNCHANGED <<head, tail, sequences, buffer, item, ret>>

\* mutant: a store of pos + 1 instead of a compare-exchange
MutantEnqClaim(t) ==
  /\ pc[t] = "e_cas"
  /\ head' = pos[t] + 1
  /\ Goto(t, "e_write")
  /\ UNCHANGED <<tail, sequences, buffer, pos, item, ret>>

\* compare_exchange_weak on head_ succeeds: the position is this thread's.
EnqClaim(t) ==
  /\ pc[t] = "e_cas"
  /\ head = pos[t]
  /\ head' = pos[t] + 1
  /\ Goto(t, "e_write")
  /\ UNCHANGED <<tail, sequences, buffer, pos, item, ret>>

\* compare_exchange_weak fails, because head_ moved or spuriously, and
\* leaves the current head_ in pos.
EnqClaimFails(t) ==
  /\ pc[t] = "e_cas"
  /\ pos' = [pos EXCEPT ![t] = head]
  /\ Goto(t, "e_seq")
  /\ UNCHANGED <<head, tail, sequences, buffer, item, ret>>

\* buffer_[index].value = item
EnqWrite(t) ==
  /\ pc[t] = "e_write"
  /\ buffer' = [buffer EXCEPT ![Slot(pos[t])] = item[t]]
  /\ Goto(t, "e_pub")
  /\ UNCHANGED <<head, tail, sequences, pos, item, ret>>

\* sequences_[index].store(pos + 1); return true
EnqPublish(t) ==
  /\ pc[t] = "e_pub"
  /\ sequences' = [sequences EXCEPT ![Slot(pos[t])] = Published(pos[t])]
  /\ Return(t, "true")
  /\ UNCHANGED <<head, tail, buffer, pos, item>>

-----------------------------------------------------------------------------
(* try_dequeue *)

DeqCall(t) ==
  /\ pc[t] = "idle"
  /\ ret' = [ret EXCEPT ![t] = "none"]
  /\ pos' = [pos EXCEPT ![t] = tail]
  /\ Goto(t, "d_seq")
  /\ UNCHANGED <<head, tail, sequences, buffer, item>>

\* mutant: diff is taken from pos instead of pos + 1
MutantDeqLoadSeq(t) ==
  /\ pc[t] = "d_seq"
  /\ \/ EnqDiff(t) = 0 /\ Goto(t, "d_cas") /\ UNCHANGED ret
     \/ EnqDiff(t) < 0 /\ Return(t, "false")
     \/ EnqDiff(t) > 0 /\ Goto(t, "d_load") /\ UNCHANGED ret
  /\ UNCHANGED <<head, tail, sequences, buffer, pos, item>>

DeqLoadSeq(t) ==
  /\ pc[t] = "d_seq"
  /\ \/ DeqDiff(t) = 0 /\ Goto(t, "d_cas") /\ UNCHANGED ret
     \/ DeqDiff(t) < 0 /\ Return(t, "false")
     \/ DeqDiff(t) > 0 /\ Goto(t, "d_load") /\ UNCHANGED ret
  /\ UNCHANGED <<head, tail, sequences, buffer, pos, item>>

DeqReload(t) ==
  /\ pc[t] = "d_load"
  /\ pos' = [pos EXCEPT ![t] = tail]
  /\ Goto(t, "d_seq")
  /\ UNCHANGED <<head, tail, sequences, buffer, item, ret>>

\* mutant: a store of pos + 1 instead of a compare-exchange
MutantDeqClaim(t) ==
  /\ pc[t] = "d_cas"
  /\ tail' = pos[t] + 1
  /\ Goto(t, "d_read")
  /\ UNCHANGED <<head, sequences, buffer, pos, item, ret>>

DeqClaim(t) ==
  /\ pc[t] = "d_cas"
  /\ tail = pos[t]
  /\ tail' = pos[t] + 1
  /\ Goto(t, "d_read")
  /\ UNCHANGED <<head, sequences, buffer, pos, item, ret>>

DeqClaimFails(t) ==
  /\ pc[t] = "d_cas"
  /\ pos' = [pos EXCEPT ![t] = tail]
  /\ Goto(t, "d_seq")
  /\ UNCHANGED <<head, tail, sequences, buffer, item, ret>>

\* item = buffer_[index].value
DeqRead(t) ==
  /\ pc[t] = "d_read"
  /\ item' = [item EXCEPT ![t] = buffer[Slot(pos[t])]]
  /\ Goto(t, "d_rel")
  /\ UNCHANGED <<head, tail, sequences, buffer, pos, ret>>

\* sequences_[index].store(pos + Capacity); return true
DeqRelease(t) ==
  /\ pc[t] = "d_rel"
  /\ sequences' = [sequences EXCEPT ![Slot(pos[t])] = Released(pos[t])]
  /\ Return(t, "true")
  /\ UNCHANGED <<head, tail, buffer, pos, item>>

-----------------------------------------------------------------------------
(* size(), and empty(), which compares its result with 0 *)

SizeLoadHead(t) ==
  /\ pc[t] = "idle"
  /\ pos' = [pos EXCEPT ![t] = head]
  /\ Goto(t, "s_tail")
  /\ UNCHANGED <<head, tail, sequences, buffer, item, ret>>

\* mutant: the operands of the subtraction are swapped
MutantSizeResult(t) == (tail - pos[t]) % Word

\* head - tail in size_t, once tail_ is loaded
SizeResult(t) == (pos[t] - tail) % Word

\* The second load, and the return of SizeResult(t).
SizeLoadTail(t) ==
  /\ pc[t] = "s_tail"
  /\ Goto(t, "idle")
  /\ UNCHANGED <<head, tail, sequences, buffer, pos, item, ret>>

-----------------------------------------------------------------------------
TryEnqueue(t) ==
  \/ \E v \in Values : EnqCall(t, v)
  \/ EnqLoadSeq(t)
  \/ EnqReload(t)
  \/ EnqClaim(t)
  \/ EnqClaimFails(t)
  \/ EnqWrite(t)
  \/ EnqPublish(t)

TryDequeue(t) ==
  \/ DeqCall(t)
  \/ DeqLoadSeq(t)
  \/ DeqReload(t)
  \/ DeqClaim(t)
  \/ DeqClaimFails(t)
  \/ DeqRead(t)
  \/ DeqRelease(t)

Size(t) == SizeLoadHead(t) \/ SizeLoadTail(t)

Next ==
  \/ \E t \in Producers : TryEnqueue(t)
  \/ \E t \in Consumers : TryDequeue(t)
  \/ \E t \in Observers : Size(t)

Spec == Init /\ [][Next]_vars

-----------------------------------------------------------------------------
(***************************************************************************)
(* Safety.                                                                 *)
(***************************************************************************)

\* Thread t owns the slot of the position it claimed and has not handed on.
Writing(t) == pc[t] \in {"e_write", "e_pub"}
Reading(t) == pc[t] \in {"d_read", "d_rel"}

\* No data race on buffer_: while a thread is about to copy an item into a
\* slot (line 60), no other thread is about to write or read the same slot
\* (lines 60 and 91).  The slots are plain memory; only the claims and the
\* sequence numbers keep the accesses apart.
NoDataRace ==
  \A t, u \in Threads :
    t # u /\ pc[t] = "e_write" /\ pc[u] \in {"e_write", "d_read"}
      => Slot(pos[t]) # Slot(pos[u])

\* The queue is bounded and never runs backwards: consumers do not overtake
\* producers and at most Capacity positions are claimed and not consumed,
\* although head_ and tail_ are only ever compared through the slots'
\* sequence numbers (lines 53 and 84), never with each other.
BoundedOccupancy ==
  /\ tail <= head
  /\ head <= tail + Capacity

\* Thread t is the only one of S that has ever called its try_ function.
Sole(t, S) ==
  /\ t \in S
  /\ \A u \in S \ {t} : pc[u] \in {"idle", "s_tail"} /\ ret[u] = "none"

\* What size() means to a thread that alone produces (or alone consumes) and
\* asks for the size itself, as demo.cpp:179 and test_parser.cpp:89 do: the
\* two loads of lines 106-107 are not one, but the only producer gets the
\* exact number of items at its second load, and the only consumer never
\* gets more than there are.
SoleCallerSize ==
  \A t \in Observers : pc[t] = "s_tail" =>
    /\ Sole(t, Producers) => SizeResult(t) = head - tail
    /\ Sole(t, Consumers) => SizeResult(t) <= head - tail

\* The model's positions do not wrap and the code's do: the differences of
\* lines 53 and 84 and the compare-exchanges of lines 57 and 88, computed in
\* words of the machine, still take the branch they take on unbounded numbers
\* as long as fewer than Word / 2 - Capacity claims passed the thread since
\* it loaded its position.  (A slot may show a number below the position, so
\* it takes the signed reading, and that is never more than a lap below.)
WordsAgree ==
  \A t \in Threads :
    /\ pc[t] = "e_seq" /\ 2 * (head - pos[t] + Capacity) < Word
         => Signed(EnqDiff(t) % Word) = EnqDiff(t)
    /\ pc[t] = "d_seq" /\ 2 * (tail - pos[t] + Capacity) < Word
         => Signed(DeqDiff(t) % Word) = DeqDiff(t)
    /\ pc[t] = "e_cas" /\ head - pos[t] < Word
         => (head % Word = pos[t] % Word <=> head = pos[t])
    /\ pc[t] = "d_cas" /\ tail - pos[t] < Word
         => (tail % Word = pos[t] % Word <=> tail = pos[t])

\* A producer between its claim and its store owns a position of the queue
\* that no other producer has, in a slot that still shows that position.
WriterInv ==
  /\ \A t \in Threads : Writing(t) =>
       /\ tail <= pos[t]
       /\ pos[t] < head
       /\ sequences[Slot(pos[t])] = pos[t]
       /\ item[t] \in Values
       /\ pc[t] = "e_pub" => buffer[Slot(pos[t])] = item[t]
  /\ \A t, u \in Threads :
       Writing(t) /\ Writing(u) /\ pos[t] = pos[u] => t = u

\* A consumer between its claim and its store owns a consumed position whose
\* slot no producer has claimed for the next lap yet.
ReaderInv ==
  /\ \A t \in Threads : Reading(t) =>
       /\ pos[t] < tail
       /\ head <= pos[t] + Capacity
       /\ sequences[Slot(pos[t])] = Published(pos[t])
       /\ pc[t] = "d_read" => buffer[Slot(pos[t])] \in Values
  /\ \A t, u \in Threads :
       Reading(t) /\ Reading(u) /\ pos[t] = pos[u] => t = u

\* Every claimed and not consumed position is published with an item in its
\* slot, or a producer is still writing it.
QueuedInv ==
  \A p \in tail .. head - 1 :
    \/ sequences[Slot(p)] = Published(p) /\ buffer[Slot(p)] \in Values
    \/ \E t \in Threads : Writing(t) /\ pos[t] = p

\* Every position that may be claimed next finds its slot released, or a
\* consumer of the previous lap is still reading it.
FreeInv ==
  \A p \in head .. tail + Capacity - 1 :
    \/ sequences[Slot(p)] = p
    \/ \E t \in Threads : Reading(t) /\ Released(pos[t]) = p

\* A position in a local was the value of head_ (tail_) once, and a slot that
\* passed the test on diff has not gone back since.
LoadedInv ==
  \A t \in Threads :
    /\ pc[t] \in {"e_seq", "e_cas"} => pos[t] <= head /\ item[t] \in Values
    /\ pc[t] = "e_cas" => sequences[Slot(pos[t])] >= pos[t]
    /\ pc[t] = "e_load" => item[t] \in Values
    /\ pc[t] \in {"d_seq", "d_cas"} => pos[t] <= tail
    /\ pc[t] = "d_cas" => sequences[Slot(pos[t])] >= Published(pos[t])

\* Slots never fall behind the positions that were claimed.
LapInv ==
  /\ \A p \in 0 .. head - 1 : sequences[Slot(p)] >= p
  /\ \A p \in 0 .. tail - 1 : sequences[Slot(p)] >= Published(p)

\* The protocol of the sequence numbers: the inductive invariant behind
\* NoDataRace and BoundedOccupancy.  It ties every sequence number to the
\* claims on its slot, in every interleaving of lines 47-103.
SlotProtocol ==
  /\ BoundedOccupancy
  /\ WriterInv
  /\ ReaderInv
  /\ QueuedInv
  /\ FreeInv
  /\ LoadedInv
  /\ LapInv

-----------------------------------------------------------------------------
(***************************************************************************)
(* Progress.                                                               *)
(***************************************************************************)

InCall(t) ==
  /\ pc[t] # "idle"
  /\ \/ t \in Producers /\ TryEnqueue(t)
     \/ t \in Consumers /\ TryDequeue(t)
     \/ t \in Observers /\ Size(t)

\* The scheduler keeps running thread t, and a compare-exchange does not fail
\* spuriously for ever.
FairThread(t) ==
  /\ WF_vars(InCall(t))
  /\ SF_vars(t \in Producers /\ EnqClaim(t))
  /\ SF_vars(t \in Consumers /\ DeqClaim(t))

=============================================================================
