--------------------------- MODULE MPMCQueueProofs --------------------------
(***************************************************************************)
(* Proofs about the queue, for any set of threads, any number of slots and *)
(* any number of operations.                                               *)
(***************************************************************************)
EXTENDS MPMCQueue, TLAPS

-----------------------------------------------------------------------------
(* Slots: the arithmetic of pos & (Capacity - 1).  After these lemmas the   *)
(* definition of Slot is not needed any more.                               *)

\* A position's slot is a slot of the buffer (lines 51 and 82).
LEMMA SlotRange == \A p \in Nat : Slot(p) \in Slots
  BY CapacityNat DEF Slot, Slots

\* Positions less than Capacity apart never share a slot.
LEMMA SlotInjective ==
  ASSUME NEW a \in Nat, NEW b \in Nat,
         Slot(a) = Slot(b), a - b < Capacity, b - a < Capacity
  PROVE  a = b
  <1> DEFINE m == a \div Capacity
             n == b \div Capacity
  <1>1. /\ m \in Int /\ n \in Int
        /\ a = Capacity * m + Slot(a)
        /\ b = Capacity * n + Slot(b)
    BY CapacityNat DEF Slot
  <1>2. Slot(a) \in Int
    BY SlotRange DEF Slots
  <1> HIDE DEF m, n
  <1>3. a - b = Capacity * (m - n)
    BY <1>1, <1>2, CapacityNat
  <1>4. m - n < 1
    BY <1>1, <1>3, CapacityNat
  <1>5. n - m < 1
    BY <1>1, <1>3, CapacityNat
  <1> QED
    BY <1>1, <1>4, <1>5

\* Positions a whole number of laps apart share a slot.
LEMMA SlotLaps ==
  ASSUME NEW a \in Nat, NEW b \in Nat, NEW k \in Int, a = b + Capacity * k
  PROVE  Slot(a) = Slot(b)
  <1> DEFINE m == a \div Capacity
             n == b \div Capacity
             r == Slot(a)
             s == Slot(b)
  <1>1. /\ m \in Int /\ n \in Int
        /\ a = Capacity * m + r
        /\ b = Capacity * n + s
    BY CapacityNat DEF Slot
  <1>2. r \in Slots /\ s \in Slots
    BY SlotRange, CapacityNat
  <1> HIDE DEF m, n, r, s
  <1>3. r - s = Capacity * (n - m + k)
    BY <1>1, <1>2, CapacityNat DEF Slots
  <1>4. r - s < Capacity /\ s - r < Capacity
    BY <1>2, CapacityNat DEF Slots
  <1>5. n - m + k < 1 /\ n - m + k > -1
    BY <1>1, <1>2, <1>3, <1>4, CapacityNat DEF Slots
  <1>6. r = s
    BY <1>1, <1>2, <1>3, <1>5, CapacityNat DEF Slots
  <1> QED
    BY <1>6 DEF r, s

\* A position and its successor in the next lap share a slot.
LEMMA SlotNextLap == \A p \in Nat : Slot(p + Capacity) = Slot(p)
  <1> TAKE p \in Nat
  <1>1. p + Capacity \in Nat /\ p + Capacity = p + Capacity * 1
    BY CapacityNat
  <1> QED
    BY <1>1, SlotLaps

\* Capacity positions in a row have all the slots between them.
LEMMA SlotWindow ==
  ASSUME NEW a \in Nat, NEW p \in Nat
  PROVE  \E q \in a .. a + Capacity - 1 : Slot(q) = Slot(p)
  <1> DEFINE r == (p - a) % Capacity
             m == (p - a) \div Capacity
  <1>1. m \in Int /\ r \in 0 .. Capacity - 1 /\ p - a = Capacity * m + r
    BY CapacityNat
  <1> HIDE DEF r, m
  <1>2. p = (a + r) + Capacity * m /\ a + r \in Nat
    BY <1>1, CapacityNat
  <1>3. Slot(p) = Slot(a + r)
    BY <1>1, <1>2, SlotLaps
  <1> QED
    BY <1>1, <1>3, CapacityNat

\* The constructor's positions 0 .. Capacity - 1 are their own slots.
LEMMA SlotFirstLap == \A p \in Slots : Slot(p) = p
  BY CapacityNat DEF Slot, Slots

-----------------------------------------------------------------------------
(* Types *)

\* Every step of lines 47-109 keeps the variables in their types.
THEOREM TypeCorrect == Spec => []TypeOK
  <1>1. Init => TypeOK
    BY CapacityNat DEF Init, TypeOK, Slots, PCs
  <1>2. TypeOK /\ [Next]_vars => TypeOK'
    <2> SUFFICES ASSUME TypeOK, [Next]_vars PROVE TypeOK'
      OBVIOUS
    <2> USE CapacityNat, BoundsNat, SlotRange
        DEF TypeOK, Goto, Return, PCs, Threads, Published, Released
    <2>1. ASSUME NEW t \in Producers, TryEnqueue(t) PROVE TypeOK'
      <3>1. ASSUME NEW v \in Values, EnqCall(t, v) PROVE TypeOK'
        BY <3>1 DEF EnqCall
      <3>2. CASE EnqLoadSeq(t)
        BY <3>2 DEF EnqLoadSeq
      <3>3. CASE EnqReload(t)
        BY <3>3 DEF EnqReload
      <3>4. CASE EnqClaim(t)
        BY <3>4 DEF EnqClaim
      <3>5. CASE EnqClaimFails(t)
        BY <3>5 DEF EnqClaimFails
      <3>6. CASE EnqWrite(t)
        BY <3>6 DEF EnqWrite
      <3>7. CASE EnqPublish(t)
        BY <3>7 DEF EnqPublish
      <3> QED
        BY <2>1, <3>1, <3>2, <3>3, <3>4, <3>5, <3>6, <3>7 DEF TryEnqueue
    <2>2. ASSUME NEW t \in Consumers, TryDequeue(t) PROVE TypeOK'
      <3>1. CASE DeqCall(t)
        BY <3>1 DEF DeqCall
      <3>2. CASE DeqLoadSeq(t)
        BY <3>2 DEF DeqLoadSeq
      <3>3. CASE DeqReload(t)
        BY <3>3 DEF DeqReload
      <3>4. CASE DeqClaim(t)
        BY <3>4 DEF DeqClaim
      <3>5. CASE DeqClaimFails(t)
        BY <3>5 DEF DeqClaimFails
      <3>6. CASE DeqRead(t)
        BY <3>6 DEF DeqRead
      <3>7. CASE DeqRelease(t)
        BY <3>7 DEF DeqRelease
      <3> QED
        BY <2>2, <3>1, <3>2, <3>3, <3>4, <3>5, <3>6, <3>7 DEF TryDequeue
    <2>3. ASSUME NEW t \in Observers, Size(t) PROVE TypeOK'
      <3>1. CASE SizeLoadHead(t)
        BY <3>1 DEF SizeLoadHead
      <3>2. CASE SizeLoadTail(t)
        BY <3>2 DEF SizeLoadTail
      <3> QED
        BY <2>3, <3>1, <3>2 DEF Size
    <2>4. CASE UNCHANGED vars
      BY <2>4 DEF vars
    <2> QED
      BY <2>1, <2>2, <2>3, <2>4 DEF Next
  <1> QED
    BY <1>1, <1>2, PTL DEF Spec

-----------------------------------------------------------------------------
(* The protocol of the sequence numbers.  A queue of one slot does not keep  *)
(* it: Published(p) = p + 1 is then also the position that claims the slot   *)
(* next.                                                                     *)

\* The constructor's state satisfies the protocol.
LEMMA ProtocolInit == Init => SlotProtocol
  <1> SUFFICES ASSUME Init PROVE SlotProtocol
    OBVIOUS
  <1>1. BoundedOccupancy
    BY CapacityNat DEF Init, BoundedOccupancy
  <1>2. FreeInv
    BY CapacityNat, SlotFirstLap DEF Init, FreeInv, Slots
  <1>3. WriterInv /\ ReaderInv /\ LoadedInv
    BY DEF Init, WriterInv, ReaderInv, LoadedInv, Writing, Reading
  <1>4. QueuedInv /\ LapInv
    BY DEF Init, QueuedInv, LapInv
  <1> QED
    BY <1>1, <1>2, <1>3, <1>4 DEF SlotProtocol

\* The positions of the last Capacity claims have slots of their own; all
\* positions that are queued, being written or being read are among them.
LEMMA WindowInjective ==
  ASSUME TypeOK, NEW a \in Nat, NEW b \in Nat,
         a < head, head <= a + Capacity, b < head, head <= b + Capacity,
         Slot(a) = Slot(b)
  PROVE  a = b
  BY CapacityNat, SlotInjective DEF TypeOK

\* A step that only changes the locals of one thread, which owns no slot
\* before or after it, keeps the protocol if it keeps LoadedInv.
LEMMA ProtocolLocalStep ==
  ASSUME TypeOK, SlotProtocol, NEW t \in Threads,
         ~ Writing(t), ~ Reading(t), ~ Writing(t)', ~ Reading(t)',
         UNCHANGED <<head, tail, sequences, buffer>>,
         \A u \in Threads : u # t =>
            pc'[u] = pc[u] /\ pos'[u] = pos[u] /\ item'[u] = item[u],
         LoadedInv'
  PROVE  SlotProtocol'
  <1> USE DEF SlotProtocol, Writing, Reading
  <1>1. BoundedOccupancy' /\ LapInv'
    BY DEF BoundedOccupancy, LapInv
  <1>2. WriterInv'
    BY DEF WriterInv
  <1>3. ReaderInv'
    BY DEF ReaderInv
  <1>4. QueuedInv'
    BY DEF QueuedInv
  <1>5. FreeInv'
    BY DEF FreeInv
  <1> QED
    BY <1>1, <1>2, <1>3, <1>4, <1>5

\* Lines 57-58: a successful claim of head_ finds the slot released.
LEMMA ProtocolEnqClaim ==
  ASSUME Capacity >= 2, TypeOK, SlotProtocol, NEW t \in Threads, EnqClaim(t)
  PROVE  SlotProtocol'
  <1> USE CapacityNat DEF SlotProtocol
  <1>1. /\ head \in Nat /\ tail \in Nat
        /\ pos[t] = head
        /\ head' = head + 1
        /\ UNCHANGED <<tail, sequences, buffer, pos, item>>
        /\ pc[t] = "e_cas" /\ pc'[t] = "e_write"
        /\ \A u \in Threads : u # t => pc'[u] = pc[u]
        /\ Slot(head) \in Slots
        /\ pos \in [Threads -> Nat]
        /\ sequences \in [Slots -> Nat]
    BY SlotRange DEF EnqClaim, TypeOK, Goto
  <1>2. sequences[Slot(head)] >= head /\ item[t] \in Values
    BY <1>1 DEF LoadedInv
  <1>3. \A p \in tail .. head - 1 : Slot(p) # Slot(head)
    <2> SUFFICES ASSUME NEW p \in tail .. head - 1, Slot(p) = Slot(head)
                 PROVE FALSE
      OBVIOUS
    <2>1. sequences[Slot(p)] \in {p, p + 1}
      BY DEF QueuedInv, WriterInv, Published
    <2>2. p + 1 = head
      BY <1>1, <1>2, <2>1
    <2> QED
      BY <1>1, <2>2, SlotInjective
  <1>4. head < tail + Capacity
    BY <1>1, <1>3, SlotNextLap DEF BoundedOccupancy
  <1>5. \A u \in Threads : Reading(u) => head < pos[u] + Capacity
    <2> SUFFICES ASSUME NEW u \in Threads, Reading(u), head = pos[u] + Capacity
                 PROVE FALSE
      BY <1>1 DEF ReaderInv
    <2>1. sequences[Slot(pos[u])] = pos[u] + 1
      BY DEF ReaderInv, Published
    <2>2. Slot(pos[u]) = Slot(head)
      BY <1>1, SlotNextLap
    <2> QED
      BY <1>1, <1>2, <2>1, <2>2
  <1>6. sequences[Slot(head)] = head
    BY <1>1, <1>4, <1>5 DEF FreeInv, Released
  <1>7. \A u \in Threads : /\ Reading(u)' <=> Reading(u)
                           /\ Writing(u)' <=> Writing(u) \/ u = t
    BY <1>1 DEF Reading, Writing
  <1>8. BoundedOccupancy'
    BY <1>1, <1>4 DEF BoundedOccupancy
  <1>9. WriterInv'
    BY <1>1, <1>2, <1>6, <1>7 DEF WriterInv, BoundedOccupancy, Writing
  <1>10. ReaderInv'
    BY <1>1, <1>5, <1>7 DEF ReaderInv, Reading
  <1>11. QueuedInv'
    BY <1>1, <1>7 DEF QueuedInv
  <1>12. FreeInv'
    BY <1>1, <1>7 DEF FreeInv
  <1>13. LoadedInv'
    BY <1>1 DEF LoadedInv
  <1>14. LapInv'
    BY <1>1, <1>2 DEF LapInv
  <1> QED
    BY <1>8, <1>9, <1>10, <1>11, <1>12, <1>13, <1>14

\* Line 60: the copy into the slot touches no other position's item.
LEMMA ProtocolEnqWrite ==
  ASSUME TypeOK, SlotProtocol, NEW t \in Threads, EnqWrite(t)
  PROVE  SlotProtocol'
  <1> USE CapacityNat DEF SlotProtocol
  <1>1. /\ head \in Nat /\ tail \in Nat
        /\ UNCHANGED <<head, tail, sequences, pos, item>>
        /\ buffer' = [buffer EXCEPT ![Slot(pos[t])] = item[t]]
        /\ pc[t] = "e_write" /\ pc'[t] = "e_pub"
        /\ \A u \in Threads : u # t => pc'[u] = pc[u]
        /\ pos \in [Threads -> Nat]
        /\ \A u \in Threads : Slot(pos[u]) \in Slots
        /\ buffer \in [Slots -> Values \cup {Garbage}]
    BY SlotRange DEF EnqWrite, TypeOK, Goto
  <1>2. /\ tail <= pos[t] /\ pos[t] < head /\ head <= pos[t] + Capacity
        /\ item[t] \in Values /\ sequences[Slot(pos[t])] = pos[t]
    BY <1>1 DEF WriterInv, Writing, BoundedOccupancy
  <1>3. \A u \in Threads : /\ Reading(u)' <=> Reading(u)
                           /\ Writing(u)' <=> Writing(u)
    BY <1>1 DEF Reading, Writing
  <1>4. \A p \in Nat : p < head /\ head <= p + Capacity /\ p # pos[t]
                         => buffer'[Slot(p)] = buffer[Slot(p)]
    BY <1>1, <1>2, SlotRange, WindowInjective
  <1>5. WriterInv'
    <2>1. ASSUME NEW u \in Threads, u # t, pc'[u] = "e_pub"
          PROVE  buffer'[Slot(pos[u])] = item[u]
      <3>1. Writing(u) /\ Writing(t) /\ pc[u] = "e_pub"
        BY <1>1, <2>1 DEF Writing
      <3>2. pos[u] # pos[t] /\ pos[u] < head /\ head <= pos[u] + Capacity
        BY <1>1, <2>1, <3>1 DEF WriterInv, BoundedOccupancy
      <3> QED
        BY <1>1, <1>4, <3>1, <3>2 DEF WriterInv
    <2>2. buffer'[Slot(pos[t])] = item[t]
      BY <1>1
    <2> QED
      BY <1>1, <1>3, <2>1, <2>2 DEF WriterInv
  <1>6. ReaderInv'
    <2>1. ASSUME NEW u \in Threads, pc'[u] = "d_read"
          PROVE  buffer'[Slot(pos[u])] \in Values
      <3>1. Reading(u) /\ pc[u] = "d_read"
        BY <1>1, <2>1 DEF Reading
      <3>2. pos[u] < tail /\ head <= pos[u] + Capacity
        BY <3>1 DEF ReaderInv
      <3> QED
        BY <1>1, <1>2, <1>4, <3>1, <3>2 DEF ReaderInv
    <2> QED
      BY <1>1, <1>3, <2>1 DEF ReaderInv
  <1>7. QueuedInv'
    <2> SUFFICES ASSUME NEW p \in tail .. head - 1,
                        sequences[Slot(p)] = Published(p),
                        buffer[Slot(p)] \in Values
                 PROVE  buffer'[Slot(p)] \in Values
      BY <1>1, <1>3 DEF QueuedInv
    <2>1. p # pos[t]
      BY <1>1, <1>2 DEF Published
    <2> QED
      BY <1>1, <1>4, <2>1 DEF BoundedOccupancy
  <1>8. FreeInv' /\ BoundedOccupancy' /\ LapInv'
    BY <1>1, <1>3 DEF FreeInv, BoundedOccupancy, LapInv
  <1>9. LoadedInv'
    BY <1>1 DEF LoadedInv
  <1> QED
    BY <1>5, <1>6, <1>7, <1>8, <1>9

\* Line 61: the store publishes the position and disturbs no other slot.
LEMMA ProtocolEnqPublish ==
  ASSUME TypeOK, SlotProtocol, NEW t \in Threads, EnqPublish(t)
  PROVE  SlotProtocol'
  <1> USE CapacityNat DEF SlotProtocol
  <1>1. /\ head \in Nat /\ tail \in Nat
        /\ UNCHANGED <<head, tail, buffer, pos, item>>
        /\ sequences' = [sequences EXCEPT ![Slot(pos[t])] = pos[t] + 1]
        /\ pc[t] = "e_pub" /\ pc'[t] = "idle"
        /\ \A u \in Threads : u # t => pc'[u] = pc[u]
        /\ pos \in [Threads -> Nat]
        /\ sequences \in [Slots -> Nat]
        /\ \A p \in Nat : Slot(p) \in Slots
    BY SlotRange DEF EnqPublish, TypeOK, Goto, Return, Published
  <1>2. /\ tail <= pos[t] /\ pos[t] < head /\ head <= pos[t] + Capacity
        /\ sequences[Slot(pos[t])] = pos[t]
        /\ buffer[Slot(pos[t])] = item[t] /\ item[t] \in Values
    BY <1>1 DEF WriterInv, Writing, BoundedOccupancy
  <1>3. \A u \in Threads : /\ Reading(u)' <=> Reading(u)
                           /\ Writing(u)' <=> Writing(u) /\ u # t
    BY <1>1 DEF Reading, Writing
  <1>4. \A p \in Nat : p < head /\ head <= p + Capacity /\ p # pos[t]
                         => sequences'[Slot(p)] = sequences[Slot(p)]
    BY <1>1, <1>2, WindowInjective
  <1>5. \A p \in Nat : sequences'[Slot(p)] >= sequences[Slot(p)]
    BY <1>1, <1>2
  <1>6. WriterInv'
    <2>1. ASSUME NEW u \in Threads, Writing(u), u # t
          PROVE  sequences'[Slot(pos[u])] = pos[u]
      <3>1. pos[u] # pos[t] /\ pos[u] < head /\ head <= pos[u] + Capacity
        BY <1>1, <2>1 DEF WriterInv, Writing, BoundedOccupancy
      <3> QED
        BY <1>1, <1>4, <2>1, <3>1 DEF WriterInv
    <2> QED
      BY <1>1, <1>3, <2>1 DEF WriterInv
  <1>7. ReaderInv'
    <2>1. ASSUME NEW u \in Threads, Reading(u)
          PROVE  sequences'[Slot(pos[u])] = Published(pos[u])
      <3>1. pos[u] < tail /\ head <= pos[u] + Capacity
        BY <2>1 DEF ReaderInv
      <3> QED
        BY <1>1, <1>2, <1>4, <2>1, <3>1 DEF ReaderInv
    <2> QED
      BY <1>1, <1>3, <2>1 DEF ReaderInv
  <1>8. QueuedInv'
    <2> SUFFICES ASSUME NEW p \in tail .. head - 1
                 PROVE  \/ /\ sequences'[Slot(p)] = Published(p)
                           /\ buffer[Slot(p)] \in Values
                        \/ \E u \in Threads : Writing(u)' /\ pos[u] = p
      BY <1>1 DEF QueuedInv
    <2>1. CASE p = pos[t]
      BY <1>1, <1>2, <2>1 DEF Published
    <2>2. CASE p # pos[t]
      BY <1>1, <1>3, <1>4, <2>2 DEF QueuedInv, BoundedOccupancy
    <2> QED
      BY <2>1, <2>2
  <1>9. FreeInv'
    <2>1. ASSUME NEW p \in head .. tail + Capacity - 1
          PROVE  sequences'[Slot(p)] = sequences[Slot(p)]
      BY <1>1, <1>2, SlotInjective
    <2> QED
      BY <1>1, <1>3, <2>1 DEF FreeInv
  <1>10. LoadedInv'
    BY <1>1, <1>5 DEF LoadedInv, Published
  <1>11. LapInv' /\ BoundedOccupancy'
    BY <1>1, <1>5 DEF LapInv, BoundedOccupancy, Published
  <1> QED
    BY <1>6, <1>7, <1>8, <1>9, <1>10, <1>11

\* Lines 88-89: a successful claim of tail_ finds a published item.
LEMMA ProtocolDeqClaim ==
  ASSUME TypeOK, SlotProtocol, NEW t \in Threads, DeqClaim(t)
  PROVE  SlotProtocol'
  <1> USE CapacityNat DEF SlotProtocol
  <1>1. /\ head \in Nat /\ tail \in Nat
        /\ pos[t] = tail
        /\ tail' = tail + 1
        /\ UNCHANGED <<head, sequences, buffer, pos, item>>
        /\ pc[t] = "d_cas" /\ pc'[t] = "d_read"
        /\ \A u \in Threads : u # t => pc'[u] = pc[u]
        /\ pos \in [Threads -> Nat]
        /\ sequences \in [Slots -> Nat]
        /\ \A p \in Nat : Slot(p) \in Slots
    BY SlotRange DEF DeqClaim, TypeOK, Goto
  <1>2. sequences[Slot(tail)] >= tail + 1
    BY <1>1 DEF LoadedInv, Published
  <1>3. tail < head
    <2> SUFFICES ASSUME tail = head PROVE FALSE
      BY <1>1 DEF BoundedOccupancy
    <2>1. PICK u \in Threads : Reading(u) /\ pos[u] + Capacity = tail
      BY <1>1, <1>2 DEF FreeInv, Released
    <2>2. Slot(pos[u]) = Slot(tail) /\ sequences[Slot(pos[u])] = pos[u] + 1
      BY <1>1, <2>1, SlotNextLap DEF ReaderInv, Published
    <2> QED
      BY <1>1, <1>2, <2>1, <2>2
  <1>4. \A u \in Threads : Writing(u) => tail < pos[u]
    BY <1>1, <1>2 DEF WriterInv
  <1>5. sequences[Slot(tail)] = tail + 1 /\ buffer[Slot(tail)] \in Values
    BY <1>1, <1>3, <1>4 DEF QueuedInv, Published
  <1>6. \A u \in Threads : /\ Reading(u)' <=> Reading(u) \/ u = t
                           /\ Writing(u)' <=> Writing(u)
    BY <1>1 DEF Reading, Writing
  <1>7. BoundedOccupancy'
    BY <1>1, <1>3 DEF BoundedOccupancy
  <1>8. WriterInv'
    BY <1>1, <1>4, <1>6 DEF WriterInv, Writing
  <1>9. ReaderInv'
    BY <1>1, <1>5, <1>6 DEF ReaderInv, Reading, BoundedOccupancy, Published
  <1>10. QueuedInv'
    BY <1>1, <1>6 DEF QueuedInv
  <1>11. FreeInv'
    BY <1>1, <1>6 DEF FreeInv, Released
  <1>12. LoadedInv'
    BY <1>1 DEF LoadedInv
  <1>13. LapInv'
    BY <1>1, <1>2 DEF LapInv, Published
  <1> QED
    BY <1>7, <1>8, <1>9, <1>10, <1>11, <1>12, <1>13

\* Line 91: the copy out of the slot only changes the consumer's item.
LEMMA ProtocolDeqRead ==
  ASSUME TypeOK, SlotProtocol, NEW t \in Threads, DeqRead(t)
  PROVE  SlotProtocol'
  <1> USE DEF SlotProtocol
  <1>1. /\ UNCHANGED <<head, tail, sequences, buffer, pos>>
        /\ pc[t] = "d_read" /\ pc'[t] = "d_rel"
        /\ \A u \in Threads : u # t => pc'[u] = pc[u] /\ item'[u] = item[u]
    BY DEF DeqRead, TypeOK, Goto
  <1>2. \A u \in Threads : /\ Reading(u)' <=> Reading(u)
                           /\ Writing(u)' <=> Writing(u) /\ u # t
                           /\ Writing(u) => u # t
    BY <1>1 DEF Reading, Writing
  <1>3. WriterInv'
    BY <1>1, <1>2 DEF WriterInv
  <1>4. ReaderInv'
    BY <1>1, <1>2 DEF ReaderInv
  <1>5. QueuedInv' /\ FreeInv'
    BY <1>1, <1>2 DEF QueuedInv, FreeInv
  <1>6. LoadedInv'
    BY <1>1 DEF LoadedInv
  <1>7. LapInv' /\ BoundedOccupancy'
    BY <1>1 DEF LapInv, BoundedOccupancy
  <1> QED
    BY <1>3, <1>4, <1>5, <1>6, <1>7

\* Line 92: the store hands the slot to the next lap and disturbs no other.
LEMMA ProtocolDeqRelease ==
  ASSUME TypeOK, SlotProtocol, NEW t \in Threads, DeqRelease(t)
  PROVE  SlotProtocol'
  <1> USE CapacityNat DEF SlotProtocol
  <1>1. /\ head \in Nat /\ tail \in Nat
        /\ UNCHANGED <<head, tail, buffer, pos, item>>
        /\ sequences' = [sequences EXCEPT ![Slot(pos[t])] = pos[t] + Capacity]
        /\ pc[t] = "d_rel" /\ pc'[t] = "idle"
        /\ \A u \in Threads : u # t => pc'[u] = pc[u]
        /\ pos \in [Threads -> Nat]
        /\ sequences \in [Slots -> Nat]
        /\ \A p \in Nat : Slot(p) \in Slots
    BY SlotRange DEF DeqRelease, TypeOK, Goto, Return, Released
  <1>2. /\ pos[t] < tail /\ head <= pos[t] + Capacity /\ tail <= head
        /\ sequences[Slot(pos[t])] = pos[t] + 1
    BY <1>1 DEF ReaderInv, Reading, BoundedOccupancy, Published
  <1>3. \A u \in Threads : /\ Reading(u)' <=> Reading(u) /\ u # t
                           /\ Writing(u)' <=> Writing(u)
    BY <1>1 DEF Reading, Writing
  <1>4. \A p \in Nat : p < head /\ head <= p + Capacity /\ p # pos[t]
                         => sequences'[Slot(p)] = sequences[Slot(p)]
    BY <1>1, <1>2, WindowInjective
  <1>5. \A p \in Nat : sequences'[Slot(p)] >= sequences[Slot(p)]
    BY <1>1, <1>2
  <1>6. WriterInv'
    <2>1. ASSUME NEW u \in Threads, Writing(u)
          PROVE  sequences'[Slot(pos[u])] = pos[u]
      <3>1. tail <= pos[u] /\ pos[u] < head /\ head <= pos[u] + Capacity
        BY <1>1, <2>1 DEF WriterInv, BoundedOccupancy
      <3> QED
        BY <1>1, <1>2, <1>4, <2>1, <3>1 DEF WriterInv
    <2> QED
      BY <1>1, <1>3, <2>1 DEF WriterInv
  <1>7. ReaderInv'
    <2>1. ASSUME NEW u \in Threads, Reading(u), u # t
          PROVE  sequences'[Slot(pos[u])] = Published(pos[u])
      <3>1. /\ pos[u] # pos[t] /\ pos[u] < head
            /\ head <= pos[u] + Capacity
        BY <1>1, <1>2, <2>1 DEF ReaderInv, Reading
      <3> QED
        BY <1>1, <1>4, <2>1, <3>1 DEF ReaderInv
    <2> QED
      BY <1>1, <1>3, <2>1 DEF ReaderInv
  <1>8. QueuedInv'
    <2>1. ASSUME NEW p \in tail .. head - 1
          PROVE  sequences'[Slot(p)] = sequences[Slot(p)]
      BY <1>1, <1>2, <1>4 DEF BoundedOccupancy
    <2> QED
      BY <1>1, <1>3, <2>1 DEF QueuedInv
  <1>9. FreeInv'
    <2> SUFFICES ASSUME NEW p \in head .. tail + Capacity - 1
                 PROVE  \/ sequences'[Slot(p)] = p
                        \/ \E u \in Threads : Reading(u)' /\ Released(pos[u]) = p
      BY <1>1 DEF FreeInv
    <2>1. Slot(pos[t] + Capacity) = Slot(pos[t])
      BY <1>1, SlotNextLap
    <2>2. CASE p = pos[t] + Capacity
      BY <1>1, <2>1, <2>2
    <2>3. CASE p # pos[t] + Capacity
      <3>1. Slot(p) # Slot(pos[t])
        BY <1>1, <1>2, <2>1, <2>3, SlotInjective
      <3>2. sequences'[Slot(p)] = sequences[Slot(p)]
        BY <1>1, <3>1
      <3> QED
        BY <1>1, <1>3, <2>3, <3>2 DEF FreeInv, Released
    <2> QED
      BY <2>2, <2>3
  <1>10. LoadedInv'
    BY <1>1, <1>5 DEF LoadedInv, Published
  <1>11. LapInv' /\ BoundedOccupancy'
    BY <1>1, <1>5 DEF LapInv, BoundedOccupancy, Published
  <1> QED
    BY <1>6, <1>7, <1>8, <1>9, <1>10, <1>11

\* Every step of every thread keeps the protocol.
LEMMA ProtocolStep ==
  ASSUME Capacity >= 2, TypeOK, SlotProtocol, [Next]_vars
  PROVE  SlotProtocol'
  <1>1. ASSUME NEW t \in Producers, TryEnqueue(t) PROVE SlotProtocol'
    <2> t \in Threads
      BY DEF Threads
    <2>1. ASSUME \/ \E v \in Values : EnqCall(t, v)
                 \/ EnqLoadSeq(t) \/ EnqReload(t) \/ EnqClaimFails(t)
          PROVE  SlotProtocol'
      <3>1. LoadedInv'
        BY <2>1, CapacityNat, SlotRange
           DEF EnqCall, EnqLoadSeq, EnqReload, EnqClaimFails, Goto, Return,
               EnqDiff, TypeOK, SlotProtocol, LoadedInv
      <3> QED
        BY <2>1, <3>1, ProtocolLocalStep
           DEF EnqCall, EnqLoadSeq, EnqReload, EnqClaimFails, Goto, Return,
               Writing, Reading, TypeOK
    <2> QED
      BY <1>1, <2>1, ProtocolEnqClaim, ProtocolEnqWrite, ProtocolEnqPublish
         DEF TryEnqueue
  <1>2. ASSUME NEW t \in Consumers, TryDequeue(t) PROVE SlotProtocol'
    <2> t \in Threads
      BY DEF Threads
    <2>1. ASSUME \/ DeqCall(t)
                 \/ DeqLoadSeq(t) \/ DeqReload(t) \/ DeqClaimFails(t)
          PROVE  SlotProtocol'
      <3>1. LoadedInv'
        BY <2>1, CapacityNat, SlotRange
           DEF DeqCall, DeqLoadSeq, DeqReload, DeqClaimFails, Goto, Return,
               DeqDiff, Published, TypeOK, SlotProtocol, LoadedInv
      <3> QED
        BY <2>1, <3>1, ProtocolLocalStep
           DEF DeqCall, DeqLoadSeq, DeqReload, DeqClaimFails, Goto, Return,
               Writing, Reading, TypeOK
    <2> QED
      BY <1>2, <2>1, ProtocolDeqClaim, ProtocolDeqRead, ProtocolDeqRelease
         DEF TryDequeue
  <1>3. ASSUME NEW t \in Observers, Size(t) PROVE SlotProtocol'
    <2> t \in Threads
      BY DEF Threads
    <2>1. LoadedInv'
      BY <1>3 DEF Size, SizeLoadHead, SizeLoadTail, Goto, TypeOK,
                  SlotProtocol, LoadedInv
    <2> QED
      BY <1>3, <2>1, ProtocolLocalStep
         DEF Size, SizeLoadHead, SizeLoadTail, Goto, Writing, Reading, TypeOK
  <1>4. CASE UNCHANGED vars
    BY <1>4 DEF vars, SlotProtocol, BoundedOccupancy, WriterInv, ReaderInv,
                QueuedInv, FreeInv, LoadedInv, LapInv, Writing, Reading
  <1> QED
    BY <1>1, <1>2, <1>3, <1>4 DEF Next

-----------------------------------------------------------------------------
\* The protocol of the sequence numbers holds in every interleaving, for
\* every number of threads and operations, when there are at least two slots.
THEOREM ProtocolInvariant ==
  ASSUME Capacity >= 2
  PROVE  Spec => []SlotProtocol
  <1>1. TypeOK /\ SlotProtocol /\ [Next]_vars => SlotProtocol'
    BY ProtocolStep
  <1> QED
    BY <1>1, ProtocolInit, TypeCorrect, PTL DEF Spec

\* No two threads ever race on a slot of buffer_ (lines 60 and 91).
THEOREM DataRaceFreedom ==
  ASSUME Capacity >= 2
  PROVE  Spec => []NoDataRace
  <1>1. TypeOK /\ SlotProtocol => NoDataRace
    <2> SUFFICES ASSUME TypeOK, SlotProtocol,
                        NEW t \in Threads, NEW u \in Threads, t # u,
                        pc[t] = "e_write", pc[u] \in {"e_write", "d_read"},
                        Slot(pos[t]) = Slot(pos[u])
                 PROVE  FALSE
      BY DEF NoDataRace
    <2>1. /\ tail <= pos[t] /\ pos[t] < head /\ head <= pos[t] + Capacity
          /\ pos[t] \in Nat /\ pos[u] \in Nat
      BY CapacityNat
         DEF SlotProtocol, WriterInv, BoundedOccupancy, Writing, TypeOK
    <2>2. CASE pc[u] = "e_write"
      <3>1. pos[u] < head /\ head <= pos[u] + Capacity
        BY <2>2, CapacityNat
           DEF SlotProtocol, WriterInv, BoundedOccupancy, Writing, TypeOK
      <3> QED
        BY <2>1, <2>2, <3>1, WindowInjective
           DEF SlotProtocol, WriterInv, Writing
    <2>3. CASE pc[u] = "d_read"
      <3>1. pos[u] < tail /\ head <= pos[u] + Capacity /\ tail <= head
        BY <2>3 DEF SlotProtocol, ReaderInv, BoundedOccupancy, Reading
      <3> QED
        BY <2>1, <3>1, CapacityNat, WindowInjective DEF TypeOK
    <2> QED
      BY <2>2, <2>3
  <1> QED
    BY <1>1, ProtocolInvariant, TypeCorrect, PTL

\* The queue never holds more than Capacity items and its consumers never
\* overtake its producers.
THEOREM OccupancyBound ==
  ASSUME Capacity >= 2
  PROVE  Spec => []BoundedOccupancy
  <1>1. SlotProtocol => BoundedOccupancy
    BY DEF SlotProtocol
  <1> QED
    BY <1>1, ProtocolInvariant, PTL

-----------------------------------------------------------------------------
(* Machine words.  After these lemmas Signed is not needed any more.        *)

\* A difference of less than half the words either way survives the trip
\* through size_t and intptr_t (lines 53 and 84).
LEMMA SignedDifference ==
  ASSUME NEW d \in Int, - Word <= 2 * d, 2 * d < Word
  PROVE  Signed(d % Word) = d
  <1> DEFINE m == d \div Word
             r == d % Word
  <1>1. m \in Int /\ r \in 0 .. Word - 1 /\ d = Word * m + r
    BY BoundsNat
  <1> SUFFICES Signed(r) = d
    OBVIOUS
  <1> HIDE DEF m, r
  <1>2. m = 0 \/ m = -1
    <2>1. m < 1
      BY <1>1, BoundsNat
    <2>2. m > -2
      BY <1>1, BoundsNat
    <2> QED
      BY <1>1, <2>1, <2>2
  <1>3. d = r \/ d = r - Word
    BY <1>1, <1>2, BoundsNat
  <1> QED
    BY <1>1, <1>3, BoundsNat DEF Signed

\* Two positions less than Word apart are equal words only if they are equal
\* (lines 57 and 88).
LEMMA SameWord ==
  ASSUME NEW a \in Nat, NEW b \in Nat, b <= a, a - b < Word,
         a % Word = b % Word
  PROVE  a = b
  <1> DEFINE m == a \div Word
             n == b \div Word
             r == a % Word
  <1>1. /\ m \in Int /\ n \in Int /\ r \in Int
        /\ a = Word * m + r
        /\ b = Word * n + r
    BY BoundsNat
  <1> HIDE DEF m, n, r
  <1>2. a - b = Word * (m - n)
    BY <1>1, BoundsNat
  <1>3. m - n < 1 /\ m - n > -1
    BY <1>1, <1>2, BoundsNat
  <1> QED
    BY <1>1, <1>3

\* Every slot shows a number at most a lap below head_ and at most a lap
\* above tail_.
LEMMA SequenceRange ==
  ASSUME TypeOK, SlotProtocol, NEW p \in Nat
  PROVE  /\ head - Capacity <= sequences[Slot(p)]
         /\ sequences[Slot(p)] <= tail + Capacity
  <1> USE CapacityNat DEF SlotProtocol
  <1>1. head \in Nat /\ tail \in Nat /\ tail <= head /\ head <= tail + Capacity
    BY DEF TypeOK, BoundedOccupancy
  <1>2. PICK q \in tail .. tail + Capacity - 1 : Slot(q) = Slot(p)
    BY <1>1, SlotWindow
  <1>3. CASE q < head
    <2>1. sequences[Slot(q)] \in {q, q + 1}
      BY <1>1, <1>3 DEF QueuedInv, WriterInv, Published
    <2> QED
      BY <1>1, <1>2, <2>1
  <1>4. CASE q >= head
    <2>1. sequences[Slot(q)] \in {q, q - Capacity + 1}
      <3>1. CASE sequences[Slot(q)] = q
        BY <3>1
      <3>2. CASE sequences[Slot(q)] # q
        <4>1. PICK u \in Threads : Reading(u) /\ Released(pos[u]) = q
          BY <1>1, <1>4, <3>2 DEF FreeInv
        <4>2. /\ pos[u] \in Nat /\ pos[u] + Capacity = q
              /\ sequences[Slot(pos[u])] = pos[u] + 1
          BY <4>1 DEF ReaderInv, Published, Released, TypeOK
        <4> QED
          BY <4>2, SlotNextLap
      <3> QED
        BY <3>1, <3>2
    <2> QED
      BY <1>1, <1>2, <1>4, <2>1
  <1> QED
    BY <1>1, <1>3, <1>4

\* The branches of lines 53 and 84 and the compare-exchanges of lines 57 and
\* 88 are the same in machine words as on the model's positions, for every
\* word size, number of slots and history of claims.
THEOREM WordArithmetic ==
  ASSUME Capacity >= 2
  PROVE  Spec => []WordsAgree
  <1>1. TypeOK /\ SlotProtocol => WordsAgree
    <2> SUFFICES ASSUME TypeOK, SlotProtocol, NEW t \in Threads
                 PROVE
      /\ pc[t] = "e_seq" /\ 2 * (head - pos[t] + Capacity) < Word
           => Signed(EnqDiff(t) % Word) = EnqDiff(t)
      /\ pc[t] = "d_seq" /\ 2 * (tail - pos[t] + Capacity) < Word
           => Signed(DeqDiff(t) % Word) = DeqDiff(t)
      /\ pc[t] = "e_cas" /\ head - pos[t] < Word
           => (head % Word = pos[t] % Word <=> head = pos[t])
      /\ pc[t] = "d_cas" /\ tail - pos[t] < Word
           => (tail % Word = pos[t] % Word <=> tail = pos[t])
      BY DEF WordsAgree
    <2>1. /\ head \in Nat /\ tail \in Nat /\ pos[t] \in Nat
          /\ tail <= head /\ head <= tail + Capacity
          /\ sequences[Slot(pos[t])] \in Nat
          /\ pc[t] \in {"e_seq", "e_cas"} => pos[t] <= head
          /\ pc[t] \in {"d_seq", "d_cas"} => pos[t] <= tail
      BY SlotRange DEF TypeOK, SlotProtocol, LoadedInv, BoundedOccupancy
    <2>2. /\ head - Capacity <= sequences[Slot(pos[t])]
          /\ sequences[Slot(pos[t])] <= tail + Capacity
      BY <2>1, SequenceRange
    <2>3. ASSUME pc[t] = "e_seq", 2 * (head - pos[t] + Capacity) < Word
          PROVE  Signed(EnqDiff(t) % Word) = EnqDiff(t)
      <3>1. EnqDiff(t) \in Int /\ EnqDiff(t) <= head - pos[t] + Capacity
        BY <2>1, <2>2, CapacityNat DEF EnqDiff
      <3>2. EnqDiff(t) >= - Capacity
        BY <2>1, <2>2, <2>3, CapacityNat DEF EnqDiff, SlotProtocol, LapInv
      <3>3. 2 * Capacity < Word
        BY <2>1, <2>3, CapacityNat, BoundsNat
      <3> HIDE DEF EnqDiff
      <3> QED
        BY <2>1, <2>3, <3>1, <3>2, <3>3, SignedDifference, CapacityNat, BoundsNat
    <2>4. ASSUME pc[t] = "d_seq", 2 * (tail - pos[t] + Capacity) < Word
          PROVE  Signed(DeqDiff(t) % Word) = DeqDiff(t)
      <3>1. DeqDiff(t) \in Int /\ DeqDiff(t) <= tail - pos[t] + Capacity
        BY <2>1, <2>2, CapacityNat DEF DeqDiff, Published
      <3>2. DeqDiff(t) >= - Capacity
        <4>1. CASE pos[t] < tail
          BY <2>1, <4>1, CapacityNat
             DEF DeqDiff, Published, SlotProtocol, LapInv
        <4>2. CASE pos[t] = tail
          <5>1. CASE tail < head
            <6>1. sequences[Slot(tail)] \in {tail, tail + 1}
              BY <2>1, <5>1 DEF SlotProtocol, QueuedInv, WriterInv, Published
            <6> QED
              BY <2>1, <4>2, <6>1, CapacityNat DEF DeqDiff, Published
          <5>2. CASE tail = head
            <6>1. \/ sequences[Slot(tail)] = tail
                  \/ \E u \in Threads : Reading(u) /\ Released(pos[u]) = tail
              BY <2>1, <5>2, CapacityNat DEF SlotProtocol, FreeInv
            <6>2. ASSUME NEW u \in Threads, Reading(u), Released(pos[u]) = tail
                  PROVE  sequences[Slot(tail)] = tail - Capacity + 1
              <7>1. /\ pos[u] \in Nat /\ pos[u] + Capacity = tail
                    /\ sequences[Slot(pos[u])] = pos[u] + 1
                BY <6>2 DEF SlotProtocol, ReaderInv, Published, Released, TypeOK
              <7> QED
                BY <2>1, <7>1, SlotNextLap, CapacityNat
            <6> QED
              BY <2>1, <4>2, <6>1, <6>2, CapacityNat DEF DeqDiff, Published
          <5> QED
            BY <2>1, <5>1, <5>2
        <4> QED
          BY <2>1, <2>4, <4>1, <4>2
      <3>3. 2 * Capacity < Word
        BY <2>1, <2>4, CapacityNat, BoundsNat
      <3> HIDE DEF DeqDiff
      <3> QED
        BY <2>1, <2>4, <3>1, <3>2, <3>3, SignedDifference, CapacityNat, BoundsNat
    <2>5. ASSUME pc[t] = "e_cas", head - pos[t] < Word
          PROVE  head % Word = pos[t] % Word <=> head = pos[t]
      BY <2>1, <2>5, SameWord
    <2>6. ASSUME pc[t] = "d_cas", tail - pos[t] < Word
          PROVE  tail % Word = pos[t] % Word <=> tail = pos[t]
      BY <2>1, <2>6, SameWord
    <2> QED
      BY <2>3, <2>4, <2>5, <2>6
  <1> QED
    BY <1>1, ProtocolInvariant, TypeCorrect, PTL

-----------------------------------------------------------------------------
(* size() and empty(), asked by a thread that alone produces or consumes.   *)

\* The strengthening of SoleCallerSize: what the first load of size() (line
\* 106) says of head_ and tail_ until the second.
LoadedHeadInv ==
  \A t \in Observers : pc[t] = "s_tail" =>
    /\ pos[t] <= head
    /\ Sole(t, Producers) => pos[t] = head
    /\ Sole(t, Consumers) => tail <= pos[t]

\* A thread that has ever made a try_ call is never again taken for one that
\* has not.
LEMMA SoleStable ==
  ASSUME TypeOK, [Next]_vars, NEW S \in SUBSET Threads, NEW t, Sole(t, S)'
  PROVE  Sole(t, S)
  <1> SUFFICES ASSUME NEW u \in S \ {t}
               PROVE  pc[u] \in {"idle", "s_tail"} /\ ret[u] = "none"
    BY DEF Sole
  <1>1. pc'[u] \in {"idle", "s_tail"} /\ ret'[u] = "none" /\ u \in Threads
    BY DEF Sole
  <1> USE DEF TypeOK, Goto, Return, Threads
  <1>2. ASSUME NEW w \in Producers, TryEnqueue(w)
        PROVE  pc[u] \in {"idle", "s_tail"} /\ ret[u] = "none"
    BY <1>1, <1>2 DEF TryEnqueue, EnqCall, EnqLoadSeq, EnqReload, EnqClaim,
                      EnqClaimFails, EnqWrite, EnqPublish
  <1>3. ASSUME NEW w \in Consumers, TryDequeue(w)
        PROVE  pc[u] \in {"idle", "s_tail"} /\ ret[u] = "none"
    BY <1>1, <1>3 DEF TryDequeue, DeqCall, DeqLoadSeq, DeqReload, DeqClaim,
                      DeqClaimFails, DeqRead, DeqRelease
  <1>4. ASSUME NEW w \in Observers, Size(w)
        PROVE  pc[u] \in {"idle", "s_tail"} /\ ret[u] = "none"
    BY <1>1, <1>4 DEF Size, SizeLoadHead, SizeLoadTail
  <1>5. CASE UNCHANGED vars
    BY <1>1, <1>5 DEF vars
  <1> QED
    BY <1>2, <1>3, <1>4, <1>5 DEF Next

\* A thread between the loads of size() stays there, with its pos, while
\* another thread takes a step, and moves head_ (tail_) in no step.
LEMMA SizeWaits ==
  ASSUME TypeOK, [Next]_vars, NEW t \in Observers, pc'[t] = "s_tail"
  PROVE  \/ SizeLoadHead(t)
         \/ /\ pc[t] = "s_tail" /\ pos'[t] = pos[t]
            /\ \/ head' = head
               \/ /\ head' = head + 1
                  /\ \E u \in Producers \ {t} : pc[u] = "e_cas"
            /\ \/ tail' = tail
               \/ \E u \in Consumers \ {t} : pc[u] = "d_cas"
  <1> t \in Threads
    BY DEF Threads
  <1> USE DEF TypeOK, Goto, Return, Threads
  <1>2. ASSUME NEW w \in Producers, TryEnqueue(w)
        PROVE  /\ pc[t] = "s_tail" /\ pos'[t] = pos[t] /\ tail' = tail
               /\ \/ head' = head
                  \/ /\ head' = head + 1
                     /\ \E u \in Producers \ {t} : pc[u] = "e_cas"
    BY <1>2 DEF TryEnqueue, EnqCall, EnqLoadSeq, EnqReload, EnqClaim,
                EnqClaimFails, EnqWrite, EnqPublish
  <1>3. ASSUME NEW w \in Consumers, TryDequeue(w)
        PROVE  /\ pc[t] = "s_tail" /\ pos'[t] = pos[t] /\ head' = head
               /\ \/ tail' = tail
                  \/ \E u \in Consumers \ {t} : pc[u] = "d_cas"
    BY <1>3 DEF TryDequeue, DeqCall, DeqLoadSeq, DeqReload, DeqClaim,
                DeqClaimFails, DeqRead, DeqRelease
  <1>4. ASSUME NEW w \in Observers, Size(w)
        PROVE  \/ SizeLoadHead(t)
               \/ /\ pc[t] = "s_tail" /\ pos'[t] = pos[t]
                  /\ head' = head /\ tail' = tail
    BY <1>4 DEF Size, SizeLoadHead, SizeLoadTail
  <1>5. CASE UNCHANGED vars
    BY <1>5 DEF vars
  <1> QED
    BY <1>2, <1>3, <1>4, <1>5 DEF Next

\* The only producer that asks for the size (demo.cpp:179) gets the exact
\* number of items, and the only consumer (test_parser.cpp:89) never more
\* than there are, for any number of other threads, slots and operations.
THEOREM SizeForSoleCaller ==
  ASSUME Capacity >= 2, Capacity < Word
  PROVE  Spec => []SoleCallerSize
  <1>1. Init => LoadedHeadInv
    BY DEF Init, LoadedHeadInv, Threads
  <1>2. TypeOK /\ BoundedOccupancy /\ LoadedHeadInv /\ [Next]_vars
          => LoadedHeadInv'
    <2> SUFFICES ASSUME TypeOK, BoundedOccupancy, LoadedHeadInv, [Next]_vars,
                        NEW t \in Observers, pc'[t] = "s_tail"
                 PROVE  /\ pos'[t] <= head'
                        /\ Sole(t, Producers)' => pos'[t] = head'
                        /\ Sole(t, Consumers)' => tail' <= pos'[t]
      BY DEF LoadedHeadInv
    <2>1. /\ Sole(t, Producers)' => Sole(t, Producers)
          /\ Sole(t, Consumers)' => Sole(t, Consumers)
      BY SoleStable DEF Threads
    <2>2. t \in Threads /\ head \in Nat /\ tail \in Nat /\ pos \in [Threads -> Nat]
      BY DEF TypeOK, Threads
    <2>3. CASE SizeLoadHead(t)
      BY <2>2, <2>3 DEF SizeLoadHead, BoundedOccupancy
    <2>4. CASE ~ SizeLoadHead(t)
      <3>1. /\ pc[t] = "s_tail" /\ pos'[t] = pos[t]
            /\ \/ head' = head
               \/ /\ head' = head + 1
                  /\ \E u \in Producers \ {t} : pc[u] = "e_cas"
            /\ \/ tail' = tail
               \/ \E u \in Consumers \ {t} : pc[u] = "d_cas"
        BY <2>4, SizeWaits
      <3>2. /\ Sole(t, Producers) => head' = head
            /\ Sole(t, Consumers) => tail' = tail
        BY <3>1 DEF Sole
      <3> QED
        BY <2>1, <2>2, <3>1, <3>2 DEF LoadedHeadInv
    <2> QED
      BY <2>3, <2>4
  <1>3. TypeOK /\ BoundedOccupancy /\ LoadedHeadInv => SoleCallerSize
    <2> SUFFICES ASSUME TypeOK, BoundedOccupancy, LoadedHeadInv,
                        NEW t \in Observers, pc[t] = "s_tail"
                 PROVE  /\ Sole(t, Producers) => SizeResult(t) = head - tail
                        /\ Sole(t, Consumers) => SizeResult(t) <= head - tail
      BY DEF SoleCallerSize
    <2>1. /\ head \in Nat /\ tail \in Nat /\ pos[t] \in Nat
          /\ head - tail \in 0 .. Word - 1
          /\ pos[t] <= head
          /\ Sole(t, Producers) => pos[t] = head
          /\ Sole(t, Consumers) => tail <= pos[t]
      BY CapacityNat, BoundsNat
         DEF TypeOK, BoundedOccupancy, LoadedHeadInv, Threads
    <2>2. \A n \in 0 .. Word - 1 : n % Word = n
      BY BoundsNat
    <2> QED
      BY <2>1, <2>2, BoundsNat DEF SizeResult
  <1> QED
    BY <1>1, <1>2, <1>3, OccupancyBound, TypeCorrect, PTL DEF Spec

=============================================================================
