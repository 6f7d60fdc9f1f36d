-------------------------- MODULE MPMCQueueImplProofs --------------------------
(***************************************************************************)
(* The proof that the queue implements BoundedFIFO, for any set of         *)
(* threads, any number of operations and any number of slots from two on:  *)
(* every step is a step of BoundedFIFO or leaves its variables alone.      *)
(***************************************************************************)
EXTENDS MPMCQueueImpl, MPMCQueueProofs, SequenceTheorems

\* The refinement mapping of MPMCQueueImpl, by name.
MappedCall == [t \in Threads |-> CallOf(pc[t])]
MappedItem == [t \in Threads |-> ItemOf(t)]

Place == [val : Values, owner : Threads \cup {Nobody}]

\* What the slots say of the positions in use: the slot of a position that
\* is not being written holds its item, the others' items are with their
\* writers.
PlacesInv ==
  /\ \A t \in Threads : Writing(t) =>
       PlaceAt(pos[t]) = [val |-> item[t], owner |-> t]
  /\ \A p \in tail .. head - 1 :
       \/ \E t \in Threads : Writing(t) /\ pos[t] = p
       \/ /\ sequences[Slot(p)] = Published(p)
          /\ PlaceAt(p) = [val |-> buffer[Slot(p)], owner |-> Nobody]
  /\ \A p \in tail .. head - 1 : PlaceAt(p) \in Place
  /\ PlacesInUse \in Seq(Place)
  /\ Len(PlacesInUse) = head - tail
  /\ \A p \in tail .. head - 1 : PlacesInUse[p - tail + 1] = PlaceAt(p)

\* The protocol of the sequence numbers makes the mapping well defined: a
\* position in use has an item, and at most one writer.
LEMMA PlacesDefined == TypeOK /\ SlotProtocol => PlacesInv
  <1> SUFFICES ASSUME TypeOK, SlotProtocol PROVE PlacesInv
    OBVIOUS
  <1>1. /\ head \in Nat /\ tail \in Nat /\ tail <= head
        /\ sequences \in [Slots -> Nat]
        /\ pos \in [Threads -> Nat]
    BY DEF TypeOK, SlotProtocol, BoundedOccupancy
  <1>2. ASSUME NEW t \in Threads, Writing(t)
        PROVE  /\ PlaceAt(pos[t]) = [val |-> item[t], owner |-> t]
               /\ item[t] \in Values
    <2>1. /\ sequences[Slot(pos[t])] # Published(pos[t])
          /\ item[t] \in Values
      BY <1>1, <1>2 DEF SlotProtocol, WriterInv, Published
    <2>2. WriterOf(pos[t]) = t
      BY <1>2 DEF WriterOf, SlotProtocol, WriterInv
    <2> QED
      BY <2>1, <2>2 DEF PlaceAt
  <1>3. ASSUME NEW p \in tail .. head - 1
        PROVE  \/ \E t \in Threads : Writing(t) /\ pos[t] = p
               \/ /\ sequences[Slot(p)] = Published(p)
                  /\ PlaceAt(p) = [val |-> buffer[Slot(p)], owner |-> Nobody]
                  /\ buffer[Slot(p)] \in Values
    BY DEF SlotProtocol, QueuedInv, PlaceAt
  <1>4. \A p \in tail .. head - 1 : PlaceAt(p) \in Place
    <2> SUFFICES ASSUME NEW p \in tail .. head - 1 PROVE PlaceAt(p) \in Place
      OBVIOUS
    <2>1. CASE \E t \in Threads : Writing(t) /\ pos[t] = p
      <3>1. PICK t \in Threads : Writing(t) /\ pos[t] = p
        BY <2>1
      <3>2. PlaceAt(pos[t]) = [val |-> item[t], owner |-> t] /\ item[t] \in Values
        BY <1>2, <3>1
      <3> QED
        BY <3>1, <3>2 DEF Place
    <2>2. CASE ~ \E t \in Threads : Writing(t) /\ pos[t] = p
      BY <1>3, <2>2 DEF Place
    <2> QED
      BY <2>1, <2>2
  <1>5. \A i \in 1 .. head - tail : PlaceAt(tail + i - 1) \in Place
    BY <1>1, <1>4
  <1>6. PlacesInUse \in [1 .. head - tail -> Place]
    BY <1>5 DEF PlacesInUse
  <1>8. \A p \in tail .. head - 1 : PlacesInUse[p - tail + 1] = PlaceAt(p)
    <2> SUFFICES ASSUME NEW p \in tail .. head - 1
                 PROVE  PlacesInUse[p - tail + 1] = PlaceAt(p)
      OBVIOUS
    <2>1. p - tail + 1 \in 1 .. head - tail /\ tail + (p - tail + 1) - 1 = p
      BY <1>1
    <2> QED
      BY <2>1 DEF PlacesInUse
  <1>7. PlacesInUse \in Seq(Place) /\ Len(PlacesInUse) = head - tail
    <2>1. head - tail \in Nat
      BY <1>1
    <2>2. PlacesInUse \in Seq(Place)
      BY <1>6, <2>1, SeqDef
    <2> QED
      BY <1>6, <2>1, <2>2, LenProperties
  <1> QED
    BY <1>2, <1>3, <1>4, <1>7, <1>8 DEF PlacesInv

\* A step that keeps the place of every position in use keeps the sequence
\* of the places.
LEMMA SamePlaces ==
  ASSUME UNCHANGED <<head, tail>>,
         \A p \in tail .. head - 1 : PlaceAt(p)' = PlaceAt(p),
         head \in Nat, tail \in Nat
  PROVE  PlacesInUse' = PlacesInUse
  <1>1. \A i \in 1 .. head - tail : PlaceAt(tail + i - 1)' = PlaceAt(tail + i - 1)
    OBVIOUS
  <1> QED
    BY <1>1 DEF PlacesInUse

\* A position keeps its place when the slot of a published position keeps
\* its item and its number, and the writer of another one stays the same.
LEMMA SamePlace ==
  ASSUME PlacesInv, PlacesInv', NEW p \in tail .. head - 1,
         UNCHANGED <<sequences[Slot(p)], buffer[Slot(p)]>>
           \/ \E t \in Threads : Writing(t) /\ pos[t] = p,
         \A t \in Threads : Writing(t) /\ pos[t] = p =>
           Writing(t)' /\ pos'[t] = pos[t] /\ item'[t] = item[t]
  PROVE  PlaceAt(p)' = PlaceAt(p)
  <1>1. CASE \E t \in Threads : Writing(t) /\ pos[t] = p
    <2>1. PICK t \in Threads : Writing(t) /\ pos[t] = p
      BY <1>1
    <2>2. Writing(t)' /\ pos'[t] = p /\ item'[t] = item[t]
      BY <2>1
    <2>3. PlaceAt(p) = [val |-> item[t], owner |-> t]
      BY <2>1 DEF PlacesInv
    <2>4. PlaceAt(pos[t])' = [val |-> item'[t], owner |-> t]
      BY <2>2 DEF PlacesInv
    <2>5. PlaceAt(p)' = PlaceAt(pos[t])'
      BY <2>2 DEF PlaceAt, WriterOf
    <2> QED
      BY <2>2, <2>3, <2>4, <2>5
  <1>2. CASE ~ \E t \in Threads : Writing(t) /\ pos[t] = p
    <2>1. /\ sequences[Slot(p)] = Published(p)
          /\ PlaceAt(p) = [val |-> buffer[Slot(p)], owner |-> Nobody]
      BY <1>2 DEF PlacesInv
    <2>2. sequences'[Slot(p)] = Published(p) /\ buffer'[Slot(p)] = buffer[Slot(p)]
      BY <1>2, <2>1 DEF Slot
    <2> QED
      BY <2>1, <2>2 DEF PlaceAt, Slot, Published
  <1> QED
    BY <1>1, <1>2

\* The labels of a thread as calls in progress.
LEMMA CallValues ==
  /\ \A l \in {"e_load", "e_seq", "e_cas"} : CallOf(l) = "enqueue"
  /\ \A l \in {"e_write", "e_pub"} : CallOf(l) = "reserved"
  /\ \A l \in {"d_load", "d_seq", "d_cas"} : CallOf(l) = "dequeue"
  /\ \A l \in {"d_read", "d_rel"} : CallOf(l) = "taken"
  /\ \A l \in {"idle", "s_tail"} : CallOf(l) = "none"
  BY DEF CallOf

-----------------------------------------------------------------------------
(* One lemma per step.  The steps that only move locals, and the reads and  *)
(* writes of the slots, leave the abstract variables alone.                 *)

\* A step that changes no slot and no writer changes no place.
LEMMA SamePlacesLocal ==
  ASSUME TypeOK, PlacesInv, PlacesInv', NEW t \in Threads,
         ~ Writing(t),
         UNCHANGED <<head, tail, sequences, buffer>>,
         \A u \in Threads : u # t =>
            pc'[u] = pc[u] /\ pos'[u] = pos[u] /\ item'[u] = item[u]
  PROVE  PlacesInUse' = PlacesInUse
  <1>1. head \in Nat /\ tail \in Nat
    BY DEF TypeOK
  <1>2. ASSUME NEW p \in tail .. head - 1 PROVE PlaceAt(p)' = PlaceAt(p)
    <2>1. \A u \in Threads : Writing(u) /\ pos[u] = p =>
             Writing(u)' /\ pos'[u] = pos[u] /\ item'[u] = item[u]
      BY DEF Writing
    <2>2. UNCHANGED <<sequences[Slot(p)], buffer[Slot(p)]>>
      BY DEF Slot
    <2> QED
      BY <2>1, <2>2, SamePlace
  <1> QED
    BY <1>1, <1>2, SamePlaces

\* The items of the mapping after a step that changes neither slots nor the
\* items of threads, and moves no thread to or from line 91.
LEMMA SameItems ==
  ASSUME UNCHANGED <<item, buffer>>,
         \A u \in Threads : (pc'[u] = "d_read") = (pc[u] = "d_read"),
         \A u \in Threads : pc[u] = "d_read" => pos'[u] = pos[u]
  PROVE  MappedItem' = MappedItem
  BY DEF MappedItem, ItemOf, Slot

\* Reloads, failed compare-exchanges and the tests that keep a call going are
\* invisible, and so is size().
LEMMA FifoLocalStutter ==
  ASSUME TypeOK, PlacesInv, PlacesInv', NEW t \in Threads,
         \/ EnqReload(t) \/ EnqClaimFails(t)
         \/ EnqLoadSeq(t) /\ EnqDiff(t) >= 0
         \/ DeqReload(t) \/ DeqClaimFails(t)
         \/ DeqLoadSeq(t) /\ DeqDiff(t) >= 0
         \/ Size(t)
  PROVE  UNCHANGED <<PlacesInUse, MappedCall, MappedItem, ret>>
  <1> USE DEF EnqReload, EnqClaimFails, EnqLoadSeq, DeqReload, DeqClaimFails,
              DeqLoadSeq, Size, SizeLoadHead, SizeLoadTail
  <1>1. /\ UNCHANGED <<head, tail, sequences, buffer, item>>
        /\ ~ Writing(t)
        /\ \A u \in Threads : u # t => pc'[u] = pc[u] /\ pos'[u] = pos[u]
        /\ pc[t] # "d_read" /\ pc'[t] # "d_read"
    BY DEF TypeOK, Goto, Return, Writing
  <1>2. EnqDiff(t) \in Int /\ DeqDiff(t) \in Int
    BY SlotRange DEF EnqDiff, DeqDiff, Published, TypeOK
  <1>3. PlacesInUse' = PlacesInUse
    BY <1>1, SamePlacesLocal
  <1>4. MappedItem' = MappedItem
    BY <1>1, SameItems
  <1>5. ret' = ret /\ CallOf(pc'[t]) = CallOf(pc[t])
    BY <1>2, CallValues DEF TypeOK, Goto, Return
  <1>6. MappedCall' = MappedCall
    BY <1>1, <1>5 DEF MappedCall
  <1> QED
    BY <1>3, <1>4, <1>5, <1>6

\* Line 60 is invisible: the places of other positions and the item of a
\* consumer at line 91 are in other slots.
LEMMA FifoEnqWrite ==
  ASSUME TypeOK, SlotProtocol, PlacesInv, PlacesInv',
         NEW t \in Threads, EnqWrite(t)
  PROVE  UNCHANGED <<PlacesInUse, MappedCall, MappedItem, ret>>
  <1>1. /\ head \in Nat /\ tail \in Nat /\ pos \in [Threads -> Nat]
        /\ UNCHANGED <<head, tail, sequences, pos, item, ret>>
        /\ buffer' = [buffer EXCEPT ![Slot(pos[t])] = item[t]]
        /\ buffer \in [Slots -> Values \cup {Garbage}]
        /\ pc[t] = "e_write" /\ pc'[t] = "e_pub"
        /\ \A u \in Threads : u # t => pc'[u] = pc[u]
        /\ \A p \in Nat : Slot(p) \in Slots
    BY SlotRange DEF TypeOK, EnqWrite, Goto
  <1>2. tail <= pos[t] /\ pos[t] < head /\ head <= pos[t] + Capacity
    BY <1>1, CapacityNat DEF SlotProtocol, WriterInv, Writing, BoundedOccupancy
  <1>3. \A p \in Nat : p < head /\ head <= p + Capacity /\ p # pos[t]
                         => buffer'[Slot(p)] = buffer[Slot(p)]
    BY <1>1, <1>2, WindowInjective
  <1>4. PlacesInUse' = PlacesInUse
    <2>1. ASSUME NEW p \in tail .. head - 1 PROVE PlaceAt(p)' = PlaceAt(p)
      <3>1. \A u \in Threads : Writing(u) /\ pos[u] = p =>
               Writing(u)' /\ pos'[u] = pos[u] /\ item'[u] = item[u]
        BY <1>1 DEF Writing
      <3>2. p = pos[t] \/ UNCHANGED <<sequences[Slot(p)], buffer[Slot(p)]>>
        <4>1. p # pos[t] => buffer'[Slot(p)] = buffer[Slot(p)]
          BY <1>1, <1>3, CapacityNat DEF SlotProtocol, BoundedOccupancy
        <4> QED
          BY <1>1, <4>1 DEF Slot
      <3>3. Writing(t)
        BY <1>1 DEF Writing
      <3> QED
        BY <3>1, <3>2, <3>3, SamePlace
    <2> QED
      BY <1>1, <2>1, SamePlaces
  <1>5. MappedItem' = MappedItem
    <2>1. ASSUME NEW u \in Threads PROVE ItemOf(u)' = ItemOf(u)
      <3>1. CASE pc[u] = "d_read"
        <4>1. pos[u] < tail /\ head <= pos[u] + Capacity /\ u # t
          BY <1>1, <3>1 DEF SlotProtocol, ReaderInv, Reading
        <4>2. buffer'[Slot(pos[u])] = buffer[Slot(pos[u])]
          BY <1>1, <1>2, <1>3, <4>1
        <4> QED
          BY <1>1, <3>1, <4>1, <4>2 DEF ItemOf, Slot
      <3>2. CASE pc[u] # "d_read"
        BY <1>1, <3>2 DEF ItemOf
      <3> QED
        BY <3>1, <3>2
    <2> QED
      BY <2>1 DEF MappedItem
  <1>6. MappedCall' = MappedCall
    BY <1>1, CallValues DEF MappedCall
  <1> QED
    BY <1>1, <1>4, <1>5, <1>6

\* Line 91 is invisible: the consumer took the item at its compare-exchange.
LEMMA FifoDeqRead ==
  ASSUME TypeOK, PlacesInv, PlacesInv', NEW t \in Threads, DeqRead(t)
  PROVE  UNCHANGED <<PlacesInUse, MappedCall, MappedItem, ret>>
  <1>1. /\ UNCHANGED <<head, tail, sequences, buffer, pos, ret>>
        /\ item' = [item EXCEPT ![t] = buffer[Slot(pos[t])]]
        /\ item \in [Threads -> Values \cup {Garbage}]
        /\ pc[t] = "d_read" /\ pc'[t] = "d_rel"
        /\ \A u \in Threads : u # t => pc'[u] = pc[u] /\ item'[u] = item[u]
    BY DEF TypeOK, DeqRead, Goto
  <1>2. PlacesInUse' = PlacesInUse
    BY <1>1, SamePlacesLocal DEF Writing
  <1>3. MappedItem' = MappedItem
    BY <1>1 DEF MappedItem, ItemOf, Slot
  <1>4. MappedCall' = MappedCall
    BY <1>1, CallValues DEF MappedCall
  <1> QED
    BY <1>1, <1>2, <1>3, <1>4

\* Line 47: try_enqueue is called.
LEMMA FifoEnqCall ==
  ASSUME TypeOK, PlacesInv, PlacesInv', NEW t \in Threads, NEW v \in Values,
         EnqCall(t, v)
  PROVE  Fifo!BeginEnqueue(t, v)
  <1>1. /\ UNCHANGED <<head, tail, sequences, buffer>>
        /\ item' = [item EXCEPT ![t] = v]
        /\ ret' = [ret EXCEPT ![t] = "none"]
        /\ item \in [Threads -> Values \cup {Garbage}]
        /\ pc[t] = "idle" /\ pc'[t] = "e_seq"
        /\ \A u \in Threads : u # t =>
             pc'[u] = pc[u] /\ pos'[u] = pos[u] /\ item'[u] = item[u]
    BY DEF TypeOK, EnqCall, Goto
  <1>2. PlacesInUse' = PlacesInUse
    BY <1>1, SamePlacesLocal DEF Writing
  <1>3. MappedItem' = [MappedItem EXCEPT ![t] = v]
    BY <1>1 DEF MappedItem, ItemOf, Slot
  <1>4. MappedCall[t] = "none" /\ MappedCall' = [MappedCall EXCEPT ![t] = "enqueue"]
    BY <1>1, CallValues DEF MappedCall
  <1> QED
    BY <1>1, <1>2, <1>3, <1>4
       DEF Fifo!BeginEnqueue, Fifo!Begin, MappedCall, MappedItem

\* Line 78: try_dequeue is called.
LEMMA FifoDeqCall ==
  ASSUME TypeOK, PlacesInv, PlacesInv', NEW t \in Threads, DeqCall(t)
  PROVE  Fifo!BeginDequeue(t)
  <1>1. /\ UNCHANGED <<head, tail, sequences, buffer, item>>
        /\ ret' = [ret EXCEPT ![t] = "none"]
        /\ pc[t] = "idle" /\ pc'[t] = "d_seq"
        /\ \A u \in Threads : u # t => pc'[u] = pc[u] /\ pos'[u] = pos[u]
    BY DEF TypeOK, DeqCall, Goto
  <1>2. PlacesInUse' = PlacesInUse
    BY <1>1, SamePlacesLocal DEF Writing
  <1>3. MappedItem' = MappedItem
    BY <1>1, SameItems
  <1>4. MappedCall[t] = "none" /\ MappedCall' = [MappedCall EXCEPT ![t] = "dequeue"]
    BY <1>1, CallValues DEF MappedCall
  <1> QED
    BY <1>1, <1>2, <1>3, <1>4
       DEF Fifo!BeginDequeue, Fifo!Begin, MappedCall, MappedItem

\* Lines 57-58: the successful compare-exchange reserves the place behind
\* the others, and there is one.
LEMMA FifoEnqClaim ==
  ASSUME TypeOK, SlotProtocol, SlotProtocol', PlacesInv, PlacesInv',
         NEW t \in Threads, EnqClaim(t)
  PROVE  Fifo!Reserve(t)
  <1>1. /\ head \in Nat /\ tail \in Nat
        /\ pos[t] = head /\ head' = head + 1
        /\ UNCHANGED <<tail, sequences, buffer, pos, item, ret>>
        /\ pc[t] = "e_cas" /\ pc'[t] = "e_write"
        /\ \A u \in Threads : u # t => pc'[u] = pc[u]
    BY DEF TypeOK, EnqClaim, Goto
  <1>2. head < tail + Capacity /\ tail <= head
    BY <1>1, CapacityNat DEF SlotProtocol, BoundedOccupancy
  <1>3. Len(PlacesInUse) < Capacity
    BY <1>1, <1>2, CapacityNat DEF PlacesInv
  <1>4. MappedItem' = MappedItem
    BY <1>1, SameItems
  <1>5. MappedCall[t] = "enqueue" /\ MappedCall' = [MappedCall EXCEPT ![t] = "reserved"]
    BY <1>1, CallValues DEF MappedCall
  <1>6. MappedItem[t] = item[t]
    BY <1>1 DEF MappedItem, ItemOf
  <1>7. PlacesInUse' = Append(PlacesInUse, [val |-> item[t], owner |-> t])
    <2> DEFINE new == [val |-> item[t], owner |-> t]
    <2>1. ASSUME NEW q, q = head PROVE PlaceAt(q)' = new
      <3>1. Writing(t)' /\ pos'[t] = q
        BY <1>1, <2>1 DEF Writing
      <3>2. PlaceAt(pos[t])' = new
        BY <1>1, <3>1 DEF PlacesInv
      <3> QED
        BY <1>1, <3>1, <3>2 DEF PlaceAt, WriterOf
    <2>2. ASSUME NEW p \in tail .. head - 1 PROVE PlaceAt(p)' = PlaceAt(p)
      <3>1. \A u \in Threads : Writing(u) /\ pos[u] = p =>
               Writing(u)' /\ pos'[u] = pos[u] /\ item'[u] = item[u]
        BY <1>1 DEF Writing
      <3>2. UNCHANGED <<sequences[Slot(p)], buffer[Slot(p)]>>
        BY <1>1 DEF Slot
      <3> QED
        BY <3>1, <3>2, SamePlace
    <2>3. /\ PlacesInUse \in Seq(Place) /\ PlacesInUse' \in Seq(Place)
          /\ Len(PlacesInUse) = head - tail
          /\ Len(PlacesInUse') = head + 1 - tail
          /\ \A p \in tail .. head - 1 :
               PlacesInUse[p - tail + 1] = PlaceAt(p)
          /\ \A p \in tail .. head :
               PlacesInUse'[p - tail + 1] = PlaceAt(p)'
      <3>1. /\ PlacesInUse' \in Seq(Place)
            /\ Len(PlacesInUse') = head' - tail'
            /\ \A p \in tail' .. head' - 1 :
                 PlacesInUse'[p - tail' + 1] = PlaceAt(p)'
        BY DEF PlacesInv, Place, Threads
      <3> QED
        BY <1>1, <3>1 DEF PlacesInv
    <2>4. new \in Place
      BY <1>1 DEF Place, SlotProtocol, LoadedInv
    <2> HIDE DEF new
    <2>5. /\ Append(PlacesInUse, new) \in Seq(Place)
          /\ Len(Append(PlacesInUse, new)) = head + 1 - tail
          /\ \A i \in 1 .. head - tail :
               Append(PlacesInUse, new)[i] = PlacesInUse[i]
          /\ Append(PlacesInUse, new)[head - tail + 1] = new
      BY <1>1, <2>3, <2>4, AppendProperties
    <2>6. ASSUME NEW i \in 1 .. head + 1 - tail
          PROVE  PlacesInUse'[i] = Append(PlacesInUse, new)[i]
      <3> DEFINE p == tail + i - 1
      <3>1. p \in tail .. head /\ i = p - tail + 1
        BY <1>1
      <3>2. PICK q \in tail .. head : q = p
        BY <3>1
      <3>3. CASE q = head
        BY <1>1, <2>1, <2>3, <2>5, <3>1, <3>2, <3>3
      <3>4. CASE q # head
        <4>1. q \in tail .. head - 1 /\ i \in 1 .. head - tail /\ i = q - tail + 1
          BY <1>1, <3>1, <3>2, <3>4
        <4>2. PlacesInUse'[i] = PlaceAt(q)' /\ PlacesInUse[i] = PlaceAt(q)
          BY <2>3, <3>2, <4>1
        <4> QED
          BY <2>2, <2>5, <4>1, <4>2
      <3> QED
        BY <3>3, <3>4
    <2> QED
      BY <2>3, <2>5, <2>6, SeqEqual DEF new
  <1> QED
    BY <1>1, <1>3, <1>4, <1>5, <1>6, <1>7
       DEF Fifo!Reserve, MappedCall, MappedItem

\* Line 61: the store fills the place, with the item that was reserved for it.
LEMMA FifoEnqPublish ==
  ASSUME TypeOK, SlotProtocol, PlacesInv, PlacesInv',
         NEW t \in Threads, EnqPublish(t)
  PROVE  Fifo!Commit(t)
  <1>1. /\ head \in Nat /\ tail \in Nat /\ pos \in [Threads -> Nat]
        /\ UNCHANGED <<head, tail, buffer, pos, item>>
        /\ sequences' = [sequences EXCEPT ![Slot(pos[t])] = Published(pos[t])]
        /\ sequences \in [Slots -> Nat]
        /\ ret' = [ret EXCEPT ![t] = "true"]
        /\ pc[t] = "e_pub" /\ pc'[t] = "idle"
        /\ \A u \in Threads : u # t => pc'[u] = pc[u]
        /\ \A p \in Nat : Slot(p) \in Slots
        /\ Writing(t)
    BY SlotRange DEF TypeOK, EnqPublish, Return, Goto, Writing
  <1>2. /\ tail <= pos[t] /\ pos[t] < head /\ head <= pos[t] + Capacity
        /\ buffer[Slot(pos[t])] = item[t]
        /\ \A u \in Threads : Writing(u) /\ pos[u] = pos[t] => u = t
    BY <1>1, CapacityNat DEF SlotProtocol, WriterInv, BoundedOccupancy
  <1>3. MappedItem' = MappedItem
    BY <1>1, SameItems
  <1>4. MappedCall[t] = "reserved" /\ MappedCall' = [MappedCall EXCEPT ![t] = "none"]
    BY <1>1, CallValues DEF MappedCall
  <1>5. ASSUME NEW p \in tail .. head - 1
        PROVE  PlaceAt(p)' = [val |-> PlaceAt(p).val,
                              owner |-> IF PlaceAt(p).owner = t THEN Nobody
                                        ELSE PlaceAt(p).owner]
    <2>1. CASE p = pos[t]
      <3>1. PlaceAt(p) = [val |-> item[t], owner |-> t]
        BY <1>1, <2>1 DEF PlacesInv
      <3>2. sequences'[Slot(p)] = Published(p) /\ buffer'[Slot(p)] = item[t]
        BY <1>1, <1>2, <2>1
      <3>3. PlaceAt(p)' = [val |-> item[t], owner |-> Nobody]
        BY <3>2 DEF PlaceAt, Slot, Published
      <3> QED
        BY <3>1, <3>3
    <2>2. CASE p # pos[t]
      <3>1. UNCHANGED <<sequences[Slot(p)], buffer[Slot(p)]>>
        <4>1. Slot(p) # Slot(pos[t])
          BY <1>1, <1>2, <2>2, WindowInjective, CapacityNat
             DEF SlotProtocol, BoundedOccupancy
        <4> QED
          BY <1>1, <4>1 DEF Slot
      <3>2. \A u \in Threads : Writing(u) /\ pos[u] = p =>
               Writing(u)' /\ pos'[u] = pos[u] /\ item'[u] = item[u]
        BY <1>1, <2>2 DEF Writing
      <3>3. PlaceAt(p)' = PlaceAt(p)
        BY <3>1, <3>2, SamePlace
      <3>4. PlaceAt(p).owner # t /\ PlaceAt(p) \in Place
        <4>1. CASE \E u \in Threads : Writing(u) /\ pos[u] = p
          <5>1. PICK u \in Threads : Writing(u) /\ pos[u] = p
            BY <4>1
          <5>2. PlaceAt(p) = [val |-> item[u], owner |-> u] /\ u # t
            BY <2>2, <5>1 DEF PlacesInv
          <5> QED
            BY <5>2 DEF PlacesInv
        <4>2. CASE ~ \E u \in Threads : Writing(u) /\ pos[u] = p
          BY <4>2, NobodyNotThread DEF PlacesInv
        <4> QED
          BY <4>1, <4>2 DEF PlacesInv
      <3> QED
        BY <3>3, <3>4 DEF Place
    <2> QED
      BY <2>1, <2>2
  <1>6. PlacesInUse' = [i \in DOMAIN PlacesInUse |->
                          [val |-> PlacesInUse[i].val,
                           owner |-> IF PlacesInUse[i].owner = t THEN Nobody
                                     ELSE PlacesInUse[i].owner]]
    <2>1. \A i \in 1 .. head - tail : tail + i - 1 \in tail .. head - 1
      BY <1>1
    <2> QED
      BY <1>1, <1>5, <2>1 DEF PlacesInUse
  <1> QED
    BY <1>1, <1>3, <1>4, <1>6
       DEF Fifo!Commit, Fifo!End, MappedCall, MappedItem

\* Lines 64-66: false means that all places are in use, or that a consumer
\* still has to give one back.
LEMMA FifoEnqRefused ==
  ASSUME TypeOK, SlotProtocol, PlacesInv, PlacesInv',
         NEW t \in Threads, EnqLoadSeq(t), EnqDiff(t) < 0
  PROVE  Fifo!RefuseEnqueue(t)
  <1>1. /\ head \in Nat /\ tail \in Nat /\ pos[t] \in Nat
        /\ sequences[Slot(pos[t])] \in Nat
    BY SlotRange DEF TypeOK
  <1>2. /\ UNCHANGED <<head, tail, sequences, buffer, pos, item>>
        /\ ret' = [ret EXCEPT ![t] = "false"]
        /\ pc[t] = "e_seq" /\ pc'[t] = "idle"
        /\ \A u \in Threads : u # t => pc'[u] = pc[u]
    BY <1>1 DEF TypeOK, EnqLoadSeq, EnqDiff, Return, Goto
  <1>3. pos[t] = head /\ sequences[Slot(head)] < head
    <2>1. sequences[Slot(pos[t])] < pos[t] /\ pos[t] <= head
      BY <1>1, <1>2 DEF EnqDiff, SlotProtocol, LoadedInv
    <2> QED
      BY <1>1, <2>1 DEF SlotProtocol, LapInv
  <1>4. Len(PlacesInUse) = Capacity \/ \E u \in Threads : Reading(u)
    <2>1. CASE head < tail + Capacity
      BY <1>1, <1>3, <2>1, CapacityNat DEF SlotProtocol, FreeInv
    <2>2. CASE head >= tail + Capacity
      BY <1>1, <2>2, CapacityNat DEF SlotProtocol, BoundedOccupancy, PlacesInv
    <2> QED
      BY <1>1, <2>1, <2>2, CapacityNat
  <1>5. Len(PlacesInUse) = Capacity \/ \E u \in Threads : MappedCall[u] = "taken"
    BY <1>4, CallValues DEF Reading, MappedCall
  <1>6. PlacesInUse' = PlacesInUse
    BY <1>2, SamePlacesLocal DEF Writing
  <1>7. MappedItem' = MappedItem
    BY <1>2, SameItems
  <1>8. MappedCall[t] = "enqueue" /\ MappedCall' = [MappedCall EXCEPT ![t] = "none"]
    BY <1>2, CallValues DEF MappedCall
  <1> QED
    BY <1>2, <1>5, <1>6, <1>7, <1>8
       DEF Fifo!RefuseEnqueue, Fifo!End, Fifo!Threads, Threads,
           MappedCall, MappedItem

\* Lines 88-89: the successful compare-exchange takes the first item.
LEMMA FifoDeqClaim ==
  ASSUME TypeOK, SlotProtocol, SlotProtocol', PlacesInv, PlacesInv',
         NEW t \in Threads, DeqClaim(t)
  PROVE  Fifo!Take(t)
  <1>1. /\ head \in Nat /\ tail \in Nat
        /\ pos[t] = tail /\ tail' = tail + 1
        /\ UNCHANGED <<head, sequences, buffer, pos, item, ret>>
        /\ pc[t] = "d_cas" /\ pc'[t] = "d_read"
        /\ \A u \in Threads : u # t => pc'[u] = pc[u]
        /\ pos \in [Threads -> Nat]
    BY DEF TypeOK, DeqClaim, Goto
  <1>2. tail < head /\ sequences[Slot(tail)] = Published(tail)
    <2>1. tail' <= head'
      BY DEF SlotProtocol, BoundedOccupancy
    <2>2. sequences'[Slot(pos'[t])] = Published(pos'[t])
      <3>1. Reading(t)'
        BY <1>1 DEF Reading
      <3> QED
        BY <3>1 DEF SlotProtocol, ReaderInv, Slot, Published
    <2> QED
      BY <1>1, <2>1, <2>2
  <1>3. /\ PlacesInUse \in Seq(Place) /\ Len(PlacesInUse) = head - tail
        /\ PlacesInUse # << >>
        /\ PlacesInUse[1] = [val |-> buffer[Slot(tail)], owner |-> Nobody]
    <2>1. PlaceAt(tail) = [val |-> buffer[Slot(tail)], owner |-> Nobody]
      BY <1>2 DEF PlaceAt
    <2>2. tail \in tail .. head - 1 /\ tail - tail + 1 = 1
      BY <1>1, <1>2
    <2>3. PlacesInUse[1] = PlaceAt(tail)
      BY <2>2 DEF PlacesInv
    <2>4. PlacesInUse \in Seq(Place) /\ Len(PlacesInUse) = head - tail
      BY DEF PlacesInv
    <2>5. PlacesInUse # << >>
      BY <1>1, <1>2, <2>4, EmptySeq
    <2> QED
      BY <2>1, <2>3, <2>4, <2>5
  <1>4. Head(PlacesInUse) = [val |-> buffer[Slot(tail)], owner |-> Nobody]
    BY <1>3
  <1>5. ASSUME NEW p \in tail + 1 .. head - 1 PROVE PlaceAt(p)' = PlaceAt(p)
    <2>1. \A u \in Threads : Writing(u) /\ pos[u] = p =>
             Writing(u)' /\ pos'[u] = pos[u] /\ item'[u] = item[u]
      BY <1>1 DEF Writing
    <2>2. UNCHANGED <<sequences[Slot(p)], buffer[Slot(p)]>>
      BY <1>1 DEF Slot
    <2>3. p \in tail .. head - 1
      BY <1>1
    <2> QED
      BY <2>1, <2>2, <2>3, SamePlace
  <1>6. PlacesInUse' = Tail(PlacesInUse)
    <2>1. /\ PlacesInUse' \in Seq(Place)
          /\ Len(PlacesInUse') = head - tail - 1
          /\ \A p \in tail + 1 .. head - 1 : PlacesInUse'[p - tail] = PlaceAt(p)'
      <3>1. /\ PlacesInUse' \in Seq(Place)
            /\ Len(PlacesInUse') = head' - tail'
            /\ \A p \in tail' .. head' - 1 :
                 PlacesInUse'[p - tail' + 1] = PlaceAt(p)'
        BY DEF PlacesInv, Place, Threads
      <3>2. \A p \in tail + 1 .. head - 1 : p - tail' + 1 = p - tail
        BY <1>1
      <3> QED
        BY <1>1, <3>1, <3>2
    <2>2. /\ Tail(PlacesInUse) \in Seq(Place)
          /\ Len(Tail(PlacesInUse)) = head - tail - 1
          /\ \A i \in 1 .. head - tail - 1 :
               Tail(PlacesInUse)[i] = PlacesInUse[i + 1]
      BY <1>3, HeadTailProperties
    <2>3. ASSUME NEW i \in 1 .. head - tail - 1
          PROVE  PlacesInUse'[i] = Tail(PlacesInUse)[i]
      <3>1. PICK q \in tail + 1 .. head - 1 : q = tail + i
        BY <1>1
      <3>2. i = q - tail /\ i + 1 = q - tail + 1 /\ q \in tail .. head - 1
        BY <1>1, <3>1
      <3>3. PlacesInUse'[i] = PlaceAt(q)'
        BY <2>1, <3>2
      <3>4. PlacesInUse[i + 1] = PlaceAt(q)
        BY <3>2 DEF PlacesInv
      <3> QED
        BY <1>5, <2>2, <3>3, <3>4
    <2> QED
      BY <2>1, <2>2, <2>3, SeqEqual
  <1>7. MappedItem' = [MappedItem EXCEPT ![t] = buffer[Slot(tail)]]
    BY <1>1 DEF MappedItem, ItemOf, Slot
  <1>8. MappedCall[t] = "dequeue" /\ MappedCall' = [MappedCall EXCEPT ![t] = "taken"]
    BY <1>1, CallValues DEF MappedCall
  <1>9. /\ Head(PlacesInUse).owner = Nobody
        /\ MappedItem' = [MappedItem EXCEPT ![t] = Head(PlacesInUse).val]
    <2>1. /\ Head(PlacesInUse).val = buffer[Slot(tail)]
          /\ Head(PlacesInUse).owner = Nobody
      BY <1>4
    <2> QED
      BY <1>7, <2>1
  <1>10. PlacesInUse # << >>
    BY <1>3
  <1> QED
    BY <1>1, <1>6, <1>8, <1>9, <1>10
       DEF Fifo!Take, Fifo!FirstFilled, MappedCall, MappedItem

\* Line 92: the store gives the place back.
LEMMA FifoDeqRelease ==
  ASSUME TypeOK, SlotProtocol, PlacesInv, PlacesInv',
         NEW t \in Threads, DeqRelease(t)
  PROVE  Fifo!Free(t)
  <1>1. /\ head \in Nat /\ tail \in Nat /\ pos \in [Threads -> Nat]
        /\ UNCHANGED <<head, tail, buffer, pos, item>>
        /\ sequences' = [sequences EXCEPT ![Slot(pos[t])] = Released(pos[t])]
        /\ sequences \in [Slots -> Nat]
        /\ ret' = [ret EXCEPT ![t] = "true"]
        /\ pc[t] = "d_rel" /\ pc'[t] = "idle"
        /\ \A u \in Threads : u # t => pc'[u] = pc[u]
        /\ \A p \in Nat : Slot(p) \in Slots
    BY SlotRange DEF TypeOK, DeqRelease, Return, Goto
  <1>2. pos[t] < tail /\ tail <= head /\ head <= pos[t] + Capacity
    BY <1>1 DEF SlotProtocol, ReaderInv, Reading, BoundedOccupancy
  <1>3. PlacesInUse' = PlacesInUse
    <2>1. ASSUME NEW p \in tail .. head - 1 PROVE PlaceAt(p)' = PlaceAt(p)
      <3>1. \A u \in Threads : Writing(u) /\ pos[u] = p =>
               Writing(u)' /\ pos'[u] = pos[u] /\ item'[u] = item[u]
        BY <1>1 DEF Writing
      <3>2. Slot(p) # Slot(pos[t])
        BY <1>1, <1>2, WindowInjective, CapacityNat
           DEF SlotProtocol, BoundedOccupancy
      <3>3. UNCHANGED <<sequences[Slot(p)], buffer[Slot(p)]>>
        BY <1>1, <3>2 DEF Slot
      <3> QED
        BY <3>1, <3>3, SamePlace
    <2> QED
      BY <1>1, <2>1, SamePlaces
  <1>4. MappedItem' = MappedItem
    BY <1>1, SameItems
  <1>5. MappedCall[t] = "taken" /\ MappedCall' = [MappedCall EXCEPT ![t] = "none"]
    BY <1>1, CallValues DEF MappedCall
  <1> QED
    BY <1>1, <1>3, <1>4, <1>5
       DEF Fifo!Free, Fifo!End, MappedCall, MappedItem

\* Lines 95-97: false means that no place is in use or that the first one is
\* reserved and not filled yet.
LEMMA FifoDeqRefused ==
  ASSUME TypeOK, SlotProtocol, PlacesInv, PlacesInv',
         NEW t \in Threads, DeqLoadSeq(t), DeqDiff(t) < 0
  PROVE  Fifo!RefuseDequeue(t)
  <1>1. /\ head \in Nat /\ tail \in Nat /\ pos[t] \in Nat
        /\ sequences[Slot(pos[t])] \in Nat
    BY SlotRange DEF TypeOK
  <1>2. /\ UNCHANGED <<head, tail, sequences, buffer, pos, item>>
        /\ ret' = [ret EXCEPT ![t] = "false"]
        /\ pc[t] = "d_seq" /\ pc'[t] = "idle"
        /\ \A u \in Threads : u # t => pc'[u] = pc[u]
    BY <1>1 DEF TypeOK, DeqLoadSeq, DeqDiff, Published, Return, Goto
  <1>3. pos[t] = tail /\ sequences[Slot(tail)] # Published(tail)
    <2>1. sequences[Slot(pos[t])] < Published(pos[t]) /\ pos[t] <= tail
      BY <1>1, <1>2 DEF DeqDiff, SlotProtocol, LoadedInv, Published
    <2> QED
      BY <1>1, <2>1 DEF SlotProtocol, LapInv, Published
  <1>4. PlacesInUse # << >> => Head(PlacesInUse).owner # Nobody
    <2> SUFFICES ASSUME PlacesInUse # << >>
                 PROVE  Head(PlacesInUse).owner # Nobody
      OBVIOUS
    <2>1. tail \in tail .. head - 1 /\ tail - tail + 1 = 1
      BY <1>1, EmptySeq DEF PlacesInv
    <2>2. Head(PlacesInUse) = PlaceAt(tail)
      BY <2>1 DEF PlacesInv
    <2>3. PICK u \in Threads : Writing(u) /\ pos[u] = tail
      BY <1>3, <2>1 DEF PlacesInv
    <2>4. PlaceAt(tail) = [val |-> item[u], owner |-> u]
      BY <2>3 DEF PlacesInv
    <2> QED
      BY <2>2, <2>4, NobodyNotThread
  <1>5. PlacesInUse' = PlacesInUse
    BY <1>2, SamePlacesLocal DEF Writing
  <1>6. MappedItem' = MappedItem
    BY <1>2, SameItems
  <1>7. MappedCall[t] = "dequeue" /\ MappedCall' = [MappedCall EXCEPT ![t] = "none"]
    BY <1>2, CallValues DEF MappedCall
  <1> QED
    BY <1>2, <1>4, <1>5, <1>6, <1>7
       DEF Fifo!RefuseDequeue, Fifo!FirstFilled, Fifo!End,
           MappedCall, MappedItem

-----------------------------------------------------------------------------
\* The constructor's state is the empty queue.
LEMMA FifoInit == Init => Fifo!Init
  <1> SUFFICES ASSUME Init PROVE Fifo!Init
    OBVIOUS
  <1>1. PlacesInUse = << >>
    BY DEF Init, PlacesInUse
  <1>2. /\ MappedCall = [t \in Threads |-> "none"]
        /\ MappedItem = [t \in Threads |-> Garbage]
    BY CallValues DEF Init, MappedCall, MappedItem, ItemOf
  <1> QED
    BY <1>1, <1>2 DEF Init, Fifo!Init, Fifo!Threads, Threads, MappedCall, MappedItem

\* Every step of every thread is a step of BoundedFIFO or invisible to it.
LEMMA FifoStep ==
  ASSUME TypeOK, SlotProtocol, PlacesInv,
         SlotProtocol', PlacesInv', [Next]_vars
  PROVE  [Fifo!Next]_(Fifo!fifoVars)
  <1> DEFINE Stutter == UNCHANGED <<PlacesInUse, MappedCall, MappedItem, ret>>
  <1>1. Stutter => UNCHANGED Fifo!fifoVars
    BY DEF Fifo!fifoVars, MappedCall, MappedItem
  <1> HIDE DEF Stutter
  <1>2. ASSUME NEW t \in Producers, TryEnqueue(t)
        PROVE  Fifo!Next \/ Stutter
    <2> t \in Threads
      BY DEF Threads
    <2>1. EnqDiff(t) \in Int
      BY SlotRange DEF EnqDiff, TypeOK
    <2>2. CASE EnqReload(t) \/ EnqClaimFails(t) \/ (EnqLoadSeq(t) /\ EnqDiff(t) >= 0)
      BY <2>2, FifoLocalStutter DEF Stutter
    <2>3. CASE EnqWrite(t)
      BY <2>3, FifoEnqWrite DEF Stutter
    <2>4. ASSUME NEW v \in Values, EnqCall(t, v) PROVE Fifo!Next
      BY <2>4, FifoEnqCall DEF Fifo!Next
    <2>5. CASE EnqClaim(t)
      BY <2>5, FifoEnqClaim DEF Fifo!Next
    <2>6. CASE EnqPublish(t)
      BY <2>6, FifoEnqPublish DEF Fifo!Next
    <2>7. CASE EnqLoadSeq(t) /\ EnqDiff(t) < 0
      BY <2>7, FifoEnqRefused DEF Fifo!Next
    <2>8. EnqDiff(t) >= 0 \/ EnqDiff(t) < 0
      BY <2>1
    <2> QED
      BY <1>2, <2>2, <2>3, <2>4, <2>5, <2>6, <2>7, <2>8 DEF TryEnqueue
  <1>3. ASSUME NEW t \in Consumers, TryDequeue(t)
        PROVE  Fifo!Next \/ Stutter
    <2> t \in Threads
      BY DEF Threads
    <2>1. DeqDiff(t) \in Int
      BY SlotRange DEF DeqDiff, Published, TypeOK
    <2>2. CASE DeqReload(t) \/ DeqClaimFails(t) \/ (DeqLoadSeq(t) /\ DeqDiff(t) >= 0)
      BY <2>2, FifoLocalStutter DEF Stutter
    <2>3. CASE DeqRead(t)
      BY <2>3, FifoDeqRead DEF Stutter
    <2>4. CASE DeqCall(t)
      BY <2>4, FifoDeqCall DEF Fifo!Next
    <2>5. CASE DeqClaim(t)
      BY <2>5, FifoDeqClaim DEF Fifo!Next
    <2>6. CASE DeqRelease(t)
      BY <2>6, FifoDeqRelease DEF Fifo!Next
    <2>7. CASE DeqLoadSeq(t) /\ DeqDiff(t) < 0
      BY <2>7, FifoDeqRefused DEF Fifo!Next
    <2>8. DeqDiff(t) >= 0 \/ DeqDiff(t) < 0
      BY <2>1
    <2> QED
      BY <1>3, <2>2, <2>3, <2>4, <2>5, <2>6, <2>7, <2>8 DEF TryDequeue
  <1>4. ASSUME NEW t \in Observers, Size(t) PROVE Stutter
    BY <1>4, FifoLocalStutter DEF Threads, Stutter
  <1>5. ASSUME UNCHANGED vars PROVE Stutter
    BY <1>5 DEF vars, Stutter, PlacesInUse, PlaceAt, WriterOf, Writing, Slot,
                Published, MappedCall, MappedItem, ItemOf, CallOf
  <1> QED
    BY <1>1, <1>2, <1>3, <1>4, <1>5 DEF Next

\* The queue of lines 47-103 implements a bounded first-in-first-out queue:
\* no item is lost, duplicated, reordered or torn, and false is returned only
\* for the reasons BoundedFIFO allows, for every number of threads, of slots
\* (from two on) and of operations.
THEOREM QueueImplementsFifo ==
  ASSUME Capacity >= 2
  PROVE  Spec => ImplementsFifo
  <1>1. TypeOK /\ SlotProtocol /\ PlacesInv /\ SlotProtocol' /\ PlacesInv'
          /\ [Next]_vars => [Fifo!Next]_(Fifo!fifoVars)
    BY FifoStep
  <1> QED
    BY <1>1, FifoInit, PlacesDefined, TypeCorrect, ProtocolInvariant, PTL
       DEF Spec, ImplementsFifo, Fifo!FifoSpec

=============================================================================
