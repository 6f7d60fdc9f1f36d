------------------------ MODULE AsyncLoggerDataProofs ------------------------
(***************************************************************************)
(* Proofs about what the logger writes: the content of the file, of the    *)
(* write buffer and of the queue, for any messages and sizes.              *)
(***************************************************************************)
EXTENDS AsyncLoggerProofs, FlattenLemmas

\* What a unit of the file or of the buffer may hold.
Unit == (Messages \X Nat) \cup {Garbage, Zero}

CellType == [byte : Unit, pad : BOOLEAN]

DataType ==
  /\ file \in Seq(CellType)
  /\ write_buffer \in [1 .. BufferSize -> Unit]
  /\ claimed \in Seq(Messages)

\* What LogIntegrity needs to know besides LoggerInv: try_dequeue runs only
\* in the loops, stop() leaves an empty buffer behind, and the mapped file is
\* never shorter than what was written to it.
PositionInv ==
  /\ call[Worker] # "none" => wpc = "deq"
  /\ Alive /\ ~ running /\ cpc \notin {"join", "flush"} => buffer_offset = 0
  /\ Alive /\ ~ lost /\ write_mode = "MMAP" => total_written <= Len(file)
  /\ ~ lost /\ write_mode = "DIRECT" => Len(file) % Alignment = 0

\* The inductive invariant behind LogIntegrity and DirectAligned.
DataInv == DataType /\ PositionInv /\ LogIntegrity

-----------------------------------------------------------------------------
(* Messages as sequences of units *)

\* The units of a message.
LEMMA EncodeType ==
  ASSUME NEW m \in Messages
  PROVE  /\ Encode(m) \in Seq(Unit)
         /\ Len(Encode(m)) = Size[m]
         /\ Size[m] \in Nat \ {0}
         /\ \A i \in 1 .. Size[m] : Encode(m)[i] = <<m, i>> /\ <<m, i>> \in Unit
  <1>1. Size[m] \in Nat \ {0}
    BY SizeFits
  <1>2. \A i \in 1 .. Size[m] : <<m, i>> \in Unit
    BY <1>1 DEF Unit
  <1>3. Encode(m) \in [1 .. Size[m] -> Unit]
    BY <1>2 DEF Encode
  <1> QED
    BY <1>1, <1>2, <1>3 DEF Encode

\* The units of each of a sequence of messages.
EncodeEach(msgs) == [i \in DOMAIN msgs |-> Encode(msgs[i])]

\* EncodeEach is a sequence of sequences, and Encodings its concatenation.
LEMMA EncodingsType ==
  ASSUME NEW msgs \in Seq(Messages)
  PROVE  /\ EncodeEach(msgs) \in Seq(Seq(Unit))
         /\ Len(EncodeEach(msgs)) = Len(msgs)
         /\ Encodings(msgs) = FlattenSeq(EncodeEach(msgs))
         /\ Encodings(msgs) \in Seq(Unit)
  <1>1. Len(msgs) \in Nat /\ DOMAIN msgs = 1 .. Len(msgs)
    OBVIOUS
  <1>2. \A i \in 1 .. Len(msgs) : Encode(msgs[i]) \in Seq(Unit)
    BY EncodeType
  <1>3. EncodeEach(msgs) \in [1 .. Len(msgs) -> Seq(Unit)]
    BY <1>1, <1>2 DEF EncodeEach
  <1>4. EncodeEach(msgs) \in Seq(Seq(Unit)) /\ Len(EncodeEach(msgs)) = Len(msgs)
    BY <1>1, <1>3
  <1>5. Encodings(msgs) = FlattenSeq(EncodeEach(msgs))
    BY DEF Encodings, EncodeEach
  <1> QED
    BY <1>4, <1>5, FlattenInSeq

\* The encodings of two runs of messages, one after the other.
LEMMA EncodingsConcat ==
  ASSUME NEW a \in Seq(Messages), NEW b \in Seq(Messages)
  PROVE  Encodings(a \o b) = Encodings(a) \o Encodings(b)
  <1>1. a \o b \in Seq(Messages) /\ Len(a \o b) = Len(a) + Len(b)
    OBVIOUS
  <1>2. EncodeEach(a \o b) = EncodeEach(a) \o EncodeEach(b)
    <2> DEFINE x == EncodeEach(a \o b)
               y == EncodeEach(a) \o EncodeEach(b)
    <2>0. /\ EncodeEach(a) \in Seq(Seq(Unit)) /\ Len(EncodeEach(a)) = Len(a)
          /\ EncodeEach(b) \in Seq(Seq(Unit)) /\ Len(EncodeEach(b)) = Len(b)
          /\ x \in Seq(Seq(Unit)) /\ Len(x) = Len(a) + Len(b)
      BY <1>1, EncodingsType
    <2>1. /\ y \in Seq(Seq(Unit)) /\ Len(y) = Len(a) + Len(b)
          /\ \A i \in 1 .. Len(a) + Len(b) :
               y[i] = IF i <= Len(a) THEN EncodeEach(a)[i]
                                     ELSE EncodeEach(b)[i - Len(a)]
      <3> DEFINE p == EncodeEach(a)
                 q == EncodeEach(b)
      <3>1. /\ p \in Seq(Seq(Unit)) /\ Len(p) = Len(a)
            /\ q \in Seq(Seq(Unit)) /\ Len(q) = Len(b)
        BY <2>0
      <3> HIDE DEF p, q
      <3>2. /\ p \o q \in Seq(Seq(Unit)) /\ Len(p \o q) = Len(a) + Len(b)
            /\ \A i \in 1 .. Len(a) + Len(b) :
                 (p \o q)[i] = IF i <= Len(a) THEN p[i] ELSE q[i - Len(a)]
        <4>1. /\ p \o q \in Seq(Seq(Unit)) /\ Len(p \o q) = Len(p) + Len(q)
              /\ \A i \in 1 .. Len(p) + Len(q) :
                   (p \o q)[i] = IF i <= Len(p) THEN p[i] ELSE q[i - Len(p)]
          BY <3>1, ConcatProperties
        <4> QED
          BY <3>1, <4>1
      <3> QED
        BY <3>2 DEF p, q
    <2>2. ASSUME NEW i \in 1 .. Len(a) + Len(b) PROVE x[i] = y[i]
      <3>1. CASE i <= Len(a)
        <4>1. i \in DOMAIN a /\ i \in DOMAIN (a \o b) /\ (a \o b)[i] = a[i]
          BY <1>1, <3>1
        <4>2. x[i] = Encode(a[i]) /\ EncodeEach(a)[i] = Encode(a[i])
          BY <4>1 DEF EncodeEach
        <4>3. y[i] = EncodeEach(a)[i]
          BY <2>1, <3>1
        <4> QED
          BY <4>2, <4>3
      <3>2. CASE i > Len(a)
        <4>1. /\ i - Len(a) \in DOMAIN b /\ i \in DOMAIN (a \o b)
              /\ (a \o b)[i] = b[i - Len(a)]
          BY <1>1, <3>2
        <4>2. /\ x[i] = Encode(b[i - Len(a)])
              /\ EncodeEach(b)[i - Len(a)] = Encode(b[i - Len(a)])
          BY <4>1 DEF EncodeEach
        <4>3. y[i] = EncodeEach(b)[i - Len(a)]
          BY <2>1, <3>2
        <4> QED
          BY <4>2, <4>3
      <3> HIDE DEF x, y
      <3> QED
        BY <3>1, <3>2
    <2> HIDE DEF x, y
    <2>3. x = y
      BY <2>0, <2>1, <2>2, SeqEqual
    <2> QED
      BY <2>3 DEF x, y
  <1>3. EncodeEach(a) \in Seq(Seq(Unit)) /\ EncodeEach(b) \in Seq(Seq(Unit))
    BY EncodingsType
  <1>4. FlattenSeq(EncodeEach(a) \o EncodeEach(b))
          = FlattenSeq(EncodeEach(a)) \o FlattenSeq(EncodeEach(b))
    BY <1>3, FlattenConcat
  <1> QED
    BY <1>2, <1>4 DEF Encodings, EncodeEach

\* The encoding of a single message, and of none.
LEMMA EncodingsOne ==
  /\ \A m \in Messages : Encodings(<<m>>) = Encode(m)
  /\ Encodings(<<>>) = <<>>
  <1>1. ASSUME NEW m \in Messages PROVE Encodings(<<m>>) = Encode(m)
    <2>1. EncodeEach(<<m>>) = << Encode(m) >>
      BY DEF EncodeEach
    <2>2. <<m>> \in Seq(Messages)
      OBVIOUS
    <2>3. Encodings(<<m>>) = FlattenSeq(EncodeEach(<<m>>))
      BY <2>2, EncodingsType
    <2> QED
      BY <2>1, <2>3, EncodeType, FlattenSingleton
  <1>2. Encodings(<<>>) = <<>>
    BY DEF Encodings, FlattenSeq
  <1> QED
    BY <1>1, <1>2

-----------------------------------------------------------------------------
(* The content of the queue, of the buffer and of the file *)

\* The items in the places of a queue.
ValuesOf(queue) == [i \in DOMAIN queue |-> queue[i].val]

\* The items are messages; a reservation adds its item at the end, and a take
\* removes the first one.
LEMMA QueueValues ==
  ASSUME NEW queue \in Seq(Place)
  PROVE  /\ ValuesOf(queue) \in Seq(Messages)
         /\ Len(ValuesOf(queue)) = Len(queue)
         /\ \A x \in Place :
              ValuesOf(Append(queue, x)) = ValuesOf(queue) \o <<x.val>>
         /\ queue # <<>> =>
              ValuesOf(queue) = <<Head(queue).val>> \o ValuesOf(Tail(queue))
  <1>1. /\ Len(queue) \in Nat /\ DOMAIN queue = 1 .. Len(queue)
        /\ \A i \in 1 .. Len(queue) : queue[i].val \in Messages
    <2>1. \A i \in 1 .. Len(queue) : queue[i] \in Place
      OBVIOUS
    <2> QED
      BY <2>1 DEF Place
  <1>2. ValuesOf(queue) \in Seq(Messages) /\ Len(ValuesOf(queue)) = Len(queue)
    BY <1>1 DEF ValuesOf
  <1>3. ASSUME NEW x \in Place
        PROVE  ValuesOf(Append(queue, x)) = ValuesOf(queue) \o <<x.val>>
    <2>1. x.val \in Messages
      BY DEF Place
    <2> DEFINE v == ValuesOf(queue)
    <2>2. v \in Seq(Messages) /\ Len(v) = Len(queue)
      BY <1>2
    <2>3. \A i \in 1 .. Len(queue) : v[i] = queue[i].val
      BY <1>1 DEF ValuesOf
    <2> HIDE DEF v
    <2>4. v \o <<x.val>> = [i \in 1 .. Len(queue) + 1 |->
                              IF i = Len(queue) + 1 THEN x.val ELSE v[i]]
      BY <2>1, <2>2
    <2>5. ValuesOf(Append(queue, x))
            = [i \in 1 .. Len(queue) + 1 |->
                 IF i = Len(queue) + 1 THEN x.val ELSE queue[i].val]
      BY <1>1 DEF ValuesOf
    <2>6. ValuesOf(Append(queue, x)) = v \o <<x.val>>
      <3>1. \A i \in 1 .. Len(queue) + 1 :
              i # Len(queue) + 1 => v[i] = queue[i].val
        BY <1>1, <2>3
      <3> QED
        BY <2>4, <2>5, <3>1
    <2> QED
      BY <2>6 DEF v
  <1>4. ASSUME queue # <<>>
        PROVE  ValuesOf(queue) = <<Head(queue).val>> \o ValuesOf(Tail(queue))
    <2> DEFINE t == Tail(queue)
               v == ValuesOf(t)
    <2>1. /\ t \in Seq(Place) /\ Len(t) = Len(queue) - 1
          /\ \A i \in 1 .. Len(queue) - 1 : t[i] = queue[i + 1]
          /\ Head(queue) = queue[1] /\ Len(queue) \in Nat \ {0}
      BY <1>4
    <2> HIDE DEF t
    <2>2. /\ DOMAIN t = 1 .. Len(queue) - 1
          /\ \A i \in 1 .. Len(queue) - 1 : t[i].val \in Messages
      <3>1. \A i \in 1 .. Len(queue) - 1 : t[i] \in Place
        BY <2>1
      <3> QED
        BY <2>1, <3>1 DEF Place
    <2>3. /\ v \in Seq(Messages) /\ Len(v) = Len(queue) - 1
          /\ \A i \in 1 .. Len(queue) - 1 : v[i] = queue[i + 1].val
      BY <2>1, <2>2 DEF ValuesOf
    <2> HIDE DEF v
    <2>4. queue[1].val \in Messages
      BY <1>1, <2>1
    <2>5. <<queue[1].val>> \o v
            = [i \in 1 .. Len(queue) |->
                 IF i = 1 THEN queue[1].val ELSE v[i - 1]]
      BY <2>1, <2>3, <2>4
    <2>6. ValuesOf(queue) = [i \in 1 .. Len(queue) |-> queue[i].val]
      BY <1>1 DEF ValuesOf
    <2>7. \A i \in 1 .. Len(queue) : i # 1 => v[i - 1] = queue[i].val
      BY <2>1, <2>3
    <2>8. ValuesOf(queue) = <<queue[1].val>> \o v
      BY <2>5, <2>6, <2>7
    <2> QED
      BY <2>1, <2>8 DEF v, t
  <1> QED
    BY <1>2, <1>3, <1>4

\* For each cell its unit, or nothing if it is padding.
DataOf(content) ==
  [i \in DOMAIN content |-> IF content[i].pad THEN <<>>
                                              ELSE <<content[i].byte>>]

\* DataOf is a sequence of sequences, one for each cell.
LEMMA DataOfType ==
  ASSUME NEW content \in Seq(CellType)
  PROVE  /\ DataOf(content) \in Seq(Seq(Unit))
         /\ Len(DataOf(content)) = Len(content)
         /\ \A i \in 1 .. Len(content) :
              DataOf(content)[i] = IF content[i].pad THEN <<>>
                                                     ELSE <<content[i].byte>>
  <1>1. /\ Len(content) \in Nat /\ DOMAIN content = 1 .. Len(content)
        /\ \A i \in 1 .. Len(content) : content[i].byte \in Unit
    <2>1. \A i \in 1 .. Len(content) : content[i] \in CellType
      OBVIOUS
    <2> QED
      BY <2>1 DEF CellType
  <1>2. \A i \in 1 .. Len(content) :
          (IF content[i].pad THEN <<>> ELSE <<content[i].byte>>) \in Seq(Unit)
    BY <1>1
  <1>3. DataOf(content) \in [1 .. Len(content) -> Seq(Unit)]
    BY <1>1, <1>2 DEF DataOf
  <1> QED
    BY <1>1, <1>3 DEF DataOf

\* The data of a file after a write is that of the file before it, followed
\* by that of what was written.
LEMMA DataOfWritten ==
  ASSUME NEW old \in Seq(CellType), NEW new \in Seq(CellType)
  PROVE  FlattenSeq(DataOf(old \o new))
           = FlattenSeq(DataOf(old)) \o FlattenSeq(DataOf(new))
  <1> DEFINE all == old \o new
             x == DataOf(all)
             p == DataOf(old)
             q == DataOf(new)
  <1>1. /\ all \in Seq(CellType) /\ Len(all) = Len(old) + Len(new)
        /\ Len(old) \in Nat /\ Len(new) \in Nat
        /\ \A i \in 1 .. Len(old) + Len(new) :
             all[i] = IF i <= Len(old) THEN old[i] ELSE new[i - Len(old)]
    BY ConcatProperties
  <1> HIDE DEF all
  <1>2. /\ x \in Seq(Seq(Unit)) /\ Len(x) = Len(all)
        /\ \A i \in 1 .. Len(all) :
             x[i] = IF all[i].pad THEN <<>> ELSE <<all[i].byte>>
    BY <1>1, DataOfType
  <1>3. /\ p \in Seq(Seq(Unit)) /\ Len(p) = Len(old)
        /\ \A i \in 1 .. Len(old) :
             p[i] = IF old[i].pad THEN <<>> ELSE <<old[i].byte>>
        /\ q \in Seq(Seq(Unit)) /\ Len(q) = Len(new)
        /\ \A i \in 1 .. Len(new) :
             q[i] = IF new[i].pad THEN <<>> ELSE <<new[i].byte>>
    BY DataOfType
  <1> HIDE DEF x, p, q
  <1>4. /\ p \o q \in Seq(Seq(Unit)) /\ Len(p \o q) = Len(p) + Len(q)
        /\ \A i \in 1 .. Len(p) + Len(q) :
             (p \o q)[i] = IF i <= Len(p) THEN p[i] ELSE q[i - Len(p)]
    <2>1. p \in Seq(Seq(Unit)) /\ q \in Seq(Seq(Unit))
      BY <1>3
    <2> QED
      BY <2>1, ConcatProperties
  <1>5. ASSUME NEW i \in 1 .. Len(all) PROVE x[i] = (p \o q)[i]
    <2>1. CASE i <= Len(old)
      <3>1. i \in 1 .. Len(old) /\ all[i] = old[i] /\ (p \o q)[i] = p[i]
        BY <1>1, <1>3, <1>4, <2>1
      <3> QED
        BY <1>2, <1>3, <3>1
    <2>2. CASE i > Len(old)
      <3>1. /\ i - Len(old) \in 1 .. Len(new) /\ all[i] = new[i - Len(old)]
            /\ (p \o q)[i] = q[i - Len(old)]
        BY <1>1, <1>3, <1>4, <2>2
      <3> QED
        BY <1>2, <1>3, <3>1
    <2>3. i <= Len(old) \/ i > Len(old)
      BY <1>1
    <2> QED
      BY <2>1, <2>2, <2>3
  <1>6. x = p \o q
    BY <1>1, <1>2, <1>3, <1>4, <1>5, SeqEqual
  <1>7. FlattenSeq(p \o q) = FlattenSeq(p) \o FlattenSeq(q)
    BY <1>3, FlattenConcat
  <1> QED
    BY <1>6, <1>7 DEF x, p, q, all

(* How the parts of LogIntegrity move into each other *)

\* A message is queued.
LEMMA RegroupReserve ==
  \A f, q, e \in Seq(Unit) : (f \o q) \o e = f \o (q \o e)
  BY ConcatLaws

\* A message is taken from the queue.
LEMMA RegroupTake ==
  \A f, e, q \in Seq(Unit) : f \o <<>> \o (e \o q) = f \o e \o q
  <1> SUFFICES ASSUME NEW f \in Seq(Unit), NEW e \in Seq(Unit),
                      NEW q \in Seq(Unit)
               PROVE  f \o <<>> \o (e \o q) = f \o e \o q
    BY Zenon
  <1>1. f \o <<>> = f
    BY ConcatLaws
  <1>2. f \o e \o q = f \o (e \o q)
    BY RegroupReserve, Zenon
  <1> QED
    BY <1>1, <1>2, Zenon

\* A message is put into the buffer.
LEMMA RegroupPutInBuffer ==
  \A a, b, e \in Seq(Unit) : a \o (b \o e) \o <<>> = a \o b \o e
  <1> SUFFICES ASSUME NEW a \in Seq(Unit), NEW b \in Seq(Unit),
                      NEW e \in Seq(Unit)
               PROVE  a \o (b \o e) \o <<>> = a \o b \o e
    BY Zenon
  <1>2. \A x, y \in Seq(Unit) : x \o y \in Seq(Unit)
    BY ConcatLaws
  <1>3. b \o e \in Seq(Unit)
    BY <1>2, Zenon
  <1>4. a \o (b \o e) \in Seq(Unit)
    BY <1>2, <1>3, Zenon
  <1>5. a \o (b \o e) \o <<>> = a \o (b \o e)
    BY <1>4, ConcatLaws
  <1>6. a \o (b \o e) = a \o b \o e
    BY RegroupReserve, Zenon
  <1> QED
    BY <1>5, <1>6, Zenon

\* A message is put into the mapping, while the buffer is empty.
LEMMA RegroupPutInMapping ==
  \A a, e \in Seq(Unit) : (a \o e) \o <<>> \o <<>> = a \o <<>> \o e
  <1> SUFFICES ASSUME NEW a \in Seq(Unit), NEW e \in Seq(Unit)
               PROVE  (a \o e) \o <<>> \o <<>> = a \o <<>> \o e
    BY Zenon
  <1>1. a \o e \in Seq(Unit)
    BY ConcatLaws
  <1>2. a \o e \o <<>> = a \o e
    BY <1>1, ConcatLaws
  <1>3. a \o <<>> = a
    BY ConcatLaws
  <1> QED
    BY <1>2, <1>3, Zenon

-----------------------------------------------------------------------------
(* The parts of LogIntegrity *)

\* The front of a buffer.
LEMMA SubSeqFront ==
  ASSUME NEW S, NEW n \in Nat, NEW b \in [1 .. n -> S], NEW k \in 0 .. n
  PROVE  /\ SubSeq(b, 1, k) = [i \in 1 .. k |-> b[i]]
         /\ SubSeq(b, 1, k) \in Seq(S) /\ Len(SubSeq(b, 1, k)) = k
         /\ k = 0 => SubSeq(b, 1, k) = <<>>
  <1>1. b \in Seq(S)
    OBVIOUS
  <1>2. SubSeq(b, 1, k) = [i \in 1 .. k |-> b[i]]
    OBVIOUS
  <1>3. [i \in 1 .. k |-> b[i]] \in [1 .. k -> S]
    OBVIOUS
  <1> QED
    BY <1>2, <1>3

\* Each part of LogIntegrity is a sequence of units.
LEMMA PartsType ==
  ASSUME TypeOK, LoggerInv, DataType, PositionInv, Alive,
         ~ lost \/ write_mode # "MMAP"
  PROVE  /\ FileData \in Seq(Unit)
         /\ Buffered \in Seq(Unit)
         /\ InHand \in Seq(Unit)
         /\ QueuedMessages = ValuesOf(places)
         /\ QueuedMessages \in Seq(Messages)
         /\ Encodings(QueuedMessages) \in Seq(Unit)
         /\ Encodings(claimed) \in Seq(Unit)
  <1>1. FileData \in Seq(Unit)
    <2>1. CASE write_mode = "MMAP"
      <3>1. total_written \in Nat /\ total_written <= Len(file)
        BY <2>1 DEF TypeOK, PositionInv
      <3>2. \A i \in 1 .. total_written : file[i] \in CellType
        BY <3>1 DEF DataType
      <3>3. [i \in 1 .. total_written |-> file[i].byte]
              \in [1 .. total_written -> Unit]
        BY <3>2 DEF CellType
      <3> QED
        BY <2>1, <3>1, <3>3 DEF FileData
    <2>2. CASE write_mode # "MMAP"
      <3>1. FileData = FlattenSeq(DataOf(file))
        BY <2>2 DEF FileData, DataOf
      <3> QED
        BY <3>1, DataOfType, FlattenInSeq DEF DataType
    <2> QED
      BY <2>1, <2>2
  <1>2. Buffered \in Seq(Unit)
    BY SubSeqFront, Units DEF Buffered, TypeOK, DataType
  <1>3. InHand \in Seq(Unit)
    BY EncodeType DEF InHand, LoggerInv, HandInv
  <1>4. QueuedMessages = ValuesOf(places) /\ QueuedMessages \in Seq(Messages)
    BY QueueValues DEF QueuedMessages, ValuesOf, TypeOK, Place
  <1>5. /\ Encodings(QueuedMessages) \in Seq(Unit)
        /\ Encodings(claimed) \in Seq(Unit)
    BY <1>4, EncodingsType DEF DataType
  <1> QED
    BY <1>1, <1>2, <1>3, <1>4, <1>5

\* LogIntegrity holds after a step that moves no data.
LEMMA SameParts ==
  ASSUME LogIntegrity,
         FileData' = FileData, Buffered' = Buffered, InHand' = InHand,
         QueuedMessages' = QueuedMessages, claimed' = claimed,
         Alive' => Alive, lost => lost'
  PROVE  LogIntegrity'
  BY DEF LogIntegrity

\* FileData is a matter of the mode, the file and total_written_.
LEMMA SameFileData ==
  ASSUME write_mode' = write_mode, file' = file, total_written' = total_written
  PROVE  FileData' = FileData
  BY DEF FileData

-----------------------------------------------------------------------------
(* Alignment, and what flush() writes *)

\* Line 176: rounding up gives a multiple of ALIGNMENT, and the buffer is
\* large enough for it.
LEMMA RoundUpBounds ==
  ASSUME NEW n \in 0 .. BufferSize
  PROVE  /\ RoundUp(n) \in n .. BufferSize
         /\ RoundUp(n) % Alignment = 0
  <1> DEFINE A == Alignment
             x == (n + A - 1) \div A
             q == BufferSize \div A
  <1>1. A \in Nat \ {0} /\ BufferSize \in Nat /\ BufferSize % A = 0 /\ n \in Nat
    BY Units
  <1> HIDE DEF A
  <1>2. /\ x \in Nat /\ q \in Nat
        /\ x * A <= n + A - 1 /\ n + A - 1 < x * A + A
        /\ BufferSize = q * A
    BY <1>1
  <1> HIDE DEF x, q
  <1>3. x * A \in Nat /\ n <= x * A
    BY <1>1, <1>2
  <1>4. x <= q
    <2>1. x * A < (q + 1) * A
      BY <1>1, <1>2
    <2>2. x < q + 1
      BY <1>1, <1>2, <2>1
    <2> QED
      BY <1>2, <2>2
  <1>5. x * A <= BufferSize
    BY <1>1, <1>2, <1>4
  <1>6. (x * A) % A = 0
    BY <1>1, <1>2
  <1>7. RoundUp(n) = x * A
    BY DEF RoundUp, x, A
  <1> QED
    BY <1>1, <1>3, <1>5, <1>6, <1>7 DEF A

\* A file of aligned length stays aligned when an aligned number is added.
LEMMA SumAligned ==
  ASSUME NEW a \in Nat, NEW b \in Nat, a % Alignment = 0, b % Alignment = 0
  PROVE  (a + b) % Alignment = 0
  <1> DEFINE A == Alignment
             x == a \div A
             y == b \div A
  <1>1. A \in Nat \ {0}
    BY Units
  <1>2. x \in Nat /\ y \in Nat /\ a = x * A /\ b = y * A
    BY <1>1
  <1> HIDE DEF A, x, y
  <1>3. a + b = (x + y) * A
    BY <1>1, <1>2
  <1>4. ((x + y) * A) % A = 0
    BY <1>1, <1>2
  <1> QED
    BY <1>3, <1>4 DEF A

\* flush() moves the front of the buffer behind the data of the file, without
\* the padding, unless the write fails or is short; in DIRECT mode it writes
\* whole units of ALIGNMENT.  A write that fails without being short leaves
\* file and counter alone.
LEMMA FlushData ==
  ASSUME TypeOK, LoggerInv, DataInv, Flush,
         write_mode' = write_mode, write_buffer' = write_buffer
  PROVE  /\ file' \in Seq(CellType)
         /\ ~ lost' /\ write_mode = "DIRECT" => Len(file') % Alignment = 0
         /\ write_mode = "MMAP" => UNCHANGED <<file, total_written>>
         /\ lost => lost'
         /\ buffer_offset' = 0
         /\ Buffered' = <<>>
         /\ Alive /\ ~ lost' => FileData' = FileData \o Buffered
         /\ write_mode # "MMAP" /\ "short" \notin Faults =>
              \/ /\ FileData' = FileData
                 /\ total_written' = total_written
              \/ /\ FileData' = FileData \o Buffered
                 /\ total_written' = total_written + buffer_offset
  <1> USE DEF DataInv
  <1>1. /\ buffer_offset \in 0 .. BufferSize /\ BufferSize \in Nat
        /\ file \in Seq(CellType) /\ write_buffer \in [1 .. BufferSize -> Unit]
    BY Units DEF TypeOK, DataType
  <1>2. /\ buffer_offset' = 0
        /\ write_mode = "MMAP" => /\ UNCHANGED <<file, total_written>>
                                  /\ buffer_offset = 0
    BY DEF Flush, LoggerInv, SpaceInv
  <1>3. Buffered' = <<>>
    BY <1>1, <1>2, SubSeqFront DEF Buffered
  <1>4. CASE buffer_offset = 0
    <2>1. UNCHANGED <<file, total_written, lost>>
      BY <1>4 DEF Flush
    <2>2. Buffered = <<>>
      BY <1>1, <1>4, SubSeqFront DEF Buffered
    <2>3. FileData' = FileData
      BY <2>1, SameFileData
    <2>4. Alive /\ ~ lost => FileData = FileData \o Buffered
      BY <2>2, PartsType, ConcatLaws
    <2>5. file' \in Seq(CellType)
          /\ (~ lost' /\ write_mode = "DIRECT" => Len(file') % Alignment = 0)
      BY <1>1, <2>1 DEF PositionInv
    <2> QED
      BY <1>2, <1>3, <2>1, <2>3, <2>4, <2>5
  <1>5. CASE buffer_offset > 0
    <2>1. write_mode # "MMAP"
      BY <1>2, <1>5
    <2>2. PICK n \in WriteResults(BytesToWrite) :
            /\ lost' = (lost \/ n < BytesToWrite)
            /\ file' = file \o [i \in 1 .. n |-> [byte |-> write_buffer[i],
                                                  pad |-> i > buffer_offset]]
            /\ total_written' = IF n > 0 THEN total_written + buffer_offset
                                         ELSE total_written
      <3>1. buffer_offset # 0
        BY <1>1, <1>5
      <3> QED
        BY <2>1, <3>1, Zenon DEF Flush
    <2>3. /\ BytesToWrite \in buffer_offset .. BufferSize
          /\ write_mode = "DIRECT" => BytesToWrite % Alignment = 0
      BY <1>1, RoundUpBounds DEF BytesToWrite
    <2>4. n \in 0 .. BytesToWrite /\ (~ lost' => n = BytesToWrite /\ ~ lost)
      <3>1. n \in 0 .. BytesToWrite
        BY <1>1, <2>3 DEF WriteResults
      <3>2. ~ lost' => ~ (n < BytesToWrite) /\ ~ lost
        BY <2>2, Zenon
      <3> QED
        BY <1>1, <2>3, <3>1, <3>2
    <2> DEFINE new == [i \in 1 .. n |-> [byte |-> write_buffer[i],
                                         pad |-> i > buffer_offset]]
    <2>5. /\ new \in Seq(CellType) /\ Len(new) = n
          /\ \A i \in 1 .. n : /\ new[i].byte = write_buffer[i]
                               /\ i > buffer_offset => new[i].pad
                               /\ i <= buffer_offset => ~ new[i].pad
      <3>1. n \in Nat /\ \A i \in 1 .. n : write_buffer[i] \in Unit
        BY <1>1, <2>3, <2>4
      <3>2. new \in [1 .. n -> CellType]
        BY <3>1 DEF CellType
      <3>3. \A i \in 1 .. n : /\ new[i].byte = write_buffer[i]
                               /\ new[i].pad <=> (i > buffer_offset)
        BY Zenon
      <3>4. \A i \in 1 .. n : i <= buffer_offset => ~ (i > buffer_offset)
        BY <1>1
      <3> QED
        BY <3>1, <3>2, <3>3, <3>4
    <2> HIDE DEF new
    <2>6. file' = file \o new
      BY <2>2 DEF new
    <2>7. file' \in Seq(CellType) /\ Len(file') = Len(file) + n
      <3>1. file \in Seq(CellType) /\ new \in Seq(CellType)
        BY <1>1, <2>5
      <3>2. file \o new \in Seq(CellType) /\ Len(file \o new) = Len(file) + Len(new)
        BY <3>1, ConcatProperties
      <3> QED
        BY <2>5, <2>6, <3>2
    <2>8. ~ lost' /\ write_mode = "DIRECT" => Len(file') % Alignment = 0
      BY <1>1, <2>3, <2>4, <2>7, SumAligned DEF PositionInv
    <2>9. ASSUME n = BytesToWrite PROVE FileData' = FileData \o Buffered
      <3>1. n = BytesToWrite
        BY <2>9
      <3>2. FileData = FlattenSeq(DataOf(file))
        BY <2>1 DEF FileData, DataOf
      <3>3. FileData' = FlattenSeq(DataOf(file'))
        BY <2>1 DEF FileData, DataOf
      <3>4. FlattenSeq(DataOf(file'))
              = FlattenSeq(DataOf(file)) \o FlattenSeq(DataOf(new))
        BY <1>1, <2>5, <2>6, DataOfWritten
      <3>5. FlattenSeq(DataOf(new)) = Buffered
        <4> DEFINE w == [i \in 1 .. buffer_offset |-> write_buffer[i]]
        <4>1. Buffered = w
          BY <1>1, SubSeqFront DEF Buffered
        <4>2. /\ w \in [1 .. buffer_offset -> Unit]
              /\ \A i \in 1 .. buffer_offset : w[i] = write_buffer[i]
          BY <1>1
        <4> HIDE DEF w
        <4>3. buffer_offset \in 0 .. n /\ n \in Nat
          BY <1>1, <2>3, <3>1
        <4> DEFINE ss == DataOf(new)
        <4>4. /\ ss \in Seq(Seq(Unit)) /\ Len(ss) = n
              /\ \A i \in 1 .. n :
                   ss[i] = IF new[i].pad THEN <<>> ELSE <<new[i].byte>>
          BY <2>5, DataOfType
        <4> HIDE DEF ss
        <4>5. \A i \in 1 .. n :
                ss[i] = IF i <= buffer_offset THEN <<w[i]>> ELSE <<>>
          <5> SUFFICES ASSUME NEW i \in 1 .. n
              PROVE ss[i] = IF i <= buffer_offset THEN <<w[i]>> ELSE <<>>
            OBVIOUS
          <5>1. CASE i <= buffer_offset
            <6>1. ~ new[i].pad /\ new[i].byte = write_buffer[i]
              BY <2>5, <5>1
            <6>2. ss[i] = <<new[i].byte>>
              BY <4>4, <6>1, Zenon
            <6>3. w[i] = write_buffer[i]
              BY <4>2, <4>3, <5>1
            <6> QED
              BY <5>1, <6>1, <6>2, <6>3
          <5>2. CASE i > buffer_offset
            <6>1. new[i].pad
              BY <2>5, <5>2
            <6>2. ss[i] = <<>>
              BY <4>4, <6>1, Zenon
            <6> QED
              BY <4>3, <5>2, <6>2
          <5> QED
            BY <4>3, <5>1, <5>2
        <4>6. FlattenSeq(ss) = w
          BY <4>2, <4>3, <4>4, <4>5, FlattenUnits
        <4> QED
          BY <4>1, <4>6 DEF ss
      <3> QED
        BY <3>2, <3>3, <3>4, <3>5
    <2>10. ASSUME "short" \notin Faults
           PROVE  \/ /\ FileData' = FileData
                     /\ total_written' = total_written
                  \/ /\ FileData' = FileData \o Buffered
                     /\ total_written' = total_written + buffer_offset
      <3>1. n = BytesToWrite \/ n = 0
        BY <2>10 DEF WriteResults
      <3>2. CASE n = BytesToWrite
        <4>1. n > 0
          BY <1>1, <1>5, <2>3, <3>2
        <4> QED
          BY <2>2, <2>9, <3>2, <4>1
      <3>3. CASE n = 0
        <4>1. new = <<>>
          BY <2>5, <3>3, EmptySeq
        <4>2. file' = file
          BY <1>1, <2>6, <4>1, ConcatLaws
        <4>3. total_written' = total_written
          BY <2>2, <3>3
        <4> QED
          BY <4>2, <4>3, SameFileData
      <3> QED
        BY <3>1, <3>2, <3>3
    <2>11. Alive /\ ~ lost' => FileData' = FileData \o Buffered
      BY <2>4, <2>9
    <2>12. lost => lost'
      BY <2>2, Zenon
    <2> QED
      BY <1>2, <1>3, <2>1, <2>7, <2>8, <2>10, <2>11, <2>12
  <1> QED
    BY <1>1, <1>4, <1>5

-----------------------------------------------------------------------------
(* One lemma per operation *)

\* The state of the constructor.
LEMMA DataInit == Init => DataInv
  <1> SUFFICES ASSUME Init PROVE DataInv
    OBVIOUS
  <1> USE DEF Init, Queue!Init
  <1>1. DataType
    BY DEF DataType, Unit
  <1>2. PositionInv
    <2>1. call[Worker] = "none"
      BY DEF Queue!Threads
    <2>2. Len(file) = 0 /\ 0 % Alignment = 0
      BY Units
    <2> QED
      BY <2>1, <2>2 DEF PositionInv
  <1>3. LogIntegrity
    <2>1. FileData = <<>>
      <3>1. [i \in 1 .. total_written |-> file[i].byte] = <<>>
        OBVIOUS
      <3>2. DataOf(file) = <<>>
        BY DEF DataOf
      <3> QED
        BY <3>1, <3>2 DEF FileData, DataOf, FlattenSeq
    <2>2. Buffered = <<>>
      BY <1>1, Units, SubSeqFront DEF Buffered, DataType
    <2>3. InHand = <<>>
      BY DEF InHand, Queue!Threads
    <2>4. QueuedMessages = <<>> /\ claimed = <<>>
      BY DEF QueuedMessages
    <2>5. <<>> \o <<>> \o <<>> \o <<>> = <<>>
      OBVIOUS
    <2> QED
      BY <2>1, <2>2, <2>3, <2>4, <2>5, EncodingsOne DEF LogIntegrity
  <1> QED
    BY <1>1, <1>2, <1>3 DEF DataInv

\* log(): a reservation puts its message at the end of the queue and of the
\* claimed messages, and the other steps move nothing.
LEMMA DataLog ==
  ASSUME TypeOK, LoggerInv, DataInv, NEW p \in Producers, Log(p)
  PROVE  DataInv'
  <1> USE ThreadNames DEF DataInv
  <1>1. UNCHANGED <<file, write_buffer, buffer_offset, total_written,
                    write_mode, running, cpc, wpc, lost>>
    BY DEF Log, LogCall, LogReserve, LogReturn, fileVars, bufferVars,
           controlVars, workerVars, history
  <1>2. item'[Worker] = item[Worker] /\ call'[Worker] = call[Worker]
    BY DEF Log, LogCall, LogReserve, LogReturn, Queue!BeginEnqueue,
           Queue!Begin, Queue!Reserve, Queue!Commit, Queue!RefuseEnqueue,
           Queue!End, TypeOK
  <1>3. PositionInv'
    BY <1>1, <1>2 DEF PositionInv, Alive
  <1>4. /\ FileData' = FileData /\ Buffered' = Buffered /\ InHand' = InHand
        /\ Alive' = Alive
    <2>1. FileData' = FileData
      BY <1>1, SameFileData
    <2> QED
      BY <1>1, <1>2, <2>1 DEF Buffered, InHand, Alive
  <1>5. CASE LogReserve(p)
    <2>1. item[p] \in Messages /\ claimed \in Seq(Messages)
      BY <1>5 DEF LogReserve, Queue!Reserve, LoggerInv, HandInv, DataType
    <2>2. claimed' = claimed \o <<item[p]>> /\ claimed' \in Seq(Messages)
      BY <1>5, <2>1 DEF LogReserve
    <2>3. DataType'
      BY <1>1, <2>2 DEF DataType
    <2>4. ASSUME Alive, ~ lost
          PROVE  FileData \o Buffered \o InHand \o Encodings(QueuedMessages')
                   = Encodings(claimed')
      <3> DEFINE e == Encode(item[p])
                 q == Encodings(QueuedMessages)
      <3>1. /\ FileData \in Seq(Unit) /\ Buffered \in Seq(Unit)
            /\ InHand \in Seq(Unit) /\ q \in Seq(Unit)
            /\ QueuedMessages = ValuesOf(places)
            /\ QueuedMessages \in Seq(Messages)
        BY <2>4, PartsType
      <3>2. e \in Seq(Unit)
        BY <2>1, EncodeType
      <3>3. QueuedMessages' = QueuedMessages \o <<item[p]>>
        <4>1. places \in Seq(Place) /\ [val |-> item[p], owner |-> p] \in Place
          BY <2>1 DEF TypeOK, Place
        <4>2. places' = Append(places, [val |-> item[p], owner |-> p])
          BY <1>5 DEF LogReserve, Queue!Reserve
        <4>3. ValuesOf(places') = ValuesOf(places) \o <<item[p]>>
          BY <4>1, <4>2, QueueValues
        <4> QED
          BY <3>1, <4>3 DEF QueuedMessages, ValuesOf
      <3>4. <<item[p]>> \in Seq(Messages) /\ Encodings(<<item[p]>>) = e
        BY <2>1, EncodingsOne
      <3>5. Encodings(QueuedMessages') = q \o e
        BY <3>1, <3>3, <3>4, EncodingsConcat
      <3>6. Encodings(claimed') = Encodings(claimed) \o e
        BY <2>1, <2>2, <3>4, EncodingsConcat
      <3>7. FileData \o Buffered \o InHand \o q = Encodings(claimed)
        BY <2>4 DEF LogIntegrity
      <3> HIDE DEF e, q
      <3>8. FileData \o Buffered \o InHand \o (q \o e)
              = (FileData \o Buffered \o InHand \o q) \o e
        <4> DEFINE f == FileData \o Buffered \o InHand
        <4>1. f \in Seq(Unit)
          BY <3>1, ConcatLaws
        <4> HIDE DEF f
        <4>2. f \o (q \o e) = (f \o q) \o e
          BY <3>1, <3>2, <4>1, RegroupReserve, Zenon
        <4> QED
          BY <4>2, Zenon DEF f
      <3> QED
        BY <3>5, <3>6, <3>7, <3>8
    <2>5. LogIntegrity'
      BY <1>1, <1>4, <2>4 DEF LogIntegrity
    <2> QED
      BY <1>3, <2>3, <2>5
  <1>6. CASE ~ LogReserve(p)
    <2>1. claimed' = claimed
      BY <1>6 DEF Log, LogCall, LogReturn, history
    <2>2. QueuedMessages' = QueuedMessages
      BY <1>6 DEF Log, LogCall, LogReturn, Queue!BeginEnqueue, Queue!Commit,
                  Queue!RefuseEnqueue, QueuedMessages
    <2>3. DataType'
      BY <1>1, <2>1 DEF DataType
    <2>4. LogIntegrity'
      BY <1>1, <1>4, <2>1, <2>2, SameParts
    <2> QED
      BY <1>3, <2>3, <2>4
  <1> QED
    BY <1>5, <1>6

\* The worker's calls of try_dequeue: a take moves the first message of the
\* queue into the worker's hands.
LEMMA DataDequeue ==
  ASSUME TypeOK, LoggerInv, DataInv, LoopTest \/ Dequeue \/ DequeueFails
  PROVE  DataInv'
  <1> USE ThreadNames DEF DataInv
  <1>1. UNCHANGED <<file, write_buffer, buffer_offset, total_written,
                    write_mode, running, cpc, claimed, lost>>
    BY DEF LoopTest, Dequeue, DequeueFails, fileVars, bufferVars,
           controlVars, history
  <1>2. Alive /\ wpc \in {"check", "deq"} /\ wpc' # "put"
    BY DEF LoopTest, Dequeue, DequeueFails, Alive
  <1>3. /\ call'[Worker] # "none" => wpc' = "deq"
        /\ Worker \in Producers \cup {Worker}
    BY DEF LoopTest, Dequeue, DequeueFails, TypeOK, Queue!BeginDequeue,
           Queue!Begin, Queue!Take, Queue!Free, Queue!RefuseDequeue, Queue!End
  <1>4. DataType' /\ PositionInv'
    BY <1>1, <1>2, <1>3 DEF DataType, PositionInv, Alive
  <1>5. FileData' = FileData /\ Buffered' = Buffered
    BY <1>1, SameFileData DEF Buffered
  <1>6. CASE Queue!Take(Worker)
    <2>1. InHand = <<>> /\ InHand' = Encode(item'[Worker])
      BY <1>2, <1>6 DEF Queue!Take, TypeOK, InHand
    <2>2. places \in Seq(Place) /\ places # <<>>
      BY <1>6 DEF Queue!Take, Queue!FirstFilled, TypeOK, Place
    <2>3. /\ places' = Tail(places)
          /\ item'[Worker] = Head(places).val
      BY <1>6 DEF Queue!Take, TypeOK
    <2>4. Head(places) \in Place /\ Tail(places) \in Seq(Place)
      BY <2>2
    <2>5. item'[Worker] \in Messages
      BY <2>3, <2>4 DEF Place
    <2>6. ASSUME ~ lost
          PROVE  FileData \o Buffered \o Encode(item'[Worker])
                   \o Encodings(QueuedMessages') = Encodings(claimed)
      <3> DEFINE e == Encode(item'[Worker])
                 q == Encodings(QueuedMessages')
      <3>1. /\ FileData \in Seq(Unit) /\ Buffered \in Seq(Unit)
            /\ QueuedMessages = ValuesOf(places)
        BY <1>2, <2>6, PartsType
      <3>2. e \in Seq(Unit)
        BY <2>5, EncodeType
      <3>3. /\ QueuedMessages' = ValuesOf(places')
            /\ QueuedMessages' \in Seq(Messages)
        BY <2>3, <2>4, QueueValues DEF QueuedMessages, ValuesOf
      <3>4. q \in Seq(Unit)
        BY <3>3, EncodingsType
      <3>5. QueuedMessages = <<item'[Worker]>> \o QueuedMessages'
        BY <2>2, <2>3, <3>1, <3>3, QueueValues
      <3>6. /\ <<item'[Worker]>> \in Seq(Messages)
            /\ Encodings(<<item'[Worker]>>) = e
        BY <2>5, EncodingsOne
      <3>7. Encodings(QueuedMessages) = e \o q
        BY <3>3, <3>5, <3>6, EncodingsConcat
      <3>8. FileData \o Buffered \o <<>> \o (e \o q) = Encodings(claimed)
        BY <1>2, <2>1, <2>6, <3>7 DEF LogIntegrity
      <3> HIDE DEF e, q
      <3>9. FileData \o Buffered \o <<>> \o (e \o q)
              = FileData \o Buffered \o e \o q
        <4> DEFINE f == FileData \o Buffered
        <4>1. f \in Seq(Unit)
          BY <3>1, ConcatLaws
        <4> HIDE DEF f
        <4>2. f \o <<>> \o (e \o q) = f \o e \o q
          BY <3>2, <3>4, <4>1, RegroupTake, Zenon
        <4> QED
          BY <4>2, Zenon DEF f
      <3> QED
        BY <3>8, <3>9 DEF e, q
    <2>7. LogIntegrity'
      BY <1>1, <1>5, <2>1, <2>6 DEF LogIntegrity
    <2> QED
      BY <1>4, <2>7
  <1>7. CASE ~ Queue!Take(Worker)
    <2>1. /\ places' = places /\ item' = item
          /\ call[Worker] = "taken" <=> wpc' = "room"
          /\ call'[Worker] # "taken"
      BY <1>7 DEF LoopTest, Dequeue, DequeueFails, TypeOK, PositionInv,
                  Queue!BeginDequeue, Queue!Begin, Queue!Free,
                  Queue!RefuseDequeue, Queue!End
    <2>2. InHand' = InHand
      BY <1>2, <2>1 DEF InHand
    <2>3. QueuedMessages' = QueuedMessages
      BY <2>1 DEF QueuedMessages
    <2>4. LogIntegrity'
      BY <1>1, <1>2, <1>5, <2>2, <2>3, SameParts
    <2> QED
      BY <1>4, <2>4
  <1> QED
    BY <1>6, <1>7

\* LogIntegrity holds after a step that only flushes.
LEMMA IntegrityFlush ==
  ASSUME TypeOK, LoggerInv, DataInv, Flush,
         write_mode' = write_mode, write_buffer' = write_buffer,
         places' = places, claimed' = claimed, InHand' = InHand,
         Alive' => Alive
  PROVE  LogIntegrity'
  <1> SUFFICES ASSUME Alive', ~ lost'
               PROVE  FileData' \o Buffered' \o InHand'
                        \o Encodings(QueuedMessages') = Encodings(claimed')
    BY DEF LogIntegrity
  <1>1. /\ FileData' = FileData \o Buffered /\ Buffered' = <<>>
        /\ Alive /\ ~ lost
    BY FlushData
  <1>2. FileData \in Seq(Unit) /\ Buffered \in Seq(Unit)
    BY <1>1, PartsType DEF DataInv
  <1>3. FileData \o Buffered \in Seq(Unit)
    BY <1>2, ConcatLaws
  <1>4. FileData \o Buffered \o <<>> = FileData \o Buffered
    BY <1>3, ConcatLaws
  <1>5. QueuedMessages' = QueuedMessages
    BY DEF QueuedMessages
  <1>6. FileData \o Buffered \o InHand \o Encodings(QueuedMessages)
          = Encodings(claimed)
    BY <1>1 DEF DataInv, LogIntegrity
  <1> QED
    BY <1>1, <1>4, <1>5, <1>6

\* flush() of an idle worker, and in front of a message that does not fit.
LEMMA DataFlushWorker ==
  ASSUME TypeOK, LoggerInv, DataInv, FlushWhenEmpty \/ MakeRoomInBuffer
  PROVE  DataInv'
  <1>1. UNCHANGED <<places, call, item, write_mode, running, cpc,
                    write_buffer, claimed>>
    BY DEF FlushWhenEmpty, MakeRoomInBuffer, queueVars, controlVars
  <1>2. /\ wpc \in {"flush", "room"} /\ wpc' \in {"check", "put"}
        /\ wpc = "room" <=> wpc' = "put"
    BY DEF FlushWhenEmpty, MakeRoomInBuffer
  <1>3. call[Worker] = "none" /\ Alive /\ Alive' /\ (running \/ cpc = "join")
    BY <1>2 DEF DataInv, PositionInv, Alive, LoggerInv, LifeCycle
  <1>4. InHand' = InHand
    BY <1>1, <1>2, <1>3 DEF InHand
  <1>5. CASE Flush
    <2>1. LogIntegrity'
      BY <1>1, <1>3, <1>4, <1>5, IntegrityFlush
    <2>2. DataType' /\ PositionInv'
      BY <1>1, <1>3, <1>5, FlushData DEF DataInv, DataType, PositionInv
    <2> QED
      BY <2>1, <2>2 DEF DataInv
  <1>6. CASE ~ Flush
    <2>1. UNCHANGED <<file, total_written, buffer_offset, lost>>
      BY <1>6 DEF FlushWhenEmpty, MakeRoomInBuffer
    <2>2. FileData' = FileData /\ Buffered' = Buffered
      BY <1>1, <2>1, SameFileData DEF Buffered
    <2>3. QueuedMessages' = QueuedMessages
      BY <1>1 DEF QueuedMessages
    <2>4. LogIntegrity'
      BY <1>1, <1>3, <1>4, <2>1, <2>2, <2>3, SameParts DEF DataInv
    <2>5. DataType' /\ PositionInv'
      BY <1>1, <1>3, <2>1 DEF DataInv, DataType, PositionInv
    <2> QED
      BY <2>4, <2>5 DEF DataInv
  <1> QED
    BY <1>5, <1>6

\* ftruncate keeps the cells it does not cut off.
LEMMA ResizeKeeps ==
  ASSUME NEW content \in Seq(CellType), NEW n \in Nat
  PROVE  /\ Resize(content, n) \in Seq(CellType)
         /\ Len(Resize(content, n)) = n
         /\ \A i \in 1 .. n :
              i <= Len(content) => Resize(content, n)[i] = content[i]
  <1>1. Cell(Zero) \in CellType
    BY DEF Cell, CellType, Unit
  <1>2. Resize(content, n) \in [1 .. n -> CellType]
    BY <1>1 DEF Resize
  <1> QED
    BY <1>2 DEF Resize

\* A copy leaves what is in front of it and puts its units in their order.
LEMMA OverwriteEffect ==
  ASSUME NEW S, NEW n \in Nat, NEW units \in [1 .. n -> S], NEW at \in Nat,
         NEW new \in Seq(S), at + Len(new) <= n
  PROVE  /\ Overwrite(units, at, new) \in [1 .. n -> S]
         /\ \A i \in 1 .. at : Overwrite(units, at, new)[i] = units[i]
         /\ \A i \in at + 1 .. at + Len(new) :
              Overwrite(units, at, new)[i] = new[i - at]
  <1>1. Len(new) \in Nat /\ \A i \in 1 .. Len(new) : new[i] \in S
    OBVIOUS
  <1>2. DOMAIN units = 1 .. n
    OBVIOUS
  <1>3. \A i \in 1 .. n : i > at /\ i <= at + Len(new) => i - at \in 1 .. Len(new)
    BY <1>1
  <1>4. \A i \in 1 .. n :
          Overwrite(units, at, new)[i]
            = IF i > at /\ i <= at + Len(new) THEN new[i - at] ELSE units[i]
    BY <1>2 DEF Overwrite
  <1>5. Overwrite(units, at, new) \in [1 .. n -> S]
    BY <1>1, <1>2, <1>3 DEF Overwrite
  <1>6. \A i \in 1 .. at : i \in 1 .. n /\ ~ (i > at)
    BY <1>1
  <1>7. \A i \in at + 1 .. at + Len(new) :
          i \in 1 .. n /\ i > at /\ i <= at + Len(new)
    BY <1>1
  <1> QED
    BY <1>4, <1>5, <1>6, <1>7

\* The data of a mapped file is its front.
LEMMA SameMappedData ==
  ASSUME write_mode = "MMAP", write_mode' = write_mode,
         total_written' = total_written,
         \A i \in 1 .. total_written : file'[i] = file[i]
  PROVE  FileData' = FileData
  BY DEF FileData

\* expand_mmap() keeps the data, whichever of its system calls fails.
LEMMA DataMakeRoomInMapping ==
  ASSUME TypeOK, LoggerInv, DataInv, MakeRoomInMapping
  PROVE  DataInv'
  <1> USE DEF DataInv
  <1>1. /\ UNCHANGED <<places, call, item, write_mode, running, cpc,
                       write_buffer, buffer_offset, total_written, claimed,
                       lost>>
        /\ wpc = "room" /\ write_mode = "MMAP"
        /\ wpc' \in {"put", "terminated"}
    BY DEF MakeRoomInMapping, ExpandMmap, queueVars, bufferVars, controlVars,
           history
  <1>2. /\ mmap_size \in Nat /\ total_written \in Nat
        /\ total_written <= 2 * mmap_size
        /\ file \in Seq(CellType) /\ Len(file) \in Nat
    BY <1>1 DEF TypeOK, LoggerInv, SpaceInv, DataType
  <1>3. file' = file \/ file' = Resize(file, 2 * mmap_size)
    BY DEF MakeRoomInMapping, ExpandMmap
  <1> DEFINE n == 2 * mmap_size
             r == Resize(file, n)
  <1>4. /\ n \in Nat /\ r \in Seq(CellType) /\ Len(r) = n
        /\ \A i \in 1 .. n : i <= Len(file) => r[i] = file[i]
    <2>1. n \in Nat
      BY <1>2
    <2> HIDE DEF n
    <2> QED
      BY <1>2, <2>1, ResizeKeeps
  <1>5. total_written <= Len(file) =>
          /\ total_written <= Len(file')
          /\ \A i \in 1 .. total_written : file'[i] = file[i]
    <2>1. file' = file \/ file' = r
      BY <1>3
    <2>2. total_written <= n
      BY <1>2
    <2> HIDE DEF r, n
    <2> QED
      BY <1>2, <1>4, <2>1, <2>2
  <1>6. call[Worker] = "none" /\ Alive /\ (running \/ cpc = "join")
    BY <1>1 DEF PositionInv, Alive, LoggerInv, LifeCycle
  <1>7. DataType' /\ PositionInv'
    <2>1. file' \in Seq(CellType)
      BY <1>2, <1>3, <1>4
    <2> HIDE DEF r, n
    <2> QED
      BY <1>1, <1>5, <1>6, <2>1 DEF DataType, PositionInv
  <1>8. LogIntegrity'
    <2> SUFFICES ASSUME Alive', ~ lost PROVE LogIntegrity'
      BY <1>1 DEF LogIntegrity
    <2>1. FileData' = FileData
      BY <1>1, <1>5, <1>6, SameMappedData DEF PositionInv
    <2>2. Buffered' = Buffered /\ QueuedMessages' = QueuedMessages
      BY <1>1 DEF Buffered, QueuedMessages
    <2>3. InHand' = InHand
      BY <1>1 DEF InHand, Alive
    <2> QED
      BY <1>1, <1>6, <2>1, <2>2, <2>3, SameParts
  <1> QED
    BY <1>7, <1>8

\* The copy extends the filled part of the buffer by the message.
LEMMA PutInBufferEffect ==
  ASSUME TypeOK, LoggerInv, DataType, PutInBuffer
  PROVE  /\ write_buffer' \in [1 .. BufferSize -> Unit]
         /\ Buffered' = Buffered \o Encode(item[Worker])
  <1> DEFINE m == item[Worker]
             e == Encode(m)
             n == buffer_offset
  <1>1. /\ UNCHANGED <<places, call, item, write_mode, running, cpc, file,
                       total_written, claimed, lost>>
        /\ wpc = "put" /\ wpc' = "check" /\ write_mode # "MMAP"
        /\ write_buffer' = Overwrite(write_buffer, n, e)
        /\ buffer_offset' = n + Size[m]
    BY DEF PutInBuffer, queueVars, fileVars, controlVars, history
  <1>2. /\ e \in Seq(Unit) /\ Len(e) = Size[m] /\ Size[m] \in Nat
        /\ n \in Nat /\ BufferSize \in Nat /\ n + Size[m] <= BufferSize
        /\ write_buffer \in [1 .. BufferSize -> Unit]
    BY <1>1, EncodeType, Units
       DEF LoggerInv, HandInv, SpaceInv, RoomForMessage, TypeOK, DataType
  <1>3. /\ write_buffer' \in [1 .. BufferSize -> Unit]
        /\ \A i \in 1 .. n : write_buffer'[i] = write_buffer[i]
        /\ \A i \in n + 1 .. n + Len(e) : write_buffer'[i] = e[i - n]
    <2> DEFINE o == Overwrite(write_buffer, n, e)
    <2> HIDE DEF e, n
    <2>1. n + Len(e) <= BufferSize
      BY <1>2
    <2>2. /\ o \in [1 .. BufferSize -> Unit]
          /\ \A i \in 1 .. n : o[i] = write_buffer[i]
          /\ \A i \in n + 1 .. n + Len(e) : o[i] = e[i - n]
      BY <1>2, <2>1, OverwriteEffect
    <2> QED
      BY <1>1, <2>2
  <1>4. Buffered' = Buffered \o e
    <2> DEFINE b == Buffered
               c == Buffered'
    <2>1. /\ b \in Seq(Unit) /\ Len(b) = n
          /\ \A i \in 1 .. n : b[i] = write_buffer[i]
      BY <1>2, SubSeqFront DEF Buffered
    <2>2. /\ c \in Seq(Unit) /\ Len(c) = n + Size[m]
          /\ \A i \in 1 .. n + Size[m] : c[i] = write_buffer'[i]
      <3>1. /\ buffer_offset' \in 0 .. BufferSize
            /\ c = SubSeq(write_buffer', 1, buffer_offset')
        BY <1>1, <1>2 DEF Buffered
      <3> DEFINE k == buffer_offset'
                 u == write_buffer'
      <3>2. /\ u \in [1 .. BufferSize -> Unit] /\ k \in 0 .. BufferSize
            /\ BufferSize \in Nat /\ k = n + Size[m]
        BY <1>1, <1>2, <1>3, <3>1
      <3> HIDE DEF c, k, u
      <3>3. /\ SubSeq(u, 1, k) \in Seq(Unit) /\ Len(SubSeq(u, 1, k)) = k
            /\ \A i \in 1 .. k : SubSeq(u, 1, k)[i] = u[i]
        BY <3>2, SubSeqFront
      <3> QED
        BY <3>1, <3>2, <3>3 DEF k, u
    <2> HIDE DEF b, c, e, n, m
    <2>3. /\ b \o e \in Seq(Unit) /\ Len(b \o e) = Len(b) + Len(e)
          /\ \A i \in 1 .. Len(b) + Len(e) :
               (b \o e)[i] = IF i <= Len(b) THEN b[i] ELSE e[i - Len(b)]
      BY <1>2, <2>1, ConcatProperties
    <2>4. \A i \in 1 .. n + Size[m] : c[i] = (b \o e)[i]
      <3> SUFFICES ASSUME NEW i \in 1 .. n + Size[m] PROVE c[i] = (b \o e)[i]
        OBVIOUS
      <3>1. CASE i <= n
        BY <1>2, <1>3, <2>1, <2>2, <2>3, <3>1
      <3>2. CASE i > n
        BY <1>2, <1>3, <2>1, <2>2, <2>3, <3>2
      <3>3. i <= n \/ i > n
        BY <1>2
      <3> QED
        BY <3>1, <3>2, <3>3
    <2>5. c = b \o e
      <3>1. Len(b \o e) = n + Size[m]
        BY <1>2, <2>1, <2>3
      <3> QED
        BY <2>2, <2>3, <2>4, <3>1, SeqEqual
    <2> QED
      BY <2>5 DEF b, c
  <1> QED
    BY <1>3, <1>4

\* serialize_message into the buffer, lines 207-208.
LEMMA DataPutInBuffer ==
  ASSUME TypeOK, LoggerInv, DataInv, PutInBuffer
  PROVE  DataInv'
  <1> USE DEF DataInv
  <1> DEFINE m == item[Worker]
             e == Encode(m)
             n == buffer_offset
  <1>1. /\ UNCHANGED <<places, call, item, write_mode, running, cpc, file,
                       total_written, claimed, lost>>
        /\ wpc = "put" /\ wpc' = "check" /\ write_mode # "MMAP"
        /\ write_buffer' = Overwrite(write_buffer, n, e)
        /\ buffer_offset' = n + Size[m]
    BY DEF PutInBuffer, queueVars, fileVars, controlVars, history
  <1>2. /\ e \in Seq(Unit) /\ Len(e) = Size[m] /\ Size[m] \in Nat
        /\ n \in Nat /\ BufferSize \in Nat /\ n + Size[m] <= BufferSize
        /\ write_buffer \in [1 .. BufferSize -> Unit]
    BY <1>1, EncodeType, Units
       DEF LoggerInv, HandInv, SpaceInv, RoomForMessage, TypeOK, DataType
  <1>3. call[Worker] = "none" /\ Alive /\ (running \/ cpc = "join")
    BY <1>1 DEF PositionInv, Alive, LoggerInv, LifeCycle
  <1>4. /\ write_buffer' \in [1 .. BufferSize -> Unit]
        /\ Buffered' = Buffered \o e
    BY PutInBufferEffect
  <1>5. DataType' /\ PositionInv'
    BY <1>1, <1>3, <1>4 DEF DataType, PositionInv
  <1>7. LogIntegrity'
    <2> SUFFICES ASSUME ~ lost
                 PROVE  FileData' \o Buffered' \o InHand'
                          \o Encodings(QueuedMessages') = Encodings(claimed')
      BY <1>1 DEF LogIntegrity
    <2>1. FileData' = FileData /\ QueuedMessages' = QueuedMessages
      BY <1>1, SameFileData DEF QueuedMessages
    <2>2. InHand = e /\ InHand' = <<>>
      BY <1>1, <1>3 DEF InHand
    <2>3. FileData \in Seq(Unit) /\ Buffered \in Seq(Unit)
      BY <1>3, PartsType
    <2>4. FileData \o Buffered \o e \o Encodings(QueuedMessages)
            = Encodings(claimed)
      BY <1>3, <2>2 DEF LogIntegrity
    <2> HIDE DEF e
    <2>5. FileData \o (Buffered \o e) \o <<>> = FileData \o Buffered \o e
      BY <1>2, <2>3, RegroupPutInBuffer, Zenon
    <2> QED
      BY <1>1, <1>4, <2>1, <2>2, <2>4, <2>5
  <1> QED
    BY <1>5, <1>7

\* serialize_message into the mapping, lines 199-200.
LEMMA DataPutInMapping ==
  ASSUME TypeOK, LoggerInv, DataInv, PutInMapping
  PROVE  DataInv'
  <1> USE DEF DataInv
  <1> DEFINE m == item[Worker]
             e == Encode(m)
             n == total_written
             new == [i \in 1 .. Size[m] |-> Cell(e[i])]
  <1>1. /\ UNCHANGED <<places, call, item, write_mode, running, cpc,
                       write_buffer, buffer_offset, claimed, lost>>
        /\ wpc = "put" /\ write_mode = "MMAP"
    BY DEF PutInMapping, queueVars, controlVars, history
  <1>2. /\ m \in Messages /\ e \in Seq(Unit) /\ Len(e) = Size[m]
        /\ Size[m] \in Nat /\ n \in Nat
        /\ file \in Seq(CellType) /\ Len(file) \in Nat
    BY <1>1, EncodeType DEF LoggerInv, HandInv, TypeOK, DataType
  <1>3. call[Worker] = "none" /\ Alive /\ (running \/ cpc = "join")
    BY <1>1 DEF PositionInv, Alive, LoggerInv, LifeCycle
  <1>4. CASE ~ (n + Size[m] <= mmap_size /\ n + Size[m] <= Len(file))
    <2>1. UNCHANGED <<file, total_written>> /\ wpc' = "terminated"
      BY <1>4 DEF PutInMapping
    <2>2. DataType' /\ PositionInv'
      BY <1>1, <1>3, <2>1 DEF DataType, PositionInv, Alive
    <2> QED
      BY <2>1, <2>2 DEF LogIntegrity, Alive
  <1>5. CASE n + Size[m] <= mmap_size /\ n + Size[m] <= Len(file)
    <2>1. /\ file' = Overwrite(file, n, new) /\ total_written' = n + Size[m]
          /\ wpc' = "check"
      BY <1>5 DEF PutInMapping
    <2>2. /\ new \in Seq(CellType) /\ Len(new) = Size[m]
          /\ \A i \in 1 .. Size[m] : new[i].byte = e[i]
      <3>1. \A i \in 1 .. Size[m] : e[i] \in Unit
        BY <1>2
      <3> HIDE DEF e
      <3>2. \A i \in 1 .. Size[m] :
              Cell(e[i]) \in CellType /\ Cell(e[i]).byte = e[i]
        BY <3>1 DEF Cell, CellType
      <3>3. new \in [1 .. Size[m] -> CellType]
        BY <3>2
      <3> QED
        BY <1>2, <3>2, <3>3
    <2>3. /\ file' \in [1 .. Len(file) -> CellType]
          /\ \A i \in 1 .. n : file'[i] = file[i]
          /\ \A i \in n + 1 .. n + Size[m] : file'[i] = new[i - n]
      <3> HIDE DEF new, n
      <3>1. file \in [1 .. Len(file) -> CellType]
        BY <1>2
      <3> DEFINE o == Overwrite(file, n, new)
                 k == Len(file)
      <3>2. k \in Nat /\ n \in Nat /\ n + Len(new) <= k
        BY <1>2, <1>5, <2>2
      <3>3. new \in Seq(CellType) /\ file \in [1 .. k -> CellType]
        BY <2>2, <3>1
      <3> HIDE DEF k
      <3>4. /\ o \in [1 .. k -> CellType]
            /\ \A i \in 1 .. n : o[i] = file[i]
            /\ \A i \in n + 1 .. n + Len(new) : o[i] = new[i - n]
        <4>1. ASSUME NEW x \in Seq(CellType), n + Len(x) <= k
              PROVE  /\ Overwrite(file, n, x) \in [1 .. k -> CellType]
                     /\ \A i \in 1 .. n : Overwrite(file, n, x)[i] = file[i]
                     /\ \A i \in n + 1 .. n + Len(x) :
                          Overwrite(file, n, x)[i] = x[i - n]
          BY <3>2, <3>3, <4>1, OverwriteEffect
        <4> QED
          BY <3>2, <3>3, <4>1
      <3> QED
        BY <2>1, <2>2, <3>4 DEF k
    <2>4. file' \in Seq(CellType) /\ Len(file') = Len(file)
      BY <1>2, <2>3
    <2>5. DataType' /\ PositionInv'
      BY <1>1, <1>3, <1>5, <2>1, <2>4 DEF DataType, PositionInv
    <2>6. LogIntegrity'
      <3> SUFFICES ASSUME ~ lost
                   PROVE  FileData' \o Buffered' \o InHand'
                            \o Encodings(QueuedMessages') = Encodings(claimed')
        BY <1>1 DEF LogIntegrity
      <3>1. Buffered' = <<>> /\ Buffered = <<>>
        <4>1. buffer_offset = 0 /\ write_buffer \in [1 .. BufferSize -> Unit]
          BY <1>1 DEF LoggerInv, SpaceInv, DataType
        <4> QED
          BY <1>1, <4>1, SubSeqFront, Units DEF Buffered
      <3>2. QueuedMessages' = QueuedMessages
        BY <1>1 DEF QueuedMessages
      <3>3. InHand = e /\ InHand' = <<>>
        BY <1>1, <1>3, <2>1 DEF InHand
      <3>4. FileData \in Seq(Unit)
        BY <1>3, PartsType
      <3>5. FileData' = FileData \o e
        <4> DEFINE a == FileData
                   c == FileData'
        <4>1. a = [i \in 1 .. n |-> file[i].byte]
          BY <1>1 DEF FileData
        <4>2. c = [i \in 1 .. n + Size[m] |-> file'[i].byte]
          BY <1>1, <2>1 DEF FileData
        <4>3. /\ a \in Seq(Unit) /\ Len(a) = n
              /\ \A i \in 1 .. n : a[i] = file[i].byte
          BY <1>2, <3>4, <4>1
        <4> HIDE DEF a, c, e, n, new, m
        <4>4. /\ a \o e \in Seq(Unit) /\ Len(a \o e) = Len(a) + Len(e)
              /\ \A i \in 1 .. Len(a) + Len(e) :
                   (a \o e)[i] = IF i <= Len(a) THEN a[i] ELSE e[i - Len(a)]
          BY <1>2, <4>3, ConcatProperties
        <4>5. \A i \in 1 .. n + Size[m] : file'[i].byte = (a \o e)[i]
          <5> SUFFICES ASSUME NEW i \in 1 .. n + Size[m]
                       PROVE  file'[i].byte = (a \o e)[i]
            OBVIOUS
          <5>1. CASE i <= n
            <6>1. i \in 1 .. n /\ i \in 1 .. Len(a) + Len(e)
              BY <1>2, <4>3, <5>1
            <6>2. (a \o e)[i] = a[i] /\ a[i] = file[i].byte /\ file'[i] = file[i]
              BY <2>3, <4>3, <4>4, <5>1, <6>1
            <6> QED
              BY <6>2
          <5>2. CASE i > n
            <6>1. /\ i - n \in 1 .. Size[m] /\ i \in 1 .. Len(a) + Len(e)
                  /\ i \in n + 1 .. n + Size[m]
              BY <1>2, <4>3, <5>2
            <6>2. (a \o e)[i] = e[i - n]
              BY <1>2, <4>3, <4>4, <5>2, <6>1
            <6>3. file'[i] = new[i - n] /\ new[i - n].byte = e[i - n]
              BY <2>2, <2>3, <6>1
            <6> QED
              BY <6>2, <6>3
          <5>3. i <= n \/ i > n
            BY <1>2
          <5> QED
            BY <5>1, <5>2, <5>3
        <4>6. Len(a \o e) = n + Size[m]
          BY <1>2, <4>3, <4>4
        <4>7. a \o e = [i \in 1 .. n + Size[m] |-> (a \o e)[i]]
          <5>1. \A s \in Seq(Unit) : s = [i \in 1 .. Len(s) |-> s[i]]
            OBVIOUS
          <5>2. a \o e \in Seq(Unit)
            BY <4>4
          <5> QED
            BY <4>6, <5>1, <5>2, Zenon
        <4>8. c = a \o e
          BY <4>2, <4>5, <4>7
        <4> QED
          BY <4>8 DEF a, c
      <3>6. FileData \o <<>> \o e \o Encodings(QueuedMessages)
              = Encodings(claimed)
        BY <1>3, <3>1, <3>3 DEF LogIntegrity
      <3> HIDE DEF e
      <3>7. FileData \o e \o <<>> \o <<>> = FileData \o <<>> \o e
        BY <1>2, <3>4, RegroupPutInMapping, Zenon
      <3> QED
        BY <1>1, <3>1, <3>2, <3>3, <3>5, <3>6, <3>7
    <2> QED
      BY <2>5, <2>6
  <1> QED
    BY <1>4, <1>5

\* start() that opens the file: an empty file, an empty buffer, no message in
\* the worker's hands, and what the queue holds is what was claimed.
LEMMA DataOpenFile ==
  ASSUME OneMappedSession, TypeOK, LoggerInv, DataInv, OpenFile
  PROVE  DataInv'
  <1> USE DEF DataInv
  <1>1. /\ UNCHANGED <<places, call, item, write_mode, running, wpc,
                       write_buffer, buffer_offset, total_written>>
        /\ Alive /\ cpc = "idle" /\ ~ running
        /\ claimed' = QueuedMessages
        /\ write_mode = "MMAP" => MapsWriteOnly /\ file' = Resize(<<>>, InitialSize)
        /\ write_mode # "MMAP" => file' = <<>>
    BY DEF OpenFile, ControllerFree, Truncated, queueVars, bufferVars,
           workerVars
  <1>2. buffer_offset = 0 /\ wpc = "none" /\ call[Worker] = "none"
    BY <1>1 DEF LoggerInv, LifeCycle, PositionInv, Alive
  <1>3. write_mode = "MMAP" => total_written = 0
    <2>1. write_mode = "MMAP" => MaxSessions[write_mode] <= 1
      BY <1>1 DEF OneMappedSession, TypeOK
    <2>2. sessions \in Nat /\ sessions < MaxSessions[write_mode]
          /\ MaxSessions[write_mode] \in Nat
      BY SessionsNat DEF OpenFile, TypeOK
    <2>3. write_mode = "MMAP" => sessions = 0
      BY <2>1, <2>2
    <2> QED
      BY <2>3 DEF LoggerInv, SpaceInv
  <1>4. places \in Seq(Place) /\ QueuedMessages = ValuesOf(places)
    BY DEF TypeOK, Place, QueuedMessages, ValuesOf
  <1>5. QueuedMessages \in Seq(Messages) /\ QueuedMessages' = QueuedMessages
    BY <1>1, <1>4, QueueValues DEF QueuedMessages
  <1>6. file' \in Seq(CellType)
    <2>1. <<>> \in Seq(CellType) /\ InitialSize \in Nat
      BY Units
    <2> QED
      BY <1>1, <2>1, ResizeKeeps
  <1>7. DataType'
    BY <1>1, <1>5, <1>6 DEF DataType
  <1>8. PositionInv'
    <2>1. Len(file') \in Nat
      BY <1>6
    <2>2. write_mode = "DIRECT" => Len(file') % Alignment = 0
      <3>1. 0 % Alignment = 0
        BY Units
      <3> QED
        BY <1>1, <3>1
    <2> QED
      BY <1>1, <1>2, <1>3, <2>1, <2>2 DEF PositionInv
  <1>9. LogIntegrity'
    <2>1. FileData' = <<>>
      <3>1. CASE write_mode = "MMAP"
        BY <1>1, <1>3, <3>1 DEF FileData
      <3>2. CASE write_mode # "MMAP"
        <4>1. FileData' = FlattenSeq(DataOf(file'))
          BY <1>1, <3>2 DEF FileData, DataOf
        <4>2. DataOf(<<>>) = <<>> /\ FlattenSeq(<<>>) = <<>>
          BY DEF DataOf, FlattenSeq
        <4> QED
          BY <1>1, <3>2, <4>1, <4>2
      <3> QED
        BY <3>1, <3>2
    <2>2. Buffered' = <<>>
      BY <1>1, <1>2, SubSeqFront, Units DEF Buffered, DataType
    <2>3. InHand' = <<>>
      BY <1>1, <1>2 DEF InHand
    <2> DEFINE q == Encodings(QueuedMessages)
    <2>4. q \in Seq(Unit)
      BY <1>5, EncodingsType
    <2> HIDE DEF q
    <2>5. <<>> \o <<>> \o <<>> = <<>> /\ <<>> \o q = q
      BY <2>4, ConcatLaws
    <2>6. Encodings(QueuedMessages') = q /\ Encodings(claimed') = q
      BY <1>1, <1>5 DEF q
    <2> QED
      BY <2>1, <2>2, <2>3, <2>5, <2>6 DEF LogIntegrity
  <1> QED
    BY <1>7, <1>8, <1>9

\* A start() that throws, the creation of the thread, and the first steps of
\* stop() move no data; a start() that fails after open() loses the file.
LEMMA DataControl ==
  ASSUME TypeOK, LoggerInv, DataInv,
         OpenFails \/ MapFails \/ Spawn \/ StopCall \/ Join
  PROVE  DataInv'
  <1> USE DEF DataInv
  <1>1. UNCHANGED <<places, call, item, write_mode, write_buffer,
                    buffer_offset, total_written>>
    BY DEF OpenFails, MapFails, Spawn, StopCall, Join, queueVars, bufferVars,
           controlVars
  <1>2. /\ Alive /\ Alive'
        /\ call[Worker] # "none" => wpc' = wpc
        /\ wpc \notin {"room", "put"} => wpc' \notin {"room", "put"}
        /\ wpc \in {"room", "put"} => wpc' = wpc
        /\ ~ running' /\ cpc' \notin {"join", "flush"} =>
             ~ running /\ cpc \notin {"join", "flush"}
    BY DEF OpenFails, MapFails, Spawn, StopCall, Join, ControllerFree, Alive,
           LoggerInv, LifeCycle, PositionInv, workerVars, controlVars
  <1>3. CASE MapFails
    <2>1. places \in Seq(Place) /\ QueuedMessages = ValuesOf(places)
      BY DEF TypeOK, Place, QueuedMessages, ValuesOf
    <2>2. claimed' \in Seq(Messages)
      BY <1>3, <2>1, QueueValues DEF MapFails, Truncated
    <2>3. file' \in Seq(CellType)
      <3>1. <<>> \in Seq(CellType) /\ InitialSize \in Nat
        BY Units
      <3>2. file' = <<>> \/ file' = Resize(<<>>, InitialSize)
        BY <1>3 DEF MapFails, Truncated
      <3> QED
        BY <3>1, <3>2, ResizeKeeps
    <2>4. lost' = TRUE /\ write_mode = "MMAP"
      BY <1>3 DEF MapFails
    <2>5. DataType' /\ PositionInv'
      BY <1>1, <1>2, <2>2, <2>3, <2>4 DEF DataType, PositionInv
    <2> QED
      BY <2>4, <2>5 DEF LogIntegrity
  <1>4. CASE ~ MapFails
    <2>1. UNCHANGED <<file, claimed, lost>>
      BY <1>4 DEF OpenFails, Spawn, StopCall, Join, fileVars, history
    <2>2. DataType' /\ PositionInv'
      BY <1>1, <1>2, <2>1 DEF DataType, PositionInv
    <2>3. FileData' = FileData /\ Buffered' = Buffered
      BY <1>1, <2>1, SameFileData DEF Buffered
    <2>4. InHand' = InHand /\ QueuedMessages' = QueuedMessages
      BY <1>1, <1>2 DEF InHand, QueuedMessages
    <2>5. LogIntegrity'
      BY <1>1, <1>2, <2>1, <2>3, <2>4, SameParts
    <2> QED
      BY <2>2, <2>5
  <1> QED
    BY <1>3, <1>4

\* stop(): the last flush, and close_file(), which cuts the file at the end
\* of its data.
LEMMA DataStop ==
  ASSUME TypeOK, LoggerInv, DataInv, StopFlush \/ CloseFile
  PROVE  DataInv'
  <1> USE DEF DataInv
  <1>1. /\ UNCHANGED <<places, call, item, write_mode, write_buffer, wpc,
                       running, claimed>>
        /\ Alive
    BY DEF StopFlush, CloseFile, queueVars, bufferVars, workerVars, history
  <1>2. /\ Alive' /\ InHand' = InHand /\ QueuedMessages' = QueuedMessages
    BY <1>1 DEF Alive, InHand, QueuedMessages
  <1>3. CASE StopFlush
    <2>1. Flush
      BY <1>3 DEF StopFlush
    <2>2. LogIntegrity'
      BY <1>1, <1>2, <2>1, IntegrityFlush
    <2>3. DataType' /\ PositionInv'
      BY <1>1, <2>1, FlushData DEF DataType, PositionInv
    <2> QED
      BY <2>2, <2>3
  <1>4. CASE CloseFile
    <2>1. /\ UNCHANGED <<buffer_offset, total_written, lost>>
          /\ cpc = "close" /\ ~ running
      BY <1>4 DEF CloseFile, bufferVars, history, LoggerInv, LifeCycle
    <2>2. buffer_offset = 0
      BY <1>1, <2>1 DEF PositionInv
    <2>3. file \in Seq(CellType) /\ total_written \in Nat /\ Len(file) \in Nat
      BY DEF DataType, TypeOK
    <2>4. /\ write_mode # "MMAP" => file' = file
          /\ file' = file \/ file' = Resize(file, total_written)
      BY <1>4 DEF CloseFile
    <2> DEFINE r == Resize(file, total_written)
    <2>5. /\ r \in Seq(CellType) /\ Len(r) = total_written
          /\ \A i \in 1 .. total_written : i <= Len(file) => r[i] = file[i]
      BY <2>3, ResizeKeeps
    <2>6. file' \in Seq(CellType)
      BY <2>3, <2>4, <2>5
    <2> HIDE DEF r
    <2>7. total_written <= Len(file) =>
            /\ total_written <= Len(file')
            /\ \A i \in 1 .. total_written : file'[i] = file[i]
      BY <2>3, <2>4, <2>5 DEF r
    <2>8. DataType' /\ PositionInv'
      BY <1>1, <2>1, <2>2, <2>4, <2>6, <2>7 DEF DataType, PositionInv
    <2>9. ~ lost => FileData' = FileData
      BY <1>1, <2>1, <2>4, <2>7, SameMappedData, SameFileData DEF PositionInv
    <2>10. Buffered' = Buffered
      BY <1>1, <2>1 DEF Buffered
    <2>11. LogIntegrity'
      <3>1. CASE lost
        BY <2>1, <3>1 DEF LogIntegrity
      <3>2. CASE ~ lost
        BY <1>1, <1>2, <2>1, <2>9, <2>10, <3>2, SameParts
      <3> QED
        BY <3>1, <3>2
    <2> QED
      BY <2>8, <2>11
  <1> QED
    BY <1>3, <1>4

-----------------------------------------------------------------------------
\* Every step keeps the invariant.
LEMMA DataStep ==
  ASSUME OneMappedSession, TypeOK, LoggerInv, DataInv, [Next]_vars
  PROVE  DataInv'
  <1>1. CASE Next
    BY <1>1, DataLog, DataDequeue, DataFlushWorker, DataMakeRoomInMapping,
       DataPutInBuffer, DataPutInMapping, DataOpenFile, DataControl, DataStop
       DEF Next, WorkerLoop, Control, ControllerContinues
  <1>2. CASE UNCHANGED vars
    <2> USE <1>2 DEF vars, queueVars, fileVars, bufferVars, controlVars,
                     workerVars, history
    <2>1. DataType' /\ PositionInv'
      BY DEF DataInv, DataType, PositionInv, Alive
    <2>2. /\ FileData' = FileData /\ Buffered' = Buffered /\ InHand' = InHand
          /\ QueuedMessages' = QueuedMessages /\ Alive' = Alive
      BY SameFileData DEF Buffered, InHand, QueuedMessages, Alive
    <2>3. LogIntegrity'
      BY <2>2, SameParts DEF DataInv
    <2> QED
      BY <2>1, <2>3 DEF DataInv
  <1> QED
    BY <1>1, <1>2

\* DataInv holds in every state, together with the invariant of the life
\* cycle and of the space that it rests on.
LEMMA DataInvariant ==
  ASSUME OneMappedSession
  PROVE  Spec => [](TypeOK /\ LoggerInv /\ DataInv)
  <1>1. Init => TypeOK /\ LoggerInv /\ DataInv
    BY InvInit, DataInit
  <1>2. TypeOK /\ LoggerInv /\ DataInv /\ [Next]_vars
          => (TypeOK /\ LoggerInv /\ DataInv)'
    BY InvStep, DataStep
  <1> QED
    BY <1>1, <1>2, PTL DEF Spec

\* From log() to the file no message is lost, doubled, torn or reordered, for
\* any producers, messages and sizes and in all three write modes, as long as
\* no write() fails or is short.
THEOREM LogIntegrityAlways ==
  ASSUME OneMappedSession
  PROVE  Spec => []LogIntegrity
  <1>1. DataInv => LogIntegrity
    BY DEF DataInv
  <1> QED
    BY <1>1, DataInvariant, PTL

\* What O_DIRECT demands of offsets and lengths holds for every ALIGNMENT
\* that divides BUFFER_SIZE, the offsets as long as no write() was short.
THEOREM DirectAlignedAlways ==
  ASSUME OneMappedSession
  PROVE  Spec => []DirectAligned
  <1>1. TypeOK /\ DataInv => DirectAligned
    BY RoundUpBounds, Units
       DEF DataInv, PositionInv, DirectAligned, BytesToWrite, TypeOK
  <1> QED
    BY <1>1, DataInvariant, PTL

-----------------------------------------------------------------------------
(* get_total_written() *)

\* The system calls that move data do not fail; open() and the creation of
\* the thread may.
ReliableFile == Faults \cap {"ftruncate", "mmap", "short", "write"} = {}

\* The first session starts at 0.  In BUFFERED mode the counter is the length
\* of the file at every moment of the first session; in MMAP mode only once
\* close_file() has cut the file, and a session exists only if the descriptor
\* can be mapped.
TotalInv ==
  /\ write_mode = "BUFFERED" /\ sessions = 0 => total_written = 0
  /\ write_mode = "BUFFERED" /\ sessions <= 1 => total_written = Len(file)
  /\ write_mode = "MMAP" /\ sessions > 0 => MapsWriteOnly
  /\ write_mode = "MMAP" /\ Stopped => total_written = Len(file)

\* flush() adds to the counter what it adds to the file.
LEMMA TotalFlush ==
  ASSUME ReliableFile, TypeOK, LoggerInv, DataType, Flush,
         write_mode = "BUFFERED"
  PROVE  /\ total_written' - total_written = Len(file') - Len(file)
         /\ total_written' \in Nat /\ Len(file') \in Nat
  <1>1. /\ buffer_offset \in 0 .. BufferSize /\ BufferSize \in Nat
        /\ total_written \in Nat /\ file \in Seq(CellType)
        /\ write_buffer \in [1 .. BufferSize -> Unit]
    BY Units DEF TypeOK, DataType
  <1>2. CASE buffer_offset = 0
    BY <1>1, <1>2 DEF Flush
  <1>3. CASE buffer_offset # 0
    <2>1. WriteResults(BytesToWrite) = {buffer_offset}
      BY <1>1 DEF ReliableFile, WriteResults, BytesToWrite
    <2> DEFINE new == [i \in 1 .. buffer_offset |->
                         [byte |-> write_buffer[i], pad |-> i > buffer_offset]]
    <2>2. /\ file' = file \o new
          /\ total_written' = IF buffer_offset > 0
                              THEN total_written + buffer_offset
                              ELSE total_written
      BY <1>3, <2>1, Zenon DEF Flush
    <2>3. new \in Seq(CellType) /\ Len(new) = buffer_offset
      <3>1. new \in [1 .. buffer_offset -> CellType]
        BY <1>1 DEF CellType
      <3> QED
        BY <1>1, <3>1
    <2> HIDE DEF new
    <2>4. Len(file \o new) = Len(file) + Len(new) /\ Len(file) \in Nat
      <3>1. file \in Seq(CellType) /\ new \in Seq(CellType)
        BY <1>1, <2>3
      <3> QED
        BY <3>1, ConcatProperties
    <2> QED
      BY <1>1, <1>3, <2>2, <2>3, <2>4
  <1> QED
    BY <1>2, <1>3

\* Every step keeps TotalInv.
LEMMA TotalStep ==
  ASSUME ReliableFile, OneMappedSession, TypeOK, LoggerInv, DataInv, TotalInv,
         [Next]_vars
  PROVE  TotalInv'
  <1> USE DEF DataInv
  <1>0. /\ total_written \in Nat /\ Len(file) \in Nat /\ sessions \in Nat
        /\ write_mode' = write_mode
    <2>1. MaxSessions[write_mode] \in Nat
      BY SessionsNat DEF TypeOK
    <2>2. write_mode' = write_mode
      BY DEF Next, Log, LogCall, LogReserve, LogReturn, WorkerLoop, LoopTest,
             Dequeue, DequeueFails, FlushWhenEmpty, MakeRoomInMapping,
             MakeRoomInBuffer, PutInMapping, PutInBuffer, Control, OpenFile,
             OpenFails, MapFails, StopCall, ControllerContinues, Spawn, Join,
             StopFlush, CloseFile, controlVars, vars
    <2> QED
      BY <2>1, <2>2 DEF TypeOK, DataType
  <1>1. CASE UNCHANGED <<total_written, file, sessions, write_mode>>
             /\ (Stopped' => Stopped)
    BY <1>1 DEF TotalInv
  <1>2. CASE \E p \in Producers : Log(p)
    <2>1. UNCHANGED <<total_written, file, sessions, write_mode, cpc, running>>
      BY <1>2 DEF Log, LogCall, LogReserve, LogReturn, fileVars, bufferVars,
                  controlVars
    <2> QED
      BY <1>1, <2>1 DEF Stopped
  <1>3. CASE WorkerLoop
    <2>1. /\ UNCHANGED <<sessions, cpc, running>>
          /\ (running \/ cpc = "join") /\ sessions > 0
      BY <1>3 DEF WorkerLoop, LoopTest, Dequeue, DequeueFails, FlushWhenEmpty,
                  MakeRoomInMapping, MakeRoomInBuffer, PutInMapping,
                  PutInBuffer, controlVars, LoggerInv, LifeCycle, Alive
    <2>2. ~ Stopped'
      BY <2>1 DEF Stopped
    <2>3. CASE Flush /\ write_mode = "BUFFERED"
      BY <1>0, <2>1, <2>2, <2>3, TotalFlush DEF TotalInv
    <2>4. CASE ~ Flush \/ write_mode # "BUFFERED"
      <3>1. write_mode = "BUFFERED" => UNCHANGED <<total_written, file>>
        BY <1>3, <2>4 DEF WorkerLoop, LoopTest, Dequeue, DequeueFails,
             FlushWhenEmpty, MakeRoomInMapping, MakeRoomInBuffer,
             PutInMapping, PutInBuffer, fileVars, bufferVars
      <3> QED
        BY <1>0, <2>1, <2>2, <3>1 DEF TotalInv
    <2> QED
      BY <2>3, <2>4
  <1>4. CASE OpenFile
    <2>1. /\ sessions' = sessions + 1 /\ cpc' = "spawn"
          /\ total_written' = total_written
          /\ write_mode = "MMAP" => MapsWriteOnly
          /\ write_mode # "MMAP" => file' = <<>>
      BY <1>4 DEF OpenFile, Truncated, bufferVars
    <2>2. write_mode = "BUFFERED" /\ sessions = 0 => total_written = 0
      BY DEF TotalInv
    <2> QED
      BY <1>0, <2>1, <2>2 DEF TotalInv, Stopped
  <1>5. CASE OpenFails \/ StopCall \/ Join \/ Spawn
    <2>1. UNCHANGED <<total_written, file, sessions, write_mode>>
      BY <1>5 DEF OpenFails, StopCall, Join, Spawn, bufferVars, fileVars,
                  controlVars
    <2>2. Stopped' => Stopped
      BY <1>5 DEF OpenFails, StopCall, Join, Spawn, Stopped, controlVars
    <2> QED
      BY <1>1, <2>1, <2>2
  <1>6. CASE MapFails
    <2>1. ~ MapsWriteOnly /\ write_mode = "MMAP" /\ sessions' = sessions
      BY <1>6 DEF MapFails, ReliableFile, controlVars
    <2> QED
      BY <1>0, <2>1 DEF TotalInv, Stopped
  <1>7. CASE StopFlush
    <2>1. Flush /\ UNCHANGED sessions /\ cpc' = "close" /\ sessions > 0
      BY <1>7 DEF StopFlush, LoggerInv, LifeCycle
    <2> QED
      BY <1>0, <2>1, TotalFlush DEF TotalInv, Stopped
  <1>8. CASE CloseFile
    <2>1. /\ UNCHANGED <<sessions, total_written>>
          /\ write_mode = "MMAP" => file' = Resize(file, total_written)
          /\ write_mode # "MMAP" => file' = file
      BY <1>8 DEF CloseFile, bufferVars, ReliableFile, LoggerInv, LifeCycle
    <2>2. Len(Resize(file, total_written)) = total_written
      BY <1>0, ResizeKeeps DEF DataType
    <2> QED
      BY <1>0, <2>1, <2>2 DEF TotalInv, Stopped
  <1>9. CASE UNCHANGED vars
    BY <1>1, <1>9 DEF vars, fileVars, bufferVars, controlVars, Stopped
  <1> QED
    BY <1>2, <1>3, <1>4, <1>5, <1>6, <1>7, <1>8, <1>9
       DEF Next, Control, ControllerContinues

\* What demo.cpp:183 and benchmark.cpp:206 report is the size of the file, for
\* any messages, sizes and producers, unless a system call that moves data
\* fails or write() is short (see run logger_short_write).
THEOREM TotalAlwaysFileSize ==
  ASSUME ReliableFile, OneMappedSession
  PROVE  Spec => []TotalIsFileSize
  <1>1. Init => TotalInv
    BY DEF Init, TotalInv, Stopped
  <1>2. TypeOK /\ LoggerInv /\ DataInv /\ TotalInv /\ [Next]_vars => TotalInv'
    BY TotalStep
  <1>3. TypeOK /\ TotalInv => TotalIsFileSize
    <2> SUFFICES ASSUME TypeOK, TotalInv PROVE TotalIsFileSize
      OBVIOUS
    <2>1. write_mode \in {"MMAP", "DIRECT", "BUFFERED"}
      BY ModesAndFaults DEF TypeOK
    <2> QED
      BY <2>1 DEF TotalInv, TotalIsFileSize
  <1> QED
    BY <1>1, <1>2, <1>3, DataInvariant, PTL DEF Spec

-----------------------------------------------------------------------------
(* What remains in the file when calls of write() fail *)

\* data spells out some of the messages, in their order and each of them whole.
SomeOf(msgs, data) ==
  \E parts \in Seq(Seq(Unit)) :
    /\ Len(parts) = Len(msgs)
    /\ \A k \in 1 .. Len(msgs) : parts[k] \in {Encode(msgs[k]), <<>>}
    /\ data = FlattenSeq(parts)

\* More messages, of which all are written, or none.
LEMMA SomeOfMore ==
  ASSUME NEW a \in Seq(Messages), NEW b \in Seq(Messages), NEW data,
         SomeOf(a, data)
  PROVE  /\ SomeOf(a \o b, data)
         /\ SomeOf(a \o b, data \o Encodings(b))
  <1>1. PICK p \in Seq(Seq(Unit)) :
          /\ Len(p) = Len(a)
          /\ \A k \in 1 .. Len(a) : p[k] \in {Encode(a[k]), <<>>}
          /\ data = FlattenSeq(p)
    BY DEF SomeOf
  <1>2. /\ Len(a) \in Nat /\ Len(b) \in Nat /\ Len(a \o b) = Len(a) + Len(b)
        /\ \A k \in 1 .. Len(a) + Len(b) :
             (a \o b)[k] = IF k <= Len(a) THEN a[k] ELSE b[k - Len(a)]
    BY ConcatProperties
  <1>3. ASSUME NEW q \in Seq(Seq(Unit)), Len(q) = Len(b),
               \A k \in 1 .. Len(b) : q[k] \in {Encode(b[k]), <<>>}
        PROVE  SomeOf(a \o b, data \o FlattenSeq(q))
    <2>1. /\ p \o q \in Seq(Seq(Unit)) /\ Len(p \o q) = Len(a) + Len(b)
          /\ \A k \in 1 .. Len(a) + Len(b) :
               (p \o q)[k] = IF k <= Len(a) THEN p[k] ELSE q[k - Len(a)]
      <3>1. /\ p \o q \in Seq(Seq(Unit)) /\ Len(p \o q) = Len(p) + Len(q)
            /\ \A k \in 1 .. Len(p) + Len(q) :
                 (p \o q)[k] = IF k <= Len(p) THEN p[k] ELSE q[k - Len(p)]
        BY <1>3, ConcatProperties
      <3> QED
        BY <1>1, <1>3, <3>1
    <2> DEFINE c == a \o b
               r == p \o q
    <2>2. /\ \A k \in 1 .. Len(a) + Len(b) :
               /\ k <= Len(a) => k \in 1 .. Len(a) /\ r[k] = p[k] /\ c[k] = a[k]
               /\ k > Len(a) => /\ k - Len(a) \in 1 .. Len(b)
                                /\ r[k] = q[k - Len(a)] /\ c[k] = b[k - Len(a)]
          /\ r \in Seq(Seq(Unit)) /\ Len(r) = Len(c) /\ Len(c) = Len(a) + Len(b)
      BY <1>2, <2>1
    <2>3. FlattenSeq(p \o q) = FlattenSeq(p) \o FlattenSeq(q)
      BY <1>1, <1>3, FlattenConcat
    <2>4. data \o FlattenSeq(q) = FlattenSeq(r)
      BY <1>1, <2>3
    <2> HIDE DEF c, r
    <2>5. ASSUME NEW k \in 1 .. Len(c)
          PROVE  r[k] \in {Encode(c[k]), <<>>}
      <3>1. CASE k <= Len(a)
        <4>1. k \in 1 .. Len(a) /\ r[k] = p[k] /\ c[k] = a[k]
          BY <2>2, <3>1
        <4> QED
          BY <1>1, <4>1
      <3>2. CASE k > Len(a)
        <4>1. k - Len(a) \in 1 .. Len(b) /\ r[k] = q[k - Len(a)]
              /\ c[k] = b[k - Len(a)]
          BY <2>2, <3>2
        <4> QED
          BY <1>3, <4>1
      <3> QED
        BY <1>2, <2>2, <3>1, <3>2
    <2>6. SomeOf(c, data \o FlattenSeq(q))
      BY <2>2, <2>4, <2>5 DEF SomeOf
    <2> QED
      BY <2>6 DEF c
  <1>4. SomeOf(a \o b, data \o Encodings(b))
    <2>1. /\ EncodeEach(b) \in Seq(Seq(Unit)) /\ Len(EncodeEach(b)) = Len(b)
          /\ Encodings(b) = FlattenSeq(EncodeEach(b))
      BY EncodingsType
    <2>2. \A k \in 1 .. Len(b) : EncodeEach(b)[k] \in {Encode(b[k]), <<>>}
      BY DEF EncodeEach
    <2> QED
      BY <1>3, <2>1, <2>2
  <1>5. SomeOf(a \o b, data)
    <2> DEFINE q == [k \in 1 .. Len(b) |-> <<>>]
    <2>1. q \in [1 .. Len(b) -> Seq(Unit)]
      OBVIOUS
    <2>2. q \in Seq(Seq(Unit)) /\ Len(q) = Len(b)
      BY <1>2, <2>1
    <2>3. \A k \in 1 .. Len(b) : q[k] = <<>>
      OBVIOUS
    <2> HIDE DEF q
    <2>6. FlattenSeq(q) = <<>>
      BY <2>2, <2>3, FlattenEmpty
    <2>7. SomeOf(a \o b, data \o FlattenSeq(q))
      BY <1>3, <2>2, <2>3
    <2>8. data \in Seq(Unit)
      BY <1>1, FlattenInSeq
    <2>9. data \o <<>> = data
      BY <2>8, ConcatLaws
    <2> QED
      BY <2>6, <2>7, <2>9
  <1> QED
    BY <1>4, <1>5

\* Of no message there is nothing.
LEMMA SomeOfNone == SomeOf(<<>>, <<>>)
  <1> DEFINE p == <<>>
  <1>1. /\ p \in Seq(Seq(Unit)) /\ Len(p) = Len(<<>>)
        /\ \A k \in 1 .. Len(<<>>) : p[k] \in {Encode(<<>>[k]), <<>>}
    OBVIOUS
  <1>2. <<>> = FlattenSeq(p)
    BY DEF FlattenSeq
  <1> HIDE DEF p
  <1> QED
    BY <1>1, <1>2 DEF SomeOf

\* The message of InHand.
HandMessages ==
  IF call[Worker] = "taken" \/ wpc \in {"room", "put"}
  THEN <<item[Worker]>> ELSE <<>>

\* In the modes that write(): of the messages claimed, the first have left
\* the buffer, whole or not at all, and the next fill it.
WholeInv ==
  write_mode # "MMAP" /\ "short" \notin Faults =>
    \E done \in Seq(Messages), held \in Seq(Messages) :
      /\ claimed = done \o held \o HandMessages \o QueuedMessages
      /\ SomeOf(done, FileData)
      /\ Buffered = Encodings(held)


\* No message has moved.
LEMMA WholeSame ==
  ASSUME WholeInv, write_mode' = write_mode, claimed' = claimed,
         HandMessages' = HandMessages, QueuedMessages' = QueuedMessages,
         FileData' = FileData, Buffered' = Buffered
  PROVE  WholeInv'
  BY DEF WholeInv

\* The messages in the worker's hands and in the queue are messages.
LEMMA MessagesType ==
  ASSUME TypeOK, LoggerInv
  PROVE  /\ HandMessages \in Seq(Messages)
         /\ QueuedMessages = ValuesOf(places)
         /\ QueuedMessages \in Seq(Messages)
  <1>1. HandMessages \in Seq(Messages)
    BY DEF HandMessages, LoggerInv, HandInv
  <1> QED
    BY <1>1, QueueValues DEF QueuedMessages, ValuesOf, TypeOK, Place

\* How runs of messages are regrouped.
LEMMA RegroupMessages ==
  \A f, q, m \in Seq(Messages) : (f \o q) \o m = f \o (q \o m)
  BY ConcatLaws

\* The same with an empty run in front of the last two.
LEMMA RegroupEmpty ==
  \A f, m, q \in Seq(Messages) : f \o <<>> \o (m \o q) = f \o m \o q
  <1> SUFFICES ASSUME NEW f \in Seq(Messages), NEW m \in Seq(Messages),
                      NEW q \in Seq(Messages)
               PROVE  f \o <<>> \o (m \o q) = f \o m \o q
    BY Zenon
  <1>1. f \o <<>> = f
    BY ConcatLaws
  <1>2. f \o m \o q = f \o (m \o q)
    BY RegroupMessages, Zenon
  <1> QED
    BY <1>1, <1>2, Zenon

\* log(): a message more at the end of the queue.
LEMMA WholeLog ==
  ASSUME TypeOK, LoggerInv, DataInv, WholeInv, NEW p \in Producers, Log(p)
  PROVE  WholeInv'
  <1> USE ThreadNames
  <1>1. UNCHANGED <<file, write_buffer, buffer_offset, total_written,
                    write_mode, wpc>>
    BY DEF Log, LogCall, LogReserve, LogReturn, fileVars, bufferVars,
           controlVars, workerVars
  <1>2. item'[Worker] = item[Worker] /\ call'[Worker] = call[Worker]
    BY DEF Log, LogCall, LogReserve, LogReturn, Queue!BeginEnqueue,
           Queue!Begin, Queue!Reserve, Queue!Commit, Queue!RefuseEnqueue,
           Queue!End, TypeOK
  <1>3. /\ FileData' = FileData /\ Buffered' = Buffered
        /\ HandMessages' = HandMessages
    <2>1. FileData' = FileData
      BY <1>1, SameFileData
    <2> QED
      BY <1>1, <1>2, <2>1 DEF Buffered, HandMessages
  <1>4. CASE LogReserve(p)
    <2> SUFFICES ASSUME write_mode # "MMAP", "short" \notin Faults
                 PROVE  WholeInv'
      BY <1>1 DEF WholeInv
    <2>1. PICK done \in Seq(Messages), held \in Seq(Messages) :
            /\ claimed = done \o held \o HandMessages \o QueuedMessages
            /\ SomeOf(done, FileData)
            /\ Buffered = Encodings(held)
      BY DEF WholeInv
    <2>2. item[p] \in Messages
      BY <1>4 DEF LogReserve, Queue!Reserve, LoggerInv, HandInv
    <2>3. QueuedMessages' = QueuedMessages \o <<item[p]>>
      <3>1. places \in Seq(Place) /\ [val |-> item[p], owner |-> p] \in Place
        BY <2>2 DEF TypeOK, Place
      <3>2. places' = Append(places, [val |-> item[p], owner |-> p])
        BY <1>4 DEF LogReserve, Queue!Reserve
      <3>3. ValuesOf(places') = ValuesOf(places) \o <<item[p]>>
        BY <3>1, <3>2, QueueValues
      <3> QED
        BY <3>3 DEF QueuedMessages, ValuesOf
    <2> DEFINE h == HandMessages
               q == QueuedMessages
               m == <<item[p]>>
               f == done \o held \o h
    <2>4. h \in Seq(Messages) /\ q \in Seq(Messages) /\ m \in Seq(Messages)
      BY <2>2, MessagesType
    <2>5. claimed \in Seq(Messages) /\ claimed' = claimed \o m
      BY <1>4, <2>2 DEF LogReserve, DataInv, DataType
    <2> HIDE DEF h, q, m
    <2>6. f \in Seq(Messages)
      BY <2>4, ConcatLaws
    <2>7. claimed = f \o q
      BY <2>1 DEF h, q
    <2> HIDE DEF f
    <2>8. claimed' = f \o (q \o m)
      <3>1. (f \o q) \o m = f \o (q \o m)
        BY <2>4, <2>6, RegroupMessages, Zenon
      <3> QED
        BY <2>5, <2>7, <3>1, Zenon
    <2>9. claimed' = done \o held \o HandMessages' \o QueuedMessages'
      BY <1>3, <2>3, <2>8 DEF f, h, q, m
    <2> QED
      BY <1>3, <2>1, <2>9 DEF WholeInv
  <1>5. CASE ~ LogReserve(p)
    <2>1. claimed' = claimed
      BY <1>5 DEF Log, LogCall, LogReturn, history
    <2>2. QueuedMessages' = QueuedMessages
      BY <1>5 DEF Log, LogCall, LogReturn, Queue!BeginEnqueue, Queue!Commit,
                  Queue!RefuseEnqueue, QueuedMessages
    <2> QED
      BY <1>1, <1>3, <2>1, <2>2, WholeSame
  <1> QED
    BY <1>4, <1>5

\* try_dequeue: the first message of the queue gets into the worker's hands.
LEMMA WholeDequeue ==
  ASSUME TypeOK, LoggerInv, DataInv, WholeInv,
         LoopTest \/ Dequeue \/ DequeueFails
  PROVE  WholeInv'
  <1> USE ThreadNames DEF DataInv
  <1>1. UNCHANGED <<file, write_buffer, buffer_offset, total_written,
                    write_mode, claimed>>
    BY DEF LoopTest, Dequeue, DequeueFails, fileVars, bufferVars,
           controlVars, history
  <1>2. wpc \in {"check", "deq"} /\ wpc' # "put"
    BY DEF LoopTest, Dequeue, DequeueFails
  <1>3. FileData' = FileData /\ Buffered' = Buffered
    BY <1>1, SameFileData DEF Buffered
  <1>4. CASE Queue!Take(Worker)
    <2> SUFFICES ASSUME write_mode # "MMAP", "short" \notin Faults
                 PROVE  WholeInv'
      BY <1>1 DEF WholeInv
    <2>1. PICK done \in Seq(Messages), held \in Seq(Messages) :
            /\ claimed = done \o held \o HandMessages \o QueuedMessages
            /\ SomeOf(done, FileData)
            /\ Buffered = Encodings(held)
      BY DEF WholeInv
    <2>2. HandMessages = <<>> /\ HandMessages' = <<item'[Worker]>>
      BY <1>2, <1>4 DEF Queue!Take, TypeOK, HandMessages
    <2>3. places \in Seq(Place) /\ places # <<>>
      BY <1>4 DEF Queue!Take, Queue!FirstFilled, TypeOK, Place
    <2>4. /\ places' = Tail(places)
          /\ item'[Worker] = Head(places).val
      BY <1>4 DEF Queue!Take, TypeOK
    <2>5. Head(places) \in Place /\ Tail(places) \in Seq(Place)
      BY <2>3
    <2>6. item'[Worker] \in Messages
      BY <2>4, <2>5 DEF Place
    <2>7. /\ QueuedMessages' = ValuesOf(places')
          /\ QueuedMessages' \in Seq(Messages)
      BY <2>4, <2>5, QueueValues DEF QueuedMessages, ValuesOf
    <2>8. QueuedMessages = <<item'[Worker]>> \o QueuedMessages'
      BY <2>3, <2>4, <2>7, QueueValues, MessagesType
    <2> DEFINE m == <<item'[Worker]>>
               q == QueuedMessages'
               f == done \o held
    <2>9. m \in Seq(Messages) /\ q \in Seq(Messages) /\ f \in Seq(Messages)
      BY <2>6, <2>7, ConcatLaws
    <2>10. claimed = f \o <<>> \o (m \o q)
      BY <2>1, <2>2, <2>8
    <2> HIDE DEF m, q, f
    <2>11. f \o <<>> \o (m \o q) = f \o m \o q
      <3>1. m \in Seq(Messages)
        BY <2>9
      <3>2. q \in Seq(Messages)
        BY <2>9
      <3>3. f \in Seq(Messages)
        BY <2>9
      <3> QED
        BY <3>1, <3>2, <3>3, RegroupEmpty, Zenon
    <2>12. claimed' = done \o held \o HandMessages' \o QueuedMessages'
      BY <1>1, <2>2, <2>10, <2>11 DEF f, m, q
    <2> QED
      BY <1>3, <2>1, <2>12 DEF WholeInv
  <1>5. CASE ~ Queue!Take(Worker)
    <2>1. /\ places' = places /\ item' = item
          /\ call[Worker] = "taken" <=> wpc' = "room"
          /\ call'[Worker] # "taken"
      BY <1>5 DEF LoopTest, Dequeue, DequeueFails, TypeOK, PositionInv,
                  Queue!BeginDequeue, Queue!Begin, Queue!Free,
                  Queue!RefuseDequeue, Queue!End
    <2>2. HandMessages' = HandMessages
      BY <1>2, <2>1 DEF HandMessages
    <2>3. QueuedMessages' = QueuedMessages
      BY <2>1 DEF QueuedMessages
    <2> QED
      BY <1>1, <1>3, <2>2, <2>3, WholeSame
  <1> QED
    BY <1>4, <1>5


\* flush(): what the buffer held is in the file, or lost as a whole.
LEMMA WholeFlush ==
  ASSUME TypeOK, LoggerInv, DataInv, WholeInv, Flush,
         write_mode' = write_mode, write_buffer' = write_buffer,
         claimed' = claimed, HandMessages' = HandMessages,
         QueuedMessages' = QueuedMessages
  PROVE  WholeInv'
  <1> SUFFICES ASSUME write_mode # "MMAP", "short" \notin Faults
               PROVE  WholeInv'
    BY DEF WholeInv
  <1>1. PICK done \in Seq(Messages), held \in Seq(Messages) :
          /\ claimed = done \o held \o HandMessages \o QueuedMessages
          /\ SomeOf(done, FileData)
          /\ Buffered = Encodings(held)
    BY DEF WholeInv
  <1>2. /\ Buffered' = <<>>
        /\ FileData' \in {FileData, FileData \o Encodings(held)}
    BY <1>1, FlushData
  <1> DEFINE d == done \o held
             e == <<>>
  <1>3. d \in Seq(Messages) /\ e \in Seq(Messages) /\ d \o e = d
    <2>1. d \in Seq(Messages)
      BY ConcatLaws
    <2> HIDE DEF d
    <2> QED
      BY <2>1, ConcatLaws
  <1>4. SomeOf(d, FileData')
    <2>1. SomeOf(d, FileData) /\ SomeOf(d, FileData \o Encodings(held))
      BY <1>1, SomeOfMore
    <2> HIDE DEF d
    <2> QED
      BY <1>2, <2>1
  <1>5. Buffered' = Encodings(e)
    BY <1>2, EncodingsOne
  <1>6. claimed' = d \o e \o HandMessages' \o QueuedMessages'
    BY <1>1, <1>3
  <1> HIDE DEF d, e
  <1> QED
    BY <1>3, <1>4, <1>5, <1>6 DEF WholeInv

\* The steps of the worker that may flush().
LEMMA WholeFlushWorker ==
  ASSUME TypeOK, LoggerInv, DataInv, WholeInv,
         FlushWhenEmpty \/ MakeRoomInBuffer
  PROVE  WholeInv'
  <1>1. UNCHANGED <<places, call, item, write_mode, write_buffer, claimed>>
    BY DEF FlushWhenEmpty, MakeRoomInBuffer, queueVars, controlVars
  <1>2. /\ wpc \in {"flush", "room"} /\ wpc' \in {"check", "put"}
        /\ wpc = "room" <=> wpc' = "put"
    BY DEF FlushWhenEmpty, MakeRoomInBuffer
  <1>3. HandMessages' = HandMessages /\ QueuedMessages' = QueuedMessages
    BY <1>1, <1>2 DEF HandMessages, QueuedMessages
  <1>4. CASE Flush
    BY <1>1, <1>3, <1>4, WholeFlush
  <1>5. CASE ~ Flush
    <2>1. UNCHANGED <<file, total_written, buffer_offset>>
      BY <1>5 DEF FlushWhenEmpty, MakeRoomInBuffer
    <2>2. FileData' = FileData /\ Buffered' = Buffered
      BY <1>1, <2>1, SameFileData DEF Buffered
    <2> QED
      BY <1>1, <1>3, <2>2, WholeSame
  <1> QED
    BY <1>4, <1>5

\* The worker's message gets behind the ones in the buffer.
LEMMA WholePutInBuffer ==
  ASSUME TypeOK, LoggerInv, DataInv, WholeInv, PutInBuffer
  PROVE  WholeInv'
  <1>1. /\ UNCHANGED <<places, call, item, write_mode, file, total_written,
                       claimed>>
        /\ wpc = "put" /\ wpc' = "check"
    BY DEF PutInBuffer, queueVars, fileVars, controlVars, history
  <1> SUFFICES ASSUME write_mode # "MMAP", "short" \notin Faults
               PROVE  WholeInv'
    BY <1>1 DEF WholeInv
  <1>2. PICK done \in Seq(Messages), held \in Seq(Messages) :
          /\ claimed = done \o held \o HandMessages \o QueuedMessages
          /\ SomeOf(done, FileData)
          /\ Buffered = Encodings(held)
    BY DEF WholeInv
  <1>3. FileData' = FileData /\ QueuedMessages' = QueuedMessages
    BY <1>1, SameFileData DEF QueuedMessages
  <1>4. call[Worker] = "none" /\ item[Worker] \in Messages
    BY <1>1 DEF DataInv, PositionInv, LoggerInv, HandInv
  <1> DEFINE m == <<item[Worker]>>
             h == held \o m
             e == <<>>
  <1>5. HandMessages = m /\ HandMessages' = e
    BY <1>1, <1>4 DEF HandMessages
  <1>6. m \in Seq(Messages) /\ h \in Seq(Messages)
    BY <1>4, ConcatLaws
  <1>7. Buffered' = Encodings(h)
    <2>1. Buffered' = Buffered \o Encode(item[Worker])
      BY PutInBufferEffect DEF DataInv
    <2>2. Encodings(m) = Encode(item[Worker])
      BY <1>4, EncodingsOne
    <2>3. Encodings(h) = Encodings(held) \o Encodings(m)
      BY <1>6, EncodingsConcat
    <2> QED
      BY <1>2, <2>1, <2>2, <2>3
  <1>8. claimed' = done \o h \o HandMessages' \o QueuedMessages'
    <2> HIDE DEF m, e
    <2>1. done \o h = done \o held \o m
      BY <1>6, RegroupMessages, Zenon
    <2>2. done \o h \in Seq(Messages)
      BY <1>6, ConcatLaws
    <2> DEFINE d == done \o h
    <2>3. d \o e = d
      <3> HIDE DEF d
      <3> QED
        BY <2>2, ConcatLaws DEF d, e
    <2> HIDE DEF h
    <2> QED
      BY <1>1, <1>2, <1>3, <1>5, <2>1, <2>3
  <1> HIDE DEF m, h, e
  <1> QED
    BY <1>2, <1>3, <1>6, <1>7, <1>8 DEF WholeInv

\* start() empties the file; buffer and hands are empty.
LEMMA WholeOpenFile ==
  ASSUME TypeOK, LoggerInv, DataInv, WholeInv, OpenFile
  PROVE  WholeInv'
  <1>1. /\ UNCHANGED <<places, call, item, write_mode, running, wpc,
                       write_buffer, buffer_offset>>
        /\ Alive /\ cpc = "idle" /\ ~ running
        /\ claimed' = QueuedMessages
        /\ write_mode # "MMAP" => file' = <<>>
    BY DEF OpenFile, ControllerFree, Truncated, queueVars, bufferVars,
           workerVars
  <1> SUFFICES ASSUME write_mode # "MMAP" PROVE WholeInv'
    BY <1>1 DEF WholeInv
  <1>2. buffer_offset = 0 /\ wpc = "none" /\ call[Worker] = "none"
    BY <1>1 DEF DataInv, LoggerInv, LifeCycle, PositionInv, Alive
  <1> DEFINE e == <<>>
  <1>3. FileData' = e
    <2>1. FileData' = FlattenSeq(DataOf(file'))
      BY <1>1 DEF FileData, DataOf
    <2>2. DataOf(<<>>) = <<>> /\ FlattenSeq(<<>>) = <<>>
      BY DEF DataOf, FlattenSeq
    <2> QED
      BY <1>1, <2>1, <2>2
  <1>4. Buffered' = Encodings(e)
    <2>1. Buffered' = <<>>
      BY <1>1, <1>2, SubSeqFront, Units DEF Buffered, DataInv, DataType
    <2> QED
      BY <2>1, EncodingsOne
  <1>5. HandMessages' = e
    BY <1>1, <1>2 DEF HandMessages
  <1>6. QueuedMessages' = QueuedMessages /\ QueuedMessages \in Seq(Messages)
    BY <1>1, MessagesType DEF QueuedMessages
  <1>7. claimed' = e \o e \o HandMessages' \o QueuedMessages'
    <2> DEFINE q == QueuedMessages
    <2>1. q \in Seq(Messages) /\ claimed' = q /\ QueuedMessages' = q
      BY <1>1, <1>6
    <2> HIDE DEF q
    <2>2. <<>> \o <<>> \o <<>> = <<>> /\ <<>> \o q = q
      BY <2>1, ConcatLaws
    <2> QED
      BY <1>5, <2>1, <2>2
  <1>8. SomeOf(e, FileData') /\ e \in Seq(Messages)
    BY <1>3, SomeOfNone
  <1> HIDE DEF e
  <1> QED
    BY <1>4, <1>7, <1>8 DEF WholeInv

\* Every step of the logger keeps the messages whole.
LEMMA WholeStep ==
  ASSUME TypeOK, LoggerInv, DataInv, WholeInv, [Next]_vars
  PROVE  WholeInv'
  <1>1. CASE \E p \in Producers : Log(p)
    BY <1>1, WholeLog
  <1>2. CASE LoopTest \/ Dequeue \/ DequeueFails
    BY <1>2, WholeDequeue
  <1>3. CASE FlushWhenEmpty \/ MakeRoomInBuffer
    BY <1>3, WholeFlushWorker
  <1>4. CASE PutInBuffer
    BY <1>4, WholePutInBuffer
  <1>5. CASE OpenFile
    BY <1>5, WholeOpenFile
  <1>6. CASE MakeRoomInMapping \/ PutInMapping \/ MapFails
    BY <1>6 DEF MakeRoomInMapping, PutInMapping, MapFails, WholeInv,
                controlVars
  <1>7. CASE StopFlush
    <2>1. /\ UNCHANGED <<places, call, item, wpc, write_mode, write_buffer,
                         claimed>>
          /\ Flush
      BY <1>7 DEF StopFlush, queueVars, workerVars
    <2>2. HandMessages' = HandMessages /\ QueuedMessages' = QueuedMessages
      BY <2>1 DEF HandMessages, QueuedMessages
    <2> QED
      BY <2>1, <2>2, WholeFlush
  <1>8. CASE OpenFails \/ Spawn \/ StopCall \/ Join \/ CloseFile
             \/ UNCHANGED vars
    <2>1. /\ UNCHANGED <<places, call, item, write_mode, write_buffer,
                         buffer_offset, total_written, claimed>>
          /\ write_mode # "MMAP" => file' = file
      BY <1>8 DEF OpenFails, Spawn, StopCall, Join, CloseFile, vars, queueVars,
                  fileVars, bufferVars, controlVars, history
    <2>2. wpc \in {"room", "put"} <=> wpc' \in {"room", "put"}
      BY <1>8 DEF OpenFails, Spawn, StopCall, Join, CloseFile, vars,
                  workerVars, LoggerInv, LifeCycle, Alive
    <2>3. /\ HandMessages' = HandMessages /\ QueuedMessages' = QueuedMessages
          /\ Buffered' = Buffered
      BY <2>1, <2>2 DEF HandMessages, QueuedMessages, Buffered
    <2>4. write_mode # "MMAP" => FileData' = FileData
      BY <2>1, SameFileData
    <2>5. CASE write_mode = "MMAP"
      BY <2>1, <2>5 DEF WholeInv
    <2> QED
      BY <2>1, <2>3, <2>4, <2>5, WholeSame
  <1> QED
    BY <1>1, <1>2, <1>3, <1>4, <1>5, <1>6, <1>7, <1>8
       DEF Next, WorkerLoop, Control, ControllerContinues

\* In the modes that write(), and as long as none of the writes is short, the
\* file holds whole messages in the order of their claims, however many calls
\* of write() fail and however often the logger is started again.
LEMMA WholeInvariant ==
  ASSUME OneMappedSession
  PROVE  Spec => []WholeInv
  <1>1. Init => WholeInv
    <2> SUFFICES ASSUME Init PROVE WholeInv
      OBVIOUS
    <2> DEFINE e == <<>>
    <2>1. /\ places = e /\ wpc = "none" /\ call[Worker] = "none"
          /\ file = e /\ total_written = 0 /\ buffer_offset = 0
          /\ claimed = e
          /\ write_buffer \in [1 .. BufferSize -> Unit]
      BY DataInit DEF Init, Queue!Init, Queue!Threads, DataInv, DataType
    <2>2. HandMessages = e /\ QueuedMessages = e
      BY <2>1 DEF HandMessages, QueuedMessages
    <2>3. Buffered = Encodings(e)
      <3>1. Buffered = <<>>
        BY <2>1, SubSeqFront, Units DEF Buffered
      <3> QED
        BY <3>1, EncodingsOne
    <2>4. FileData = e
      BY <2>1 DEF FileData, FlattenSeq
    <2>5. SomeOf(e, FileData) /\ e \in Seq(Messages)
      BY <2>4, SomeOfNone
    <2>6. claimed = e \o e \o HandMessages \o QueuedMessages
      BY <2>1, <2>2
    <2> HIDE DEF e
    <2> QED
      BY <2>3, <2>5, <2>6 DEF WholeInv
  <1>2. TypeOK /\ LoggerInv /\ DataInv /\ WholeInv /\ [Next]_vars => WholeInv'
    BY WholeStep
  <1> QED
    BY <1>1, <1>2, DataInvariant, PTL DEF Spec

=============================================================================
