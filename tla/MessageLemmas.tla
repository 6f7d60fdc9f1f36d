---------------------------- MODULE MessageLemmas ----------------------------
(***************************************************************************)
(* The layout of a message: where the fields of a packed struct lie, what  *)
(* a message put together field by field holds there, and what the parser  *)
(* and the logger's two switches make of it.  The facts about layouts hold *)
(* for every struct; the nine structs of itch_protocol.hpp are instances.  *)
(***************************************************************************)
EXTENDS Generators, FlattenLemmas

\* The provers do not know that a string literal is in STRING.
FieldName ==
  { "message_type", "stock_locate", "tracking_number", "timestamp",
    "order_reference_number", "buy_sell_indicator", "shares", "stock",
    "price", "executed_shares", "match_number", "printable",
    "execution_price", "cancelled_shares",
    "original_order_reference_number", "new_order_reference_number",
    "event_code", "market_category", "financial_status_indicator",
    "round_lot_size", "round_lots_only", "issue_classification",
    "issue_sub_type", "authenticity", "short_sale_threshold_indicator",
    "ipo_flag", "luld_reference_price_tier", "etp_flag",
    "etp_leverage_factor", "inverse_indicator" }

Field == [name : FieldName, bytes : Nat, array : BOOLEAN]

-----------------------------------------------------------------------------
(* Offsets *)

\* e[j] is the end of a struct's j-th field, for the first n fields; the
\* recursion of Offset.
IsEnd(struct, n, e) ==
  e = [j \in 0 .. n |-> IF j = 0 THEN 0 ELSE e[j - 1] + struct[j].bytes]

\* There is such an e.
LEMMA EndExists ==
  ASSUME NEW struct
  PROVE  \A n \in Nat : \E e : IsEnd(struct, n, e)
  <1> DEFINE T == {n \in Nat : ~ \E e : IsEnd(struct, n, e)}
  <1> SUFFICES ASSUME T # {} PROVE FALSE
    OBVIOUS
  <1>1. PICK m \in T : \A k \in T : m <= k
    BY LeastNat
  <1>2. CASE m = 0
    <2> DEFINE e == [j \in 0 .. 0 |-> 0]
    <2>1. IsEnd(struct, 0, e)
      BY DEF IsEnd
    <2> QED
      BY <1>2, <2>1
  <1>3. CASE m # 0
    <2>1. m \in Nat /\ m - 1 \in Nat /\ m - 1 \notin T
      BY <1>1, <1>3
    <2>2. PICK e : IsEnd(struct, m - 1, e)
      BY <2>1
    <2> DEFINE h == [j \in 0 .. m |->
                       IF j = 0 THEN 0
                       ELSE IF j = m THEN e[m - 1] + struct[j].bytes ELSE e[j]]
    <2>3. \A j \in 0 .. m - 1 :
            e[j] = IF j = 0 THEN 0 ELSE e[j - 1] + struct[j].bytes
      BY <2>2 DEF IsEnd
    <2>4. \A j \in 0 .. m - 1 : h[j] = e[j]
      BY <2>1, <2>3
    <2>5. \A j \in 0 .. m :
            h[j] = IF j = 0 THEN 0 ELSE h[j - 1] + struct[j].bytes
      <3> SUFFICES ASSUME NEW j \in 0 .. m, j # 0
                   PROVE  h[j] = h[j - 1] + struct[j].bytes
        BY <2>1
      <3>1. j - 1 \in 0 .. m - 1
        BY <2>1
      <3>2. CASE j = m
        BY <2>4, <3>1, <3>2
      <3>3. CASE j # m
        <4>1. j \in 0 .. m - 1
          BY <2>1, <3>3
        <4> QED
          BY <2>3, <2>4, <3>1, <4>1
      <3> QED
        BY <3>2, <3>3
    <2>6. h = [j \in 0 .. m |-> h[j]]
      OBVIOUS
    <2>7. IsEnd(struct, m, h)
      <3> HIDE DEF h
      <3> QED
        BY <2>5, <2>6 DEF IsEnd
    <2> QED
      BY <2>1, <2>7
  <1> QED
    BY <1>2, <1>3

\* A field begins where the one before it ends.
LEMMA OffsetLaws ==
  ASSUME NEW struct \in Seq(Field)
  PROVE  /\ Offset(struct, 1) = 0
         /\ \A i \in 1 .. Len(struct) :
              Offset(struct, i + 1) = Offset(struct, i) + struct[i].bytes
         /\ \A i \in 1 .. Len(struct) + 1 : Offset(struct, i) \in Nat
  <1> DEFINE n == Len(struct)
             e == CHOOSE g : IsEnd(struct, n, g)
  <1>1. n \in Nat /\ struct \in [1 .. n -> Field]
    BY LenProperties
  <1>2. IsEnd(struct, n, e)
    BY <1>1, EndExists
  <1>3. \A i : Offset(struct, i) = e[i - 1]
    BY Zenon DEF Offset, IsEnd
  <1> HIDE DEF e
  <1>4. \A j \in 0 .. n : e[j] = IF j = 0 THEN 0 ELSE e[j - 1] + struct[j].bytes
    BY <1>2 DEF IsEnd
  <1>5. \A j \in 1 .. n : struct[j].bytes \in Nat
    BY <1>1 DEF Field
  <1>6. \A j \in 0 .. n : e[j] \in Nat
    <2> DEFINE T == {j \in Nat : j <= n /\ e[j] \notin Nat}
    <2> SUFFICES ASSUME T # {} PROVE FALSE
      BY <1>1
    <2>1. PICK m \in T : \A k \in T : m <= k
      BY LeastNat
    <2>2. m # 0 => m - 1 \in Nat /\ m - 1 \notin T
      BY <2>1
    <2>3. m # 0 => e[m - 1] \in Nat
      BY <1>1, <2>2
    <2> QED
      BY <1>1, <1>4, <1>5, <2>3
  <1>7. Offset(struct, 1) = 0
    BY <1>1, <1>3, <1>4
  <1>8. ASSUME NEW i \in 1 .. n
        PROVE  Offset(struct, i + 1) = Offset(struct, i) + struct[i].bytes
    <2>1. i \in 0 .. n /\ i # 0 /\ (i + 1) - 1 = i
      BY <1>1
    <2> QED
      BY <1>3, <1>4, <2>1
  <1>9. ASSUME NEW i \in 1 .. n + 1
        PROVE  Offset(struct, i) \in Nat
    <2>1. i - 1 \in 0 .. n
      BY <1>1
    <2> QED
      BY <1>3, <1>6, <2>1
  <1> QED
    BY <1>7, <1>8, <1>9

\* The fields lie in order, and inside the struct.
LEMMA OffsetOrder ==
  ASSUME NEW struct \in Seq(Field), NEW i \in 1 .. Len(struct) + 1
  PROVE  \A j \in i .. Len(struct) + 1 : Offset(struct, i) <= Offset(struct, j)
  <1> DEFINE n == Len(struct)
             T == {j \in Nat : /\ i <= j /\ j <= n + 1
                               /\ ~ (Offset(struct, i) <= Offset(struct, j))}
  <1>1. n \in Nat /\ struct \in [1 .. n -> Field]
    BY LenProperties
  <1> HIDE DEF n
  <1>2. \A j \in 1 .. n + 1 : Offset(struct, j) \in Nat
    BY OffsetLaws DEF n
  <1> SUFFICES ASSUME T # {} PROVE FALSE
    BY <1>1 DEF n
  <1>3. PICK m \in T : \A k \in T : m <= k
    BY LeastNat
  <1>4. /\ m \in Nat /\ i <= m /\ m <= n + 1 /\ i \in 1 .. n + 1
        /\ ~ (Offset(struct, i) <= Offset(struct, m))
    BY DEF n
  <1>5. m # i
    BY <1>2, <1>4
  <1>6. m - 1 \in 1 .. n /\ i <= m - 1
    BY <1>1, <1>4, <1>5
  <1>7. m - 1 \notin T
    BY <1>3, <1>4
  <1>8. Offset(struct, i) <= Offset(struct, m - 1)
    BY <1>1, <1>6, <1>7
  <1>9. Offset(struct, m) = Offset(struct, m - 1) + struct[m - 1].bytes
    <2>1. (m - 1) + 1 = m
      BY <1>4
    <2> QED
      BY <1>6, <2>1, OffsetLaws DEF n
  <1>10. struct[m - 1].bytes \in Nat
    BY <1>1, <1>6 DEF Field
  <1>11. Offset(struct, i) \in Nat /\ Offset(struct, m - 1) \in Nat
    BY <1>1, <1>2, <1>4, <1>6
  <1> QED
    BY <1>4, <1>8, <1>9, <1>10, <1>11

\* sizeof is where the last field ends.
LEMMA SizeOf ==
  ASSUME NEW struct \in Seq(Field)
  PROVE  /\ sizeof(struct) \in Nat
         /\ \A i \in 1 .. Len(struct) :
              /\ Offset(struct, i) \in Nat /\ struct[i].bytes \in Nat
              /\ Offset(struct, i) + struct[i].bytes <= sizeof(struct)
  <1> DEFINE n == Len(struct)
  <1>1. n \in Nat /\ struct \in [1 .. n -> Field]
    BY LenProperties
  <1>2. sizeof(struct) = Offset(struct, n + 1)
    BY DEF sizeof
  <1>3. sizeof(struct) \in Nat
    BY <1>1, <1>2, OffsetLaws
  <1>4. ASSUME NEW i \in 1 .. n
        PROVE  /\ Offset(struct, i) \in Nat /\ struct[i].bytes \in Nat
               /\ Offset(struct, i) + struct[i].bytes <= sizeof(struct)
    <2>1. i + 1 \in 1 .. n + 1 /\ n + 1 \in i + 1 .. n + 1 /\ i \in 1 .. n + 1
      BY <1>1
    <2>2. Offset(struct, i + 1) <= Offset(struct, n + 1)
      BY <2>1, OffsetOrder
    <2>3. Offset(struct, i + 1) = Offset(struct, i) + struct[i].bytes
      BY OffsetLaws
    <2>4. Offset(struct, i) \in Nat /\ struct[i].bytes \in Nat
      BY <1>1, <2>1, OffsetLaws DEF Field
    <2> QED
      BY <1>2, <2>2, <2>3, <2>4
  <1> QED
    BY <1>3, <1>4

\* A sequence of byte sequences with the lengths of a struct's fields.
Fills(struct, ss) ==
  /\ Len(ss) = Len(struct)
  /\ \A i \in 1 .. Len(struct) : Len(ss[i]) = struct[i].bytes

\* What a message put together field by field holds at each field.
LEMMA FlattenAt ==
  ASSUME NEW struct \in Seq(Field), NEW S, NEW ss \in Seq(Seq(S)),
         Fills(struct, ss)
  PROVE  /\ FlattenSeq(ss) \in Seq(S)
         /\ Len(FlattenSeq(ss)) = sizeof(struct)
         /\ \A i \in 1 .. Len(struct) : \A k \in 1 .. struct[i].bytes :
              FlattenSeq(ss)[Offset(struct, i) + k] = ss[i][k]
  <1> DEFINE n == Len(struct)
  <1>1. /\ n \in Nat /\ struct \in [1 .. n -> Field]
        /\ ss \in [1 .. n -> Seq(S)] /\ Len(ss) = n
    BY LenProperties DEF Fills
  <1>2. FlattenSeq(ss) \in Seq(S)
    BY FlattenInSeq
  <1>3. CASE n = 0
    <2>1. FlattenSeq(ss) = << >>
      BY <1>1, <1>3, EmptySeq DEF FlattenSeq
    <2>2. sizeof(struct) = 0
      <3>1. Len(struct) + 1 = 1
        BY <1>3
      <3> QED
        BY <3>1, OffsetLaws DEF sizeof
    <2> QED
      BY <1>2, <1>3, <2>1, <2>2
  <1>4. CASE n # 0
    <2>1. ss # << >>
      BY <1>1, <1>4, EmptySeq
    <2>2. PICK g : IsFlatten(ss, n, g) /\ FlattenSeq(ss) = g[n]
      BY <1>1, <2>1, FlattenRecursion
    <2>3. \A m \in 1 .. n : g[m] = IF m = 1 THEN ss[m] ELSE g[m - 1] \o ss[m]
      BY <2>2 DEF IsFlatten
    <2>4. \A m \in 1 .. n : g[m] \in Seq(S)
      BY <1>1, <2>2, FlattenType
    <2> DEFINE Holds(m) ==
                 /\ Len(g[m]) = Offset(struct, m + 1)
                 /\ \A i \in 1 .. m : \A k \in 1 .. struct[i].bytes :
                      g[m][Offset(struct, i) + k] = ss[i][k]
               T == {m \in Nat : m \in 1 .. n /\ ~ Holds(m)}
    <2>5. Holds(1)
      <3>1. 1 \in 1 .. n /\ g[1] = ss[1] /\ Len(ss[1]) = struct[1].bytes
        BY <1>1, <1>4, <2>3 DEF Fills
      <3>2. /\ Offset(struct, 1) = 0 /\ struct[1].bytes \in Nat
            /\ Offset(struct, 1 + 1) = Offset(struct, 1) + struct[1].bytes
        BY <1>1, <3>1, OffsetLaws DEF Field
      <3>3. ASSUME NEW k \in 1 .. struct[1].bytes
            PROVE  g[1][Offset(struct, 1) + k] = ss[1][k]
        BY <3>1, <3>2
      <3> QED
        BY <3>1, <3>2, <3>3
    <2>6. ASSUME NEW m \in 1 .. n, m # 1, Holds(m - 1)
          PROVE  Holds(m)
      <3>1. m \in Nat /\ m - 1 \in 1 .. n /\ (m - 1) + 1 = m
        BY <1>1, <2>6
      <3>2. /\ g[m] = g[m - 1] \o ss[m]
            /\ g[m - 1] \in Seq(S) /\ ss[m] \in Seq(S)
            /\ Len(g[m - 1]) = Offset(struct, m)
            /\ Len(ss[m]) = struct[m].bytes
        BY <1>1, <2>3, <2>4, <2>6, <3>1 DEF Fills
      <3> DEFINE a == g[m - 1]
                 b == ss[m]
      <3>3. /\ Len(a \o b) = Len(a) + Len(b)
            /\ \A k \in 1 .. Len(a) + Len(b) :
                 (a \o b)[k] = IF k <= Len(a) THEN a[k] ELSE b[k - Len(a)]
        <4> HIDE DEF a, b
        <4> QED
          BY <3>2, ConcatProperties DEF a, b
      <3>4. /\ Offset(struct, m) \in Nat /\ struct[m].bytes \in Nat
            /\ Offset(struct, m + 1) = Offset(struct, m) + struct[m].bytes
        BY <1>1, SizeOf, OffsetLaws
      <3>5. Len(g[m]) = Offset(struct, m + 1)
        BY <3>2, <3>3, <3>4
      <3>6. ASSUME NEW i \in 1 .. m, NEW k \in 1 .. struct[i].bytes
            PROVE  g[m][Offset(struct, i) + k] = ss[i][k]
        <4>0. i \in 1 .. n /\ i \in Nat
          BY <1>1, <3>1
        <4>1. /\ Offset(struct, i) \in Nat /\ struct[i].bytes \in Nat
              /\ Offset(struct, i + 1) = Offset(struct, i) + struct[i].bytes
          BY <4>0, SizeOf, OffsetLaws
        <4>2. CASE i = m
          <5>1. /\ Offset(struct, m) + k \in 1 .. Len(a) + Len(b)
                /\ ~ (Offset(struct, m) + k <= Len(a))
                /\ (Offset(struct, m) + k) - Len(a) = k
            <6> DEFINE o == Offset(struct, m)
                       z == struct[m].bytes
            <6>1. o \in Nat /\ z \in Nat /\ k \in 1 .. z
              BY <3>4, <4>2
            <6>2. Len(a) = o /\ Len(b) = z
              BY <3>2
            <6> HIDE DEF o, z, a, b
            <6>3. /\ o + k \in 1 .. Len(a) + Len(b)
                  /\ ~ (o + k <= Len(a)) /\ (o + k) - Len(a) = k
              BY <6>1, <6>2
            <6> QED
              BY <6>3 DEF o
          <5> QED
            BY <3>2, <3>3, <4>2, <5>1
        <4>3. CASE i # m
          <5>1. i \in 1 .. m - 1 /\ i + 1 \in 1 .. n + 1 /\ m \in i + 1 .. n + 1
            BY <1>1, <3>1, <4>0, <4>3
          <5>2. Offset(struct, i + 1) <= Offset(struct, m)
            BY <5>1, OffsetOrder
          <5>3. /\ Offset(struct, i) + k \in 1 .. Len(a) + Len(b)
                /\ Offset(struct, i) + k <= Len(a)
            <6> DEFINE from == Offset(struct, i)
                       to == Offset(struct, m)
            <6>1. /\ from \in Nat /\ to \in Nat /\ struct[i].bytes \in Nat
                  /\ from + struct[i].bytes <= to
                  /\ Len(a) = to /\ Len(b) \in Nat
              BY <3>2, <3>4, <4>1, <5>2
            <6> HIDE DEF from, to, a, b
            <6>2. from + k \in 1 .. Len(a) + Len(b) /\ from + k <= Len(a)
              BY <6>1
            <6> QED
              BY <6>2 DEF from
          <5>4. a[Offset(struct, i) + k] = ss[i][k]
            BY <2>6, <5>1
          <5> QED
            BY <3>2, <3>3, <5>3, <5>4
        <4> QED
          BY <4>2, <4>3
      <3> QED
        BY <3>5, <3>6
    <2>7. Holds(n)
      <3> SUFFICES ASSUME T # {} PROVE FALSE
        BY <1>1, <1>4
      <3> HIDE DEF Holds
      <3>1. PICK m \in T : \A k \in T : m <= k
        BY LeastNat
      <3>2. m \in 1 .. n /\ m \in Nat /\ ~ Holds(m)
        OBVIOUS
      <3>3. m # 1
        BY <2>5, <3>2
      <3>4. m - 1 \in 1 .. n /\ m - 1 \in Nat /\ m - 1 \notin T
        BY <1>1, <3>1, <3>2, <3>3
      <3>5. Holds(m - 1)
        BY <3>4
      <3> QED
        BY <2>6, <3>2, <3>3, <3>5
    <2> QED
      BY <1>1, <1>2, <2>2, <2>7 DEF sizeof
  <1> QED
    BY <1>3, <1>4


\* The first fields of a struct lie where they do without the others.
LEMMA OffsetPrefix ==
  ASSUME NEW head \in Seq(Field), NEW own \in Seq(Field)
  PROVE  /\ head \o own \in Seq(Field)
         /\ \A i \in 1 .. Len(head) + 1 : Offset(head \o own, i) = Offset(head, i)
  <1> DEFINE all == head \o own
             n == Len(head)
             T == {i \in Nat : /\ i \in 1 .. n + 1
                               /\ Offset(all, i) # Offset(head, i)}
  <1>1. /\ n \in Nat /\ Len(own) \in Nat
        /\ all \in Seq(Field) /\ Len(all) = n + Len(own)
        /\ \A i \in 1 .. n : all[i] = head[i]
    BY LenProperties, ConcatProperties
  <1> HIDE DEF all, n
  <1>2. T = {}
    <2> SUFFICES ASSUME T # {} PROVE FALSE
      OBVIOUS
    <2>1. PICK m \in T : \A k \in T : m <= k
      BY LeastNat
    <2>2. m \in Nat /\ m \in 1 .. n + 1 /\ Offset(all, m) # Offset(head, m)
      OBVIOUS
    <2>3. m # 1
      BY <1>1, <2>2, OffsetLaws
    <2>4. /\ m - 1 \in Nat /\ m - 1 \in 1 .. n /\ m - 1 \in 1 .. Len(all)
          /\ (m - 1) + 1 = m /\ m - 1 \notin T
      BY <1>1, <2>1, <2>2, <2>3
    <2>5. Offset(all, m - 1) = Offset(head, m - 1)
      BY <1>1, <2>4
    <2>6. Offset(all, m) = Offset(all, m - 1) + all[m - 1].bytes
      BY <1>1, <2>4, OffsetLaws
    <2>7. Offset(head, m) = Offset(head, m - 1) + head[m - 1].bytes
      BY <2>4, OffsetLaws DEF n
    <2> QED
      BY <1>1, <2>2, <2>4, <2>5, <2>6, <2>7
  <1>3. \A i \in 1 .. n + 1 : Offset(all, i) = Offset(head, i)
    BY <1>1, <1>2
  <1> QED
    BY <1>1, <1>3 DEF all, n

\* The first fields of a struct end inside it.
LEMMA SizeOfHead ==
  ASSUME NEW head \in Seq(Field), NEW own \in Seq(Field)
  PROVE  sizeof(head) <= sizeof(head \o own)
  <1> DEFINE all == head \o own
  <1>1. /\ Len(head) \in Nat /\ Len(own) \in Nat
        /\ all \in Seq(Field) /\ Len(all) = Len(head) + Len(own)
    BY LenProperties, ConcatProperties
  <1>2. Offset(all, Len(head) + 1) = sizeof(head)
    BY <1>1, OffsetPrefix DEF sizeof
  <1> HIDE DEF all
  <1>3. /\ Len(head) + 1 \in 1 .. Len(all) + 1
        /\ Len(all) + 1 \in Len(head) + 1 .. Len(all) + 1
    BY <1>1
  <1>4. Offset(all, Len(head) + 1) <= Offset(all, Len(all) + 1)
    BY <1>1, <1>3, OffsetOrder
  <1> QED
    BY <1>2, <1>4 DEF all, sizeof

-----------------------------------------------------------------------------
(* Conversions *)

\* The conversion that turns a field around, if it is a number.
Suits(f, conversion) ==
  \/ f.array /\ conversion = "plain"
  \/ /\ ~ f.array
     /\ \/ f.bytes = 1 /\ conversion = "plain"
        \/ f.bytes = 2 /\ conversion = "ntoh16"
        \/ f.bytes = 4 /\ conversion = "ntoh32"
        \/ f.bytes = 8 /\ conversion = "ntoh64"

\* A parse_ function assigns every field, with the conversion it needs.
Converts(struct, assigned) ==
  \A i \in 1 .. Len(struct) :
    /\ struct[i].name \in DOMAIN assigned
    /\ Suits(struct[i], assigned[struct[i].name])

\* Fitting keeps the type and sets the length.
LEMMA FitTypes ==
  ASSUME NEW S, ZeroByte \in S, NEW x \in Seq(S), NEW n \in Nat
  PROVE  /\ Fit(x, n) \in Seq(S) /\ Len(Fit(x, n)) = n
         /\ bswap(x, n) \in Seq(S) /\ Len(bswap(x, n)) = n
         /\ \A k \in 1 .. n : bswap(x, n)[k] = Fit(x, n)[n + 1 - k]
  <1>1. Len(x) \in Nat /\ \A k \in 1 .. Len(x) : x[k] \in S
    BY LenProperties, ElementOfSeq
  <1>2. \A k \in 1 .. n : (IF k <= Len(x) THEN x[k] ELSE ZeroByte) \in S
    BY <1>1
  <1>3. Fit(x, n) \in [1 .. n -> S]
    BY <1>2 DEF Fit
  <1> DEFINE y == Fit(x, n)
  <1>4. y \in Seq(S) /\ Len(y) = n
    BY <1>3
  <1> HIDE DEF y
  <1>5. bswap(x, n) = [k \in 1 .. n |-> y[(n - k) + 1]]
    BY <1>4 DEF bswap, Reverse, y
  <1>6. \A k \in 1 .. n : (n - k) + 1 \in 1 .. n /\ (n - k) + 1 = n + 1 - k
    OBVIOUS
  <1>7. bswap(x, n) \in [1 .. n -> S]
    BY <1>3, <1>5, <1>6 DEF y
  <1>8. bswap(x, n) \in Seq(S) /\ Len(bswap(x, n)) = n
    BY <1>7
  <1>9. \A k \in 1 .. n : bswap(x, n)[k] = y[n + 1 - k]
    BY <1>5, <1>6
  <1> QED
    BY <1>4, <1>8, <1>9 DEF y

\* A field after its conversion: turned around if it is a number.
LEMMA ConvertField ==
  ASSUME NEW S, ZeroByte \in S, NEW f \in Field, NEW conversion,
         Suits(f, conversion), NEW x \in Seq(S), Len(x) = f.bytes
  PROVE  /\ Fit(Convert(conversion, x), f.bytes) \in Seq(S)
         /\ Len(Fit(Convert(conversion, x), f.bytes)) = f.bytes
         /\ \A k \in 1 .. f.bytes :
              Fit(Convert(conversion, x), f.bytes)[k]
                = x[IF f.array THEN k ELSE f.bytes + 1 - k]
  <1> DEFINE n == f.bytes
             y == Convert(conversion, x)
  <1>1. n \in Nat /\ f.array \in BOOLEAN
    BY DEF Field
  <1>2. CASE conversion = "plain"
    <2>1. y = x
      BY <1>2 DEF Convert
    <2>2. \A k \in 1 .. n : Fit(x, n)[k] = x[k]
      BY <1>1 DEF Fit
    <2>3. \A k \in 1 .. n : (IF f.array THEN k ELSE n + 1 - k) = k
      BY <1>1, <1>2 DEF Suits
    <2> QED
      BY <1>1, <2>1, <2>2, <2>3, FitTypes
  <1>3. CASE conversion # "plain"
    <2>1. ~ f.array /\ y = bswap(x, n)
      BY <1>3 DEF Suits, Convert, ntoh16, ntoh32, ntoh64
    <2>2. /\ y \in Seq(S) /\ Len(y) = n
          /\ \A k \in 1 .. n : y[k] = Fit(x, n)[n + 1 - k]
      <3> HIDE DEF n, y
      <3> QED
        BY <1>1, <2>1, FitTypes
    <2>3. \A k \in 1 .. n : Fit(x, n)[n + 1 - k] = x[n + 1 - k]
      BY <1>1 DEF Fit
    <2> HIDE DEF y
    <2>4. \A k \in 1 .. n : Fit(y, n)[k] = y[k]
      BY <1>1, <2>2 DEF Fit
    <2>5. Fit(y, n) \in Seq(S) /\ Len(Fit(y, n)) = n
      BY <1>1, <2>2, FitTypes
    <2>6. \A k \in 1 .. n : Fit(y, n)[k] = x[n + 1 - k]
      BY <2>2, <2>3, <2>4
    <2> QED
      BY <2>1, <2>5, <2>6 DEF y
  <1> QED
    BY <1>2, <1>3

\* The fields of the header and a message's own.
LEMMA ConvertsBoth ==
  ASSUME NEW head \in Seq(Field), NEW own \in Seq(Field), NEW t, NEW u,
         Converts(head, t), Converts(own, u),
         \A i \in 1 .. Len(own) : own[i].name \notin DOMAIN t
  PROVE  Converts(head \o own, WithHeader(t, u))
  <1> DEFINE all == head \o own
             w == WithHeader(t, u)
             n == Len(head)
  <1>1. /\ n \in Nat /\ Len(own) \in Nat /\ Len(all) = n + Len(own)
        /\ \A i \in 1 .. n : all[i] = head[i]
        /\ \A i \in n + 1 .. n + Len(own) : all[i] = own[i - n]
    BY LenProperties, ConcatProperties
  <1>2. /\ \A a \in DOMAIN t : a \in DOMAIN w /\ w[a] = t[a]
        /\ \A a \in DOMAIN u : a \notin DOMAIN t => a \in DOMAIN w /\ w[a] = u[a]
    BY DEF WithHeader
  <1> HIDE DEF all, w, n
  <1>3. ASSUME NEW i \in 1 .. Len(all)
        PROVE  all[i].name \in DOMAIN w /\ Suits(all[i], w[all[i].name])
    <2>1. CASE i <= n
      <3>1. i \in 1 .. n
        BY <1>1, <2>1
      <3> QED
        BY <1>1, <1>2, <3>1 DEF Converts, n
    <2>2. CASE i > n
      <3>1. i \in n + 1 .. n + Len(own) /\ i - n \in 1 .. Len(own)
        BY <1>1, <2>2
      <3> QED
        BY <1>1, <1>2, <3>1 DEF Converts
    <2> QED
      BY <1>1, <2>1, <2>2
  <1> QED
    BY <1>3 DEF Converts, all, w


-----------------------------------------------------------------------------
(* The nine structs *)

\* A struct that begins with the header, and its parse_ function.
Layout(struct, assigned) ==
  /\ struct \in Seq(Field)
  /\ Converts(struct, assigned)
  /\ sizeof(ITCHMessageHeader) <= sizeof(struct)
  /\ 1 <= Len(struct) /\ struct[1] = UInt("message_type", 8)

\* The header's four fields suit the conversions of every parse_ function.
LEMMA HeaderLayout ==
  /\ ITCHMessageHeader \in Seq(Field)
  /\ Converts(ITCHMessageHeader, header)
  /\ sizeof(ITCHMessageHeader) \in Nat \ {0}
  <1>0. Len(ITCHMessageHeader) = 4 /\ ITCHMessageHeader[1].bytes = 1
    BY DEF ITCHMessageHeader, UInt
  <1>1. ITCHMessageHeader \in Seq(Field)
    BY DEF ITCHMessageHeader, UInt, Field, FieldName
  <1>2. Converts(ITCHMessageHeader, header)
    BY DEF ITCHMessageHeader, UInt, header, Converts, Suits
  <1>3. /\ sizeof(ITCHMessageHeader) \in Nat
        /\ Offset(ITCHMessageHeader, 1) + 1 <= sizeof(ITCHMessageHeader)
        /\ Offset(ITCHMessageHeader, 1) \in Nat
    BY <1>0, <1>1, SizeOf
  <1> QED
    BY <1>1, <1>2, <1>3

\* A header and a body that suit make a struct that suits.
LEMMA LayoutBoth ==
  ASSUME NEW own \in Seq(Field), NEW u,
         \A i \in 1 .. Len(own) :
           /\ own[i].name \in DOMAIN u
           /\ Suits(own[i], u[own[i].name])
           /\ own[i].name \notin DOMAIN header
  PROVE  Layout(ITCHMessageHeader \o own, WithHeader(header, u))
  <1>1. Converts(own, u)
    BY DEF Converts
  <1>2. Converts(ITCHMessageHeader \o own, WithHeader(header, u))
    BY <1>1, HeaderLayout, ConvertsBoth
  <1>3. /\ ITCHMessageHeader \o own \in Seq(Field)
        /\ sizeof(ITCHMessageHeader) <= sizeof(ITCHMessageHeader \o own)
    BY HeaderLayout, OffsetPrefix, SizeOfHead
  <1>4. /\ Len(ITCHMessageHeader) = 4
        /\ ITCHMessageHeader[1] = UInt("message_type", 8)
    BY DEF ITCHMessageHeader
  <1>5. /\ 1 <= Len(ITCHMessageHeader \o own)
        /\ (ITCHMessageHeader \o own)[1] = UInt("message_type", 8)
    BY <1>4, HeaderLayout, ConcatProperties, LenProperties
  <1> QED
    BY <1>2, <1>3, <1>5 DEF Layout

\* The fields of this struct suit what its parse_ function assigns.
LEMMA AddOrderLayout ==
  Layout(AddOrderMessage, parse_add_order)
  <1> DEFINE
    own ==
      << UInt("order_reference_number", 64), UInt("buy_sell_indicator", 8),
         UInt("shares", 32), Chars("stock", 8), UInt("price", 32) >>
    u ==
      [ order_reference_number |-> "ntoh64", buy_sell_indicator |-> "plain",
        shares |-> "ntoh32", stock |-> "plain", price |-> "ntoh32" ]
  <1>1. own \in Seq(Field)
    BY DEF UInt, Chars, Field, FieldName
  <1>2. \A i \in 1 .. Len(own) :
          /\ own[i].name \in DOMAIN u
          /\ Suits(own[i], u[own[i].name])
          /\ own[i].name \notin DOMAIN header
    BY DEF UInt, Chars, Suits, header
  <1> QED
    BY <1>1, <1>2, LayoutBoth
    DEF AddOrderMessage, parse_add_order

\* The fields of this struct suit what its parse_ function assigns.
LEMMA ExecuteOrderLayout ==
  Layout(ExecuteOrderMessage, parse_execute_order)
  <1> DEFINE
    own ==
      << UInt("order_reference_number", 64), UInt("executed_shares", 32),
         UInt("match_number", 64) >>
    u ==
      [ order_reference_number |-> "ntoh64", executed_shares |-> "ntoh32",
        match_number |-> "ntoh64" ]
  <1>1. own \in Seq(Field)
    BY DEF UInt, Chars, Field, FieldName
  <1>2. \A i \in 1 .. Len(own) :
          /\ own[i].name \in DOMAIN u
          /\ Suits(own[i], u[own[i].name])
          /\ own[i].name \notin DOMAIN header
    BY DEF UInt, Chars, Suits, header
  <1> QED
    BY <1>1, <1>2, LayoutBoth
    DEF ExecuteOrderMessage, parse_execute_order

\* The fields of this struct suit what its parse_ function assigns.
LEMMA ExecuteWithPriceLayout ==
  Layout(ExecuteOrderWithPriceMessage, parse_execute_with_price)
  <1> DEFINE
    own ==
      << UInt("order_reference_number", 64), UInt("executed_shares", 32),
         UInt("match_number", 64), UInt("printable", 8),
         UInt("execution_price", 32) >>
    u ==
      [ order_reference_number |-> "ntoh64", executed_shares |-> "ntoh32",
        match_number |-> "ntoh64", printable |-> "plain",
        execution_price |-> "ntoh32" ]
  <1>1. own \in Seq(Field)
    BY DEF UInt, Chars, Field, FieldName
  <1>2. \A i \in 1 .. Len(own) :
          /\ own[i].name \in DOMAIN u
          /\ Suits(own[i], u[own[i].name])
          /\ own[i].name \notin DOMAIN header
    BY DEF UInt, Chars, Suits, header
  <1> QED
    BY <1>1, <1>2, LayoutBoth
    DEF ExecuteOrderWithPriceMessage, parse_execute_with_price

\* The fields of this struct suit what its parse_ function assigns.
LEMMA OrderCancelLayout ==
  Layout(OrderCancelMessage, parse_order_cancel)
  <1> DEFINE
    own ==
      << UInt("order_reference_number", 64), UInt("cancelled_shares", 32) >>
    u ==
      [ order_reference_number |-> "ntoh64", cancelled_shares |-> "ntoh32" ]
  <1>1. own \in Seq(Field)
    BY DEF UInt, Chars, Field, FieldName
  <1>2. \A i \in 1 .. Len(own) :
          /\ own[i].name \in DOMAIN u
          /\ Suits(own[i], u[own[i].name])
          /\ own[i].name \notin DOMAIN header
    BY DEF UInt, Chars, Suits, header
  <1> QED
    BY <1>1, <1>2, LayoutBoth
    DEF OrderCancelMessage, parse_order_cancel

\* The fields of this struct suit what its parse_ function assigns.
LEMMA OrderDeleteLayout ==
  Layout(OrderDeleteMessage, parse_order_delete)
  <1> DEFINE
    own ==
      << UInt("order_reference_number", 64) >>
    u ==
      [ order_reference_number |-> "ntoh64" ]
  <1>1. own \in Seq(Field)
    BY DEF UInt, Chars, Field, FieldName
  <1>2. \A i \in 1 .. Len(own) :
          /\ own[i].name \in DOMAIN u
          /\ Suits(own[i], u[own[i].name])
          /\ own[i].name \notin DOMAIN header
    BY DEF UInt, Chars, Suits, header
  <1> QED
    BY <1>1, <1>2, LayoutBoth
    DEF OrderDeleteMessage, parse_order_delete

\* The fields of this struct suit what its parse_ function assigns.
LEMMA OrderReplaceLayout ==
  Layout(OrderReplaceMessage, parse_order_replace)
  <1> DEFINE
    own ==
      << UInt("original_order_reference_number", 64),
         UInt("new_order_reference_number", 64), UInt("shares", 32),
         UInt("price", 32) >>
    u ==
      [ original_order_reference_number |-> "ntoh64",
        new_order_reference_number |-> "ntoh64", shares |-> "ntoh32",
        price |-> "ntoh32" ]
  <1>1. own \in Seq(Field)
    BY DEF UInt, Chars, Field, FieldName
  <1>2. \A i \in 1 .. Len(own) :
          /\ own[i].name \in DOMAIN u
          /\ Suits(own[i], u[own[i].name])
          /\ own[i].name \notin DOMAIN header
    BY DEF UInt, Chars, Suits, header
  <1> QED
    BY <1>1, <1>2, LayoutBoth
    DEF OrderReplaceMessage, parse_order_replace

\* The fields of this struct suit what its parse_ function assigns.
LEMMA TradeLayout ==
  Layout(TradeMessage, parse_trade)
  <1> DEFINE
    own ==
      << UInt("order_reference_number", 64), UInt("buy_sell_indicator", 8),
         UInt("shares", 32), Chars("stock", 8), UInt("price", 32),
         UInt("match_number", 64) >>
    u ==
      [ order_reference_number |-> "ntoh64", buy_sell_indicator |-> "plain",
        shares |-> "ntoh32", stock |-> "plain", price |-> "ntoh32",
        match_number |-> "ntoh64" ]
  <1>1. own \in Seq(Field)
    BY DEF UInt, Chars, Field, FieldName
  <1>2. \A i \in 1 .. Len(own) :
          /\ own[i].name \in DOMAIN u
          /\ Suits(own[i], u[own[i].name])
          /\ own[i].name \notin DOMAIN header
    BY DEF UInt, Chars, Suits, header
  <1> QED
    BY <1>1, <1>2, LayoutBoth
    DEF TradeMessage, parse_trade

\* The fields of this struct suit what its parse_ function assigns.
LEMMA SystemEventLayout ==
  Layout(SystemEventMessage, parse_system_event)
  <1> DEFINE
    own ==
      << UInt("event_code", 8) >>
    u ==
      [ event_code |-> "plain" ]
  <1>1. own \in Seq(Field)
    BY DEF UInt, Chars, Field, FieldName
  <1>2. \A i \in 1 .. Len(own) :
          /\ own[i].name \in DOMAIN u
          /\ Suits(own[i], u[own[i].name])
          /\ own[i].name \notin DOMAIN header
    BY DEF UInt, Chars, Suits, header
  <1> QED
    BY <1>1, <1>2, LayoutBoth
    DEF SystemEventMessage, parse_system_event

\* The fields of this struct suit what its parse_ function assigns.
LEMMA StockDirectoryLayout ==
  Layout(StockDirectoryMessage, parse_stock_directory)
  <1> DEFINE
    own ==
      << Chars("stock", 8), UInt("market_category", 8),
         UInt("financial_status_indicator", 8), UInt("round_lot_size", 32),
         UInt("round_lots_only", 8), UInt("issue_classification", 8),
         Chars("issue_sub_type", 2), UInt("authenticity", 8),
         UInt("short_sale_threshold_indicator", 8), UInt("ipo_flag", 8),
         UInt("luld_reference_price_tier", 8), UInt("etp_flag", 8),
         UInt("etp_leverage_factor", 32), UInt("inverse_indicator", 8) >>
    u ==
      [ stock |-> "plain", market_category |-> "plain",
        financial_status_indicator |-> "plain", round_lot_size |-> "ntoh32",
        round_lots_only |-> "plain", issue_classification |-> "plain",
        issue_sub_type |-> "plain", authenticity |-> "plain",
        short_sale_threshold_indicator |-> "plain", ipo_flag |-> "plain",
        luld_reference_price_tier |-> "plain", etp_flag |-> "plain",
        etp_leverage_factor |-> "ntoh32", inverse_indicator |-> "plain" ]
  <1>1. own \in Seq(Field)
    BY DEF UInt, Chars, Field, FieldName
  <1>2. \A i \in 1 .. Len(own) :
          /\ own[i].name \in DOMAIN u
          /\ Suits(own[i], u[own[i].name])
          /\ own[i].name \notin DOMAIN header
    BY DEF UInt, Chars, Suits, header
  <1> QED
    BY <1>1, <1>2, LayoutBoth
    DEF StockDirectoryMessage, parse_stock_directory

-----------------------------------------------------------------------------
(* Parsing *)

\* Max of a set of numbers that has a bound.
LEMMA MaxNat ==
  ASSUME NEW T \in SUBSET Nat, T # {}, NEW b \in Nat, \A x \in T : x <= b
  PROVE  Max(T) \in T /\ \A x \in T : x <= Max(T)
  <1> DEFINE U == {n \in Nat : \A x \in T : x <= n}
  <1>1. PICK m \in U : \A k \in U : m <= k
    BY LeastNat
  <1>2. m \in T
    <2> SUFFICES ASSUME m \notin T PROVE FALSE
      OBVIOUS
    <2>1. PICK x \in T : TRUE
      OBVIOUS
    <2>2. \A y \in T : y \in Nat /\ y <= m /\ y # m
      OBVIOUS
    <2>3. m - 1 \in Nat
      BY <2>1, <2>2
    <2>4. m - 1 \in U
      BY <2>2, <2>3
    <2> QED
      BY <1>1, <2>3, <2>4
  <1>3. \E n \in T : \A x \in T : n >= x
    BY <1>2
  <1>4. Max(T) \in T /\ \A x \in T : Max(T) >= x
    BY <1>3, Zenon DEF Max
  <1> QED
    BY <1>4

\* The union has room for every struct.
LEMMA UnionSize ==
  /\ sizeof_union \in Nat
  /\ \A struct \in ParsedMessage :
       /\ struct \in Seq(Field) /\ sizeof(struct) \in Nat
       /\ sizeof(struct) <= sizeof_union
  <1>1. \A struct \in ParsedMessage : struct \in Seq(Field)
    BY AddOrderLayout, ExecuteOrderLayout, ExecuteWithPriceLayout,
       OrderCancelLayout, OrderDeleteLayout, OrderReplaceLayout, TradeLayout,
       SystemEventLayout, StockDirectoryLayout DEF ParsedMessage, Layout
  <1>2. \A struct \in ParsedMessage : sizeof(struct) \in Nat
    BY <1>1, SizeOf
  <1> DEFINE T == {sizeof(struct) : struct \in ParsedMessage}
             b == sizeof(AddOrderMessage) + sizeof(ExecuteOrderMessage)
                  + sizeof(ExecuteOrderWithPriceMessage)
                  + sizeof(OrderCancelMessage) + sizeof(OrderDeleteMessage)
                  + sizeof(OrderReplaceMessage) + sizeof(TradeMessage)
                  + sizeof(SystemEventMessage) + sizeof(StockDirectoryMessage)
  <1>3. T \in SUBSET Nat /\ T # {}
    BY <1>2 DEF ParsedMessage
  <1>4. b \in Nat /\ \A x \in T : x <= b
    BY <1>2 DEF ParsedMessage
  <1>5. \A struct \in ParsedMessage : sizeof(struct) \in T
    OBVIOUS
  <1> HIDE DEF T, b
  <1>6. Max(T) \in T /\ \A x \in T : x <= Max(T)
    BY <1>3, <1>4, MaxNat
  <1>7. sizeof_union = Max(T)
    BY DEF sizeof_union, T
  <1> QED
    BY <1>1, <1>2, <1>3, <1>5, <1>6, <1>7

\* A field of a message is read where it lies.
LEMMA LoadAt ==
  ASSUME NEW struct \in Seq(Field), NEW S, NEW data \in Seq(S),
         sizeof(struct) <= Len(data), NEW i \in 1 .. Len(struct)
  PROVE  /\ Load(data, struct, i) \in Seq(S)
         /\ Len(Load(data, struct, i)) = struct[i].bytes
         /\ \A k \in 1 .. struct[i].bytes :
              Load(data, struct, i)[k] = data[Offset(struct, i) + k]
  <1> DEFINE n == struct[i].bytes
             from == Offset(struct, i)
             x == Load(data, struct, i)
  <1>1. /\ n \in Nat /\ from \in Nat /\ sizeof(struct) \in Nat
        /\ from + n <= sizeof(struct)
    BY SizeOf
  <1>2. Len(data) \in Nat /\ \A k \in 1 .. Len(data) : data[k] \in S
    BY LenProperties, ElementOfSeq
  <1>3. x = [k \in 1 .. n |-> IF from + k <= Len(data) THEN data[from + k]
                                                       ELSE Outside]
    BY DEF Load
  <1> HIDE DEF n, from, x
  <1>4. \A k \in 1 .. n : from + k \in 1 .. Len(data) /\ from + k <= Len(data)
    BY <1>1, <1>2
  <1>5. \A k \in 1 .. n : x[k] = data[from + k] /\ x[k] \in S
    BY <1>2, <1>3, <1>4
  <1>6. x \in [1 .. n -> S]
    BY <1>3, <1>5
  <1>7. x \in Seq(S) /\ Len(x) = n
    BY <1>1, <1>6
  <1> QED
    BY <1>5, <1>7 DEF n, from, x

\* The union after a message of the right length has been parsed into it:
\* every number turned around and everything else as it came.
LEMMA AssignAt ==
  ASSUME NEW struct \in ParsedMessage, NEW assigned, Layout(struct, assigned),
         NEW S, NEW data \in Seq(S), Len(data) = sizeof(struct)
  PROVE  \A i \in 1 .. Len(struct) : \A k \in 1 .. struct[i].bytes :
           Assign(struct, assigned, data)[Offset(struct, i) + k]
             = data[Offset(struct, i) + (IF struct[i].array THEN k
                                         ELSE struct[i].bytes + 1 - k)]
  <1> DEFINE B == S \cup {ZeroByte}
             F(i) == Fit(Convert(assigned[struct[i].name],
                                 Load(data, struct, i)), struct[i].bytes)
             ss == [i \in DOMAIN struct |-> F(i)]
  <1>1. /\ struct \in Seq(Field) /\ Len(struct) \in Nat
        /\ DOMAIN struct = 1 .. Len(struct)
        /\ \A i \in 1 .. Len(struct) : struct[i] \in Field
        /\ sizeof(struct) <= Len(data) /\ sizeof(struct) \in Nat
        /\ sizeof(struct) <= sizeof_union /\ sizeof_union \in Nat
    BY UnionSize, LenProperties, ElementOfSeq
  <1>2. data \in Seq(B) /\ ZeroByte \in B
    BY SeqMonotonic
  <1>3. ASSUME NEW i \in 1 .. Len(struct)
        PROVE  /\ F(i) \in Seq(B) /\ Len(F(i)) = struct[i].bytes
               /\ \A k \in 1 .. struct[i].bytes :
                    F(i)[k] = data[Offset(struct, i) +
                                     (IF struct[i].array THEN k
                                      ELSE struct[i].bytes + 1 - k)]
    <2> DEFINE x == Load(data, struct, i)
               f == struct[i]
               conversion == assigned[f.name]
    <2>1. /\ x \in Seq(B) /\ Len(x) = f.bytes
          /\ \A k \in 1 .. f.bytes : x[k] = data[Offset(struct, i) + k]
      BY <1>1, <1>2, LoadAt
    <2>2. f \in Field /\ Suits(f, conversion) /\ f.bytes \in Nat
      BY <1>1 DEF Layout, Converts, Field
    <2>3. F(i) = Fit(Convert(conversion, x), f.bytes)
      OBVIOUS
    <2> HIDE DEF x, f, conversion, F, B
    <2>4. /\ F(i) \in Seq(B) /\ Len(F(i)) = f.bytes
          /\ \A k \in 1 .. f.bytes :
               F(i)[k] = x[IF f.array THEN k ELSE f.bytes + 1 - k]
      BY <1>2, <2>1, <2>2, <2>3, ConvertField
    <2>5. \A k \in 1 .. f.bytes :
            (IF f.array THEN k ELSE f.bytes + 1 - k) \in 1 .. f.bytes
      BY <2>2
    <2> QED
      BY <2>1, <2>4, <2>5 DEF f
  <1> HIDE DEF B, F
  <1>4. ss \in Seq(Seq(B)) /\ Fills(struct, ss)
    <2>1. ss \in [1 .. Len(struct) -> Seq(B)]
      BY <1>1, <1>3
    <2>2. ss \in Seq(Seq(B)) /\ Len(ss) = Len(struct)
      BY <1>1, <2>1
    <2>3. \A i \in 1 .. Len(struct) : Len(ss[i]) = struct[i].bytes
      BY <1>1, <1>3
    <2> QED
      BY <2>2, <2>3 DEF Fills
  <1>5. Assign(struct, assigned, data)
          = memcpy(Fresh(sizeof_union), FlattenSeq(ss), sizeof(struct))
    <2>1. \A i \in DOMAIN struct : struct[i].name \in DOMAIN assigned
      BY <1>1 DEF Layout, Converts
    <2>2. [i \in DOMAIN struct |->
             IF struct[i].name \in DOMAIN assigned
             THEN Fit(Convert(assigned[struct[i].name], Load(data, struct, i)),
                      struct[i].bytes)
             ELSE Fresh(struct[i].bytes)] = ss
      BY <2>1 DEF F
    <2> HIDE DEF ss
    <2> QED
      BY <2>2 DEF Assign
  <1> HIDE DEF ss
  <1>6. \A k \in 1 .. sizeof(struct) :
          Assign(struct, assigned, data)[k] = FlattenSeq(ss)[k]
    BY <1>1, <1>5 DEF memcpy, Fresh
  <1>7. ASSUME NEW i \in 1 .. Len(struct), NEW k \in 1 .. struct[i].bytes
        PROVE  Assign(struct, assigned, data)[Offset(struct, i) + k] = F(i)[k]
    <2>1. FlattenSeq(ss)[Offset(struct, i) + k] = ss[i][k]
      BY <1>1, <1>4, FlattenAt
    <2>2. /\ Offset(struct, i) \in Nat /\ struct[i].bytes \in Nat
          /\ Offset(struct, i) + struct[i].bytes <= sizeof(struct)
      BY <1>1, SizeOf
    <2>3. Offset(struct, i) + k \in 1 .. sizeof(struct)
      BY <1>1, <2>2
    <2>4. ss[i] = F(i)
      BY <1>1 DEF ss
    <2> QED
      BY <1>6, <2>1, <2>3, <2>4
  <1> QED
    BY <1>3, <1>7


\* The types the parser knows, with their structs and parse_ functions.
Structs ==
  [ A |-> AddOrderMessage, E |-> ExecuteOrderMessage,
    C |-> ExecuteOrderWithPriceMessage, X |-> OrderCancelMessage,
    D |-> OrderDeleteMessage, U |-> OrderReplaceMessage, P |-> TradeMessage,
    S |-> SystemEventMessage, R |-> StockDirectoryMessage ]

Tables ==
  [ A |-> parse_add_order, E |-> parse_execute_order,
    C |-> parse_execute_with_price, X |-> parse_order_cancel,
    D |-> parse_order_delete, U |-> parse_order_replace, P |-> parse_trade,
    S |-> parse_system_event, R |-> parse_stock_directory ]

\* All nine structs suit the parse_ function of their type.
LEMMA StructsLayout ==
  ASSUME NEW t \in DOMAIN Structs
  PROVE  Structs[t] \in ParsedMessage /\ Layout(Structs[t], Tables[t])
  <1>1. t \in {"A", "E", "C", "X", "D", "U", "P", "S", "R"}
    BY DEF Structs
  <1>2. Structs[t] \in ParsedMessage
    BY <1>1 DEF Structs, ParsedMessage
  <1>3. Layout(Structs[t], Tables[t])
    BY <1>1, AddOrderLayout, ExecuteOrderLayout, ExecuteWithPriceLayout,
       OrderCancelLayout, OrderDeleteLayout, OrderReplaceLayout, TradeLayout,
       SystemEventLayout, StockDirectoryLayout DEF Structs, Tables
  <1> QED
    BY <1>2, <1>3

\* The switch of parse(), with the tests of the length in its cases.
LEMMA ParseCases ==
  ASSUME NEW data, Len(data) \in Nat
  PROVE  /\ \A t \in DOMAIN Structs : Char(data[1]) = t =>
              parse(data) =
                IF Len(data) = sizeof(Structs[t])
                THEN [has_value |-> TRUE, type |-> t,
                      member |-> Assign(Structs[t], Tables[t], data)]
                ELSE nullopt
         /\ Char(data[1]) \notin DOMAIN Structs => parse(data) = nullopt
  <1> DEFINE type == Char(data[1])
  <1>1. CASE Len(data) < sizeof(ITCHMessageHeader)
    <2>1. parse(data) = nullopt
      BY <1>1 DEF parse
    <2>2. \A t \in DOMAIN Structs : Len(data) # sizeof(Structs[t])
      <3> SUFFICES ASSUME NEW t \in DOMAIN Structs,
                          Len(data) = sizeof(Structs[t])
                   PROVE  FALSE
        OBVIOUS
      <3>1. sizeof(ITCHMessageHeader) <= sizeof(Structs[t])
        BY StructsLayout DEF Layout
      <3>2. sizeof(ITCHMessageHeader) \in Nat
        BY HeaderLayout
      <3> QED
        BY <1>1, <3>1, <3>2
    <2> QED
      BY <2>1, <2>2
  <1>2. CASE ~ (Len(data) < sizeof(ITCHMessageHeader))
    <2> DEFINE As(struct, assigned) ==
                 IF Len(data) = sizeof(struct)
                 THEN [has_value |-> TRUE, type |-> type,
                       member |-> Assign(struct, assigned, data)]
                 ELSE nullopt
    <2>1. parse(data) =
            CASE type = MessageType.ADD_ORDER ->
                   As(AddOrderMessage, parse_add_order)
              [] type = MessageType.EXECUTE_ORDER ->
                   As(ExecuteOrderMessage, parse_execute_order)
              [] type = MessageType.EXECUTE_ORDER_WITH_PRICE ->
                   As(ExecuteOrderWithPriceMessage, parse_execute_with_price)
              [] type = MessageType.ORDER_CANCEL ->
                   As(OrderCancelMessage, parse_order_cancel)
              [] type = MessageType.ORDER_DELETE ->
                   As(OrderDeleteMessage, parse_order_delete)
              [] type = MessageType.ORDER_REPLACE ->
                   As(OrderReplaceMessage, parse_order_replace)
              [] type = MessageType.TRADE ->
                   As(TradeMessage, parse_trade)
              [] type = MessageType.SYSTEM_EVENT ->
                   As(SystemEventMessage, parse_system_event)
              [] type = MessageType.STOCK_DIRECTORY ->
                   As(StockDirectoryMessage, parse_stock_directory)
              [] OTHER -> nullopt
      BY <1>2 DEF parse
    <2>2. ASSUME NEW t \in DOMAIN Structs, type = t
          PROVE  parse(data) = As(Structs[t], Tables[t])
      <3>1. t \in {"A", "E", "C", "X", "D", "U", "P", "S", "R"}
        BY DEF Structs
      <3> HIDE DEF As, type
      <3> QED
        BY <2>1, <2>2, <3>1 DEF Structs, Tables, MessageType
    <2>3. ASSUME type \notin DOMAIN Structs
          PROVE  parse(data) = nullopt
      <3>1. type \notin {"A", "E", "C", "X", "D", "U", "P", "S", "R"}
        BY <2>3 DEF Structs
      <3> HIDE DEF As, type
      <3> QED
        BY <2>1, <3>1 DEF MessageType
    <2> QED
      BY <2>2, <2>3
  <1> QED
    BY <1>1, <1>2

\* The two switches of the logger.
LEMMA LogCases ==
  ASSUME NEW t \in DOMAIN Structs, NEW msg, msg.type = t
  PROVE  /\ get_message_size(msg) = sizeof(Structs[t])
         /\ \A dest : serialize_message(dest, msg)
                        = memcpy(dest, msg.member, sizeof(Structs[t]))
  <1>1. t \in {"A", "E", "C", "X", "D", "U", "P", "S", "R"}
    BY DEF Structs
  <1>2. get_message_size(msg) = sizeof(Structs[t])
    BY <1>1 DEF get_message_size, MessageType, Structs
  <1>3. \A dest : serialize_message(dest, msg)
                    = memcpy(dest, msg.member, sizeof(Structs[t]))
    BY <1>1 DEF serialize_message, MessageType, Structs
  <1> QED
    BY <1>2, <1>3


-----------------------------------------------------------------------------
(* Generating *)

\* A sequence of anything.
IsSeq(x) == x \in Seq(Range(x))

\* Every sequence is one over its own range.
LEMMA SeqIsSeq ==
  ASSUME NEW S, NEW x \in Seq(S)
  PROVE  IsSeq(x)
  <1>1. Len(x) \in Nat /\ x \in [1 .. Len(x) -> S] /\ DOMAIN x = 1 .. Len(x)
    BY LenProperties
  <1>2. \A k \in 1 .. Len(x) : x[k] \in Range(x)
    BY <1>1 DEF Range
  <1>3. x = [k \in 1 .. Len(x) |-> x[k]]
    BY <1>1
  <1>4. x \in [1 .. Len(x) -> Range(x)]
    BY <1>2, <1>3
  <1> QED
    BY <1>1, <1>4 DEF IsSeq

\* A function on 1 .. n is a sequence.
LEMMA FunctionIsSeq ==
  ASSUME NEW n \in Nat, NEW x, x = [k \in 1 .. n |-> x[k]]
  PROVE  IsSeq(x) /\ Len(x) = n
  <1>1. x \in [1 .. n -> Range(x)]
    BY DEF Range
  <1> QED
    BY <1>1 DEF IsSeq

\* The bytes of a value, of a fitted and of a swapped one.
LEMMA ValueSeq ==
  ASSUME NEW name, NEW bits \in Nat
  PROVE  /\ IsSeq(Value(name, bits)) /\ Len(Value(name, bits)) = bits \div 8
         /\ \A k \in 1 .. bits \div 8 : Value(name, bits)[k] = <<name, k, "x">>
  <1> DEFINE n == bits \div 8
             x == Value(name, bits)
  <1>1. n \in Nat
    OBVIOUS
  <1>2. x = [k \in 1 .. n |-> <<name, k, "x">>]
    BY DEF Value
  <1> HIDE DEF n, x
  <1>3. \A k \in 1 .. n : x[k] = <<name, k, "x">>
    BY <1>2
  <1>4. x = [k \in 1 .. n |-> x[k]]
    BY <1>2
  <1>5. IsSeq(x) /\ Len(x) = n
    BY <1>1, <1>4, FunctionIsSeq
  <1> QED
    BY <1>3, <1>5 DEF n, x

\* The length and the bytes of a fitted and of a swapped value.
LEMMA FitSeq ==
  ASSUME NEW x, IsSeq(x), NEW n \in Nat
  PROVE  /\ IsSeq(Fit(x, n)) /\ Len(Fit(x, n)) = n
         /\ IsSeq(bswap(x, n)) /\ Len(bswap(x, n)) = n
         /\ \A k \in 1 .. n : bswap(x, n)[k] = Fit(x, n)[n + 1 - k]
  <1> DEFINE S == Range(x) \cup {ZeroByte}
  <1>1. x \in Seq(S)
    BY SeqMonotonic DEF IsSeq
  <1>2. ZeroByte \in S
    OBVIOUS
  <1> HIDE DEF S
  <1>3. /\ Fit(x, n) \in Seq(S) /\ Len(Fit(x, n)) = n
        /\ bswap(x, n) \in Seq(S) /\ Len(bswap(x, n)) = n
        /\ \A k \in 1 .. n : bswap(x, n)[k] = Fit(x, n)[n + 1 - k]
    BY <1>1, <1>2, FitTypes
  <1> QED
    BY <1>3, SeqIsSeq

\* A message made up field by field.
LEMMA FillAt ==
  ASSUME NEW struct \in Seq(Field), NEW assigned,
         \A i \in 1 .. Len(struct) : /\ struct[i].name \in DOMAIN assigned
                                     /\ IsSeq(assigned[struct[i].name])
  PROVE  /\ IsSeq(Fill(struct, assigned))
         /\ Len(Fill(struct, assigned)) = sizeof(struct)
         /\ \A i \in 1 .. Len(struct) : \A k \in 1 .. struct[i].bytes :
              Fill(struct, assigned)[Offset(struct, i) + k]
                = Fit(assigned[struct[i].name], struct[i].bytes)[k]
  <1> DEFINE F(i) == Fit(assigned[struct[i].name], struct[i].bytes)
             ss == [i \in DOMAIN struct |-> F(i)]
             S == UNION {Range(F(i)) : i \in 1 .. Len(struct)}
  <1>1. /\ Len(struct) \in Nat /\ DOMAIN struct = 1 .. Len(struct)
        /\ \A i \in 1 .. Len(struct) : struct[i].bytes \in Nat
    BY LenProperties, SizeOf
  <1>2. ASSUME NEW i \in 1 .. Len(struct)
        PROVE  F(i) \in Seq(S) /\ Len(F(i)) = struct[i].bytes
    <2>1. IsSeq(F(i)) /\ Len(F(i)) = struct[i].bytes
      BY <1>1, FitSeq
    <2>2. Range(F(i)) \subseteq S
      OBVIOUS
    <2> HIDE DEF F, S
    <2>3. F(i) \in Seq(S)
      BY <2>1, <2>2, SeqMonotonic DEF IsSeq
    <2> QED
      BY <2>1, <2>3
  <1> HIDE DEF F, S
  <1>3. ss \in Seq(Seq(S)) /\ Fills(struct, ss)
    <2>1. ss \in [1 .. Len(struct) -> Seq(S)]
      BY <1>1, <1>2
    <2>2. ss \in Seq(Seq(S)) /\ Len(ss) = Len(struct)
      BY <1>1, <2>1
    <2>3. \A i \in 1 .. Len(struct) : Len(ss[i]) = struct[i].bytes
      BY <1>1, <1>2
    <2> QED
      BY <2>2, <2>3 DEF Fills
  <1>4. Fill(struct, assigned) = FlattenSeq(ss)
    <2>1. [i \in DOMAIN struct |->
             Fit(IF struct[i].name \in DOMAIN assigned
                 THEN assigned[struct[i].name] ELSE <<>>, struct[i].bytes)] = ss
      BY <1>1 DEF F
    <2> HIDE DEF ss
    <2> QED
      BY <2>1 DEF Fill
  <1>5. \A i \in 1 .. Len(struct) : ss[i] = F(i)
    BY <1>1
  <1> HIDE DEF ss
  <1>6. /\ FlattenSeq(ss) \in Seq(S) /\ Len(FlattenSeq(ss)) = sizeof(struct)
        /\ \A i \in 1 .. Len(struct) : \A k \in 1 .. struct[i].bytes :
             FlattenSeq(ss)[Offset(struct, i) + k] = F(i)[k]
    BY <1>3, <1>5, FlattenAt
  <1> QED
    BY <1>4, <1>6, SeqIsSeq DEF F


-----------------------------------------------------------------------------
(* The stock symbol *)

\* g[j] is the length left of the first j characters; the recursion of
\* get_stock_symbol.
IsTrim(stock, n, g) ==
  g = [j \in 0 .. n |-> IF j > 0 /\ Char(stock[j]) = Blank THEN g[j - 1] ELSE j]

\* The loop of get_stock_symbol ends somewhere.
LEMMA TrimExists ==
  ASSUME NEW stock
  PROVE  \A n \in Nat : \E g : IsTrim(stock, n, g)
  <1> DEFINE T == {n \in Nat : ~ \E g : IsTrim(stock, n, g)}
             B(j) == j > 0 /\ Char(stock[j]) = Blank
  <1> SUFFICES ASSUME T # {} PROVE FALSE
    OBVIOUS
  <1>1. PICK m \in T : \A k \in T : m <= k
    BY LeastNat
  <1>2. CASE m = 0
    <2> DEFINE g == [j \in 0 .. 0 |-> 0]
    <2>1. IsTrim(stock, 0, g)
      BY DEF IsTrim
    <2> QED
      BY <1>2, <2>1
  <1>3. CASE m # 0
    <2>1. m \in Nat /\ m - 1 \in Nat /\ m - 1 \notin T
      BY <1>1, <1>3
    <2>2. PICK g : IsTrim(stock, m - 1, g)
      BY <2>1
    <2> DEFINE h == [j \in 0 .. m |->
                       IF j = m THEN IF B(m) THEN g[m - 1] ELSE m ELSE g[j]]
    <2>3. \A j \in 0 .. m - 1 : g[j] = IF B(j) THEN g[j - 1] ELSE j
      BY <2>2 DEF IsTrim
    <2>4. \A j \in 0 .. m - 1 : h[j] = g[j]
      BY <2>1
    <2> HIDE DEF B
    <2>5. ASSUME NEW j \in 0 .. m
          PROVE  h[j] = IF B(j) THEN h[j - 1] ELSE j
      <3>1. j # 0 => j - 1 \in 0 .. m - 1
        BY <2>1
      <3>2. B(j) => j # 0
        BY DEF B
      <3>3. CASE j = m
        BY <1>3, <2>4, <3>1, <3>3
      <3>4. CASE j # m
        <4>1. j \in 0 .. m - 1
          BY <2>1, <3>4
        <4> QED
          BY <2>3, <2>4, <3>1, <3>2, <4>1
      <3> QED
        BY <3>3, <3>4
    <2>6. h = [j \in 0 .. m |-> h[j]]
      OBVIOUS
    <2>7. IsTrim(stock, m, h)
      <3> HIDE DEF h
      <3> QED
        BY <2>5, <2>6 DEF IsTrim, B
    <2> QED
      BY <2>1, <2>7
  <1> QED
    BY <1>2, <1>3

\* The symbol is the field without the blanks at its end, and without any
\* other.
LEMMA SymbolLaws ==
  ASSUME NEW stock
  PROVE  \E n \in 0 .. 8 :
           /\ get_stock_symbol(stock) = SubSeq(stock, 1, n)
           /\ \A k \in n + 1 .. 8 : Char(stock[k]) = Blank
           /\ n > 0 => Char(stock[n]) # Blank
  <1> DEFINE g == CHOOSE h : IsTrim(stock, 8, h)
             B(j) == Char(stock[j]) = Blank
  <1>1. IsTrim(stock, 8, g)
    BY TrimExists
  <1>2. get_stock_symbol(stock) = SubSeq(stock, 1, g[8])
    BY Zenon DEF get_stock_symbol, IsTrim
  <1> HIDE DEF g
  <1>3. \A j \in 0 .. 8 : g[j] = IF j > 0 /\ B(j) THEN g[j - 1] ELSE j
    BY <1>1 DEF IsTrim
  <1> DEFINE Good(j) == /\ g[j] \in 0 .. j
                        /\ \A k \in g[j] + 1 .. j : B(k)
                        /\ g[j] > 0 => ~ B(g[j])
             T == {j \in Nat : j <= 8 /\ ~ Good(j)}
  <1> HIDE DEF B
  <1>4. \A j \in 0 .. 8 : Good(j)
    <2> SUFFICES ASSUME T # {} PROVE FALSE
      OBVIOUS
    <2>1. PICK m \in T : \A k \in T : m <= k
      BY LeastNat
    <2>2. m \in Nat /\ m <= 8 /\ ~ Good(m)
      OBVIOUS
    <2>3. CASE m > 0 /\ B(m)
      <3>1. m - 1 \in Nat /\ m - 1 <= 8 /\ m - 1 \notin T
        BY <2>1, <2>2, <2>3
      <3>2. Good(m - 1)
        BY <3>1
      <3>3. g[m] = g[m - 1]
        BY <1>3, <2>2, <2>3
      <3>4. \A k \in g[m - 1] + 1 .. m : B(k)
        BY <2>2, <2>3, <3>1, <3>2
      <3> QED
        BY <2>2, <3>1, <3>2, <3>3, <3>4
    <2>4. CASE ~ (m > 0 /\ B(m))
      <3>1. g[m] = m
        BY <1>3, <2>2, <2>4
      <3> QED
        BY <2>2, <2>4, <3>1
    <2> QED
      BY <2>3, <2>4
  <1>5. Good(8)
    BY <1>4
  <1> QED
    BY <1>2, <1>5 DEF B

\* The padding of a symbol that has no blank is what is taken off again.
LEMMA SymbolOfPadded ==
  ASSUME NEW symbol, IsSeq(symbol), Len(symbol) \in 1 .. 8,
         \A k \in 1 .. Len(symbol) : Char(symbol[k]) # Blank
  PROVE  get_stock_symbol(Padded(symbol)) = symbol
  <1> DEFINE stock == Padded(symbol)
             m == Len(symbol)
  <1>1. PICK n \in 0 .. 8 :
               /\ get_stock_symbol(stock) = SubSeq(stock, 1, n)
               /\ \A k \in n + 1 .. 8 : Char(stock[k]) = Blank
               /\ n > 0 => Char(stock[n]) # Blank
    BY SymbolLaws
  <1>2. /\ stock = [k \in 1 .. 8 |-> stock[k]]
        /\ \A k \in 1 .. 8 : k <= m => stock[k] = symbol[k]
        /\ \A k \in 1 .. 8 : k > m => Char(stock[k]) = Blank
    BY DEF Padded, Char
  <1>3. m \in 1 .. 8 /\ symbol = [k \in 1 .. m |-> symbol[k]]
    BY LenProperties DEF IsSeq
  <1> HIDE DEF stock, m
  <1>4. n = m
    <2>1. n <= m
      BY <1>1, <1>2, <1>3
    <2>2. Char(stock[m]) # Blank
      <3>1. m \in 1 .. m /\ m <= m
        BY <1>3
      <3>2. Char(symbol[m]) # Blank
        BY <3>1 DEF m
      <3> QED
        BY <1>2, <1>3, <3>1, <3>2
    <2>3. m <= n
      BY <1>1, <1>3, <2>2
    <2> QED
      BY <1>3, <2>1, <2>3
  <1>5. IsSeq(stock) /\ Len(stock) = 8
    BY <1>2, FunctionIsSeq
  <1>6. SubSeq(stock, 1, m) = [k \in 1 .. m |-> stock[k]]
    BY <1>3, <1>5 DEF IsSeq
  <1>7. [k \in 1 .. m |-> stock[k]] = [k \in 1 .. m |-> symbol[k]]
    BY <1>2, <1>3
  <1> QED
    BY <1>1, <1>3, <1>4, <1>6, <1>7 DEF stock


-----------------------------------------------------------------------------
(* From a generator through the parser *)

\* A struct has one field of this name; kind is "chars" or "number".
HasField(struct, name, n, kind) ==
  /\ \E i \in DOMAIN struct : struct[i].name = name
  /\ \A i \in DOMAIN struct : struct[i].name = name =>
       struct[i].bytes = n /\ (struct[i].array <=> kind = "chars")

FieldNamed(struct, name) == CHOOSE i \in DOMAIN struct : struct[i].name = name

\* AddOrderMessage, field by field.
LEMMA OrderStruct ==
  /\ DOMAIN AddOrderMessage = 1 .. 9 /\ Len(AddOrderMessage) = 9
  /\ AddOrderMessage[1] = UInt("message_type", 8)
  /\ AddOrderMessage[2] = UInt("stock_locate", 16)
  /\ AddOrderMessage[3] = UInt("tracking_number", 16)
  /\ AddOrderMessage[4] = UInt("timestamp", 64)
  /\ AddOrderMessage[5] = UInt("order_reference_number", 64)
  /\ AddOrderMessage[6] = UInt("buy_sell_indicator", 8)
  /\ AddOrderMessage[7] = UInt("shares", 32)
  /\ AddOrderMessage[8] = Chars("stock", 8)
  /\ AddOrderMessage[9] = UInt("price", 32)
  BY DEF AddOrderMessage, ITCHMessageHeader

\* The fields of AddOrderMessage that print_message shows.
LEMMA OrderFields ==
  /\ HasField(AddOrderMessage, "stock", 8, "chars")
  /\ HasField(AddOrderMessage, "buy_sell_indicator", 1, "number")
  /\ HasField(AddOrderMessage, "shares", 4, "number")
  /\ HasField(AddOrderMessage, "price", 4, "number")
  /\ HasField(AddOrderMessage, "order_reference_number", 8, "number")
  BY OrderStruct DEF HasField, UInt, Chars

\* TradeMessage, field by field.
LEMMA TradeStruct ==
  /\ DOMAIN TradeMessage = 1 .. 10 /\ Len(TradeMessage) = 10
  /\ TradeMessage[1] = UInt("message_type", 8)
  /\ TradeMessage[2] = UInt("stock_locate", 16)
  /\ TradeMessage[3] = UInt("tracking_number", 16)
  /\ TradeMessage[4] = UInt("timestamp", 64)
  /\ TradeMessage[5] = UInt("order_reference_number", 64)
  /\ TradeMessage[6] = UInt("buy_sell_indicator", 8)
  /\ TradeMessage[7] = UInt("shares", 32)
  /\ TradeMessage[8] = Chars("stock", 8)
  /\ TradeMessage[9] = UInt("price", 32)
  /\ TradeMessage[10] = UInt("match_number", 64)
  BY DEF TradeMessage, ITCHMessageHeader

\* The fields of TradeMessage that print_message shows.
LEMMA TradeFields ==
  /\ HasField(TradeMessage, "stock", 8, "chars")
  /\ HasField(TradeMessage, "buy_sell_indicator", 1, "number")
  /\ HasField(TradeMessage, "shares", 4, "number")
  /\ HasField(TradeMessage, "price", 4, "number")
  /\ HasField(TradeMessage, "match_number", 8, "number")
  BY TradeStruct DEF HasField, UInt, Chars

\* ExecuteOrderMessage, field by field.
LEMMA ExecuteStruct ==
  /\ DOMAIN ExecuteOrderMessage = 1 .. 7 /\ Len(ExecuteOrderMessage) = 7
  /\ ExecuteOrderMessage[1] = UInt("message_type", 8)
  /\ ExecuteOrderMessage[2] = UInt("stock_locate", 16)
  /\ ExecuteOrderMessage[3] = UInt("tracking_number", 16)
  /\ ExecuteOrderMessage[4] = UInt("timestamp", 64)
  /\ ExecuteOrderMessage[5] = UInt("order_reference_number", 64)
  /\ ExecuteOrderMessage[6] = UInt("executed_shares", 32)
  /\ ExecuteOrderMessage[7] = UInt("match_number", 64)
  BY DEF ExecuteOrderMessage, ITCHMessageHeader

\* The fields of ExecuteOrderMessage that print_message shows.
LEMMA ExecuteFields ==
  /\ HasField(ExecuteOrderMessage, "order_reference_number", 8, "number")
  /\ HasField(ExecuteOrderMessage, "executed_shares", 4, "number")
  /\ HasField(ExecuteOrderMessage, "match_number", 8, "number")
  BY ExecuteStruct DEF HasField, UInt

\* A field of a message that has been parsed.
LEMMA MemberOfParsed ==
  ASSUME NEW t \in DOMAIN Structs, NEW data, IsSeq(data),
         Len(data) = sizeof(Structs[t]), NEW msg,
         msg.member = Assign(Structs[t], Tables[t], data),
         NEW name, NEW n \in Nat, NEW kind,
         HasField(Structs[t], name, n, kind)
  PROVE  LET i == FieldNamed(Structs[t], name)
             x == Member(msg, Structs[t], name)
         IN  /\ i \in 1 .. Len(Structs[t])
             /\ Structs[t][i].name = name /\ Structs[t][i].bytes = n
             /\ IsSeq(x) /\ Len(x) = n
             /\ \A k \in 1 .. n :
                  x[k] = data[Offset(Structs[t], i)
                                + (IF kind = "chars" THEN k ELSE n + 1 - k)]
  <1> DEFINE struct == Structs[t]
             i == FieldNamed(struct, name)
             memory == Assign(struct, Tables[t], data)
  <1>1. /\ struct \in ParsedMessage /\ struct \in Seq(Field)
        /\ Layout(struct, Tables[t])
        /\ sizeof(struct) \in Nat /\ sizeof_union \in Nat
        /\ sizeof(struct) <= sizeof_union
        /\ DOMAIN struct = 1 .. Len(struct)
    BY StructsLayout, UnionSize, LenProperties
  <1> HIDE DEF struct
  <1>2. i \in DOMAIN struct /\ struct[i].name = name
    BY Zenon DEF HasField, FieldNamed, struct
  <1>3. struct[i].bytes = n /\ (struct[i].array <=> kind = "chars")
    BY <1>2 DEF HasField, struct
  <1> HIDE DEF i
  <1>4. IsSeq(memory) /\ Len(memory) = sizeof_union
    <2> DEFINE Source == FlattenSeq([j \in DOMAIN struct |->
                 IF struct[j].name \in DOMAIN Tables[t]
                 THEN Fit(Convert(Tables[t][struct[j].name],
                                  Load(data, struct, j)), struct[j].bytes)
                 ELSE Fresh(struct[j].bytes)])
    <2>1. memory = memcpy(Fresh(sizeof_union), Source, sizeof(struct))
      BY DEF Assign
    <2> HIDE DEF memory, Source
    <2>2. memory = [k \in 1 .. sizeof_union |->
                      IF k <= sizeof(struct) THEN Source[k]
                      ELSE Fresh(sizeof_union)[k]]
      BY <2>1 DEF memcpy, Fresh
    <2>3. memory = [k \in 1 .. sizeof_union |-> memory[k]]
      BY <2>2
    <2> QED
      BY <1>1, <2>3, FunctionIsSeq
  <1>5. \A k \in 1 .. n :
          memory[Offset(struct, i) + k]
            = data[Offset(struct, i) + (IF kind = "chars" THEN k ELSE n + 1 - k)]
    <2>1. data \in Seq(Range(data)) /\ Len(data) = sizeof(struct)
      BY DEF IsSeq, struct
    <2> QED
      BY <1>1, <1>2, <1>3, <2>1, AssignAt
  <1> HIDE DEF memory
  <1> DEFINE x == Load(memory, struct, i)
  <1>6. /\ x \in Seq(Range(memory)) /\ Len(x) = n
        /\ \A k \in 1 .. n : x[k] = memory[Offset(struct, i) + k]
    <2>1. /\ memory \in Seq(Range(memory)) /\ sizeof(struct) <= Len(memory)
          /\ struct \in Seq(Field) /\ i \in 1 .. Len(struct)
      BY <1>1, <1>2, <1>4 DEF IsSeq
    <2>2. /\ x \in Seq(Range(memory)) /\ Len(x) = struct[i].bytes
          /\ \A k \in 1 .. struct[i].bytes : x[k] = memory[Offset(struct, i) + k]
      BY <2>1, LoadAt
    <2> QED
      BY <1>3, <2>2
  <1>7. Member(msg, struct, name) = x
    BY DEF Member, FieldNamed, i, memory, struct
  <1> HIDE DEF x
  <1>8. IsSeq(x)
    BY <1>6, SeqIsSeq
  <1> QED
    BY <1>1, <1>2, <1>3, <1>5, <1>6, <1>7, <1>8 DEF i, struct


\* Values for all the fields of a struct, its type among them.
Complete(t, assigned) ==
  /\ t \in DOMAIN Structs
  /\ \A i \in 1 .. Len(Structs[t]) :
       /\ Structs[t][i].name \in DOMAIN assigned
       /\ IsSeq(assigned[Structs[t][i].name])
  /\ assigned["message_type"] = << <<"message_type", 1, t>> >>

\* A generated message is accepted, as what it was meant to be.
LEMMA GeneratedParsed ==
  ASSUME NEW t, NEW assigned, Complete(t, assigned)
  PROVE  LET data == Fill(Structs[t], assigned)
         IN  /\ IsSeq(data) /\ Len(data) = sizeof(Structs[t])
             /\ parse(data) = [has_value |-> TRUE, type |-> t,
                               member |-> Assign(Structs[t], Tables[t], data)]
  <1> DEFINE struct == Structs[t]
             data == Fill(struct, assigned)
  <1>1. t \in DOMAIN Structs
    BY DEF Complete
  <1>2. /\ struct \in Seq(Field) /\ 1 <= Len(struct) /\ Len(struct) \in Nat
        /\ struct[1] = UInt("message_type", 8)
    BY <1>1, StructsLayout, LenProperties DEF Layout
  <1> HIDE DEF struct
  <1>3. /\ IsSeq(data) /\ Len(data) = sizeof(struct)
        /\ \A i \in 1 .. Len(struct) : \A k \in 1 .. struct[i].bytes :
             data[Offset(struct, i) + k]
               = Fit(assigned[struct[i].name], struct[i].bytes)[k]
    BY <1>2, FillAt DEF Complete, struct
  <1> HIDE DEF data
  <1>4. struct[1].name = "message_type" /\ struct[1].bytes = 1
    BY <1>2 DEF UInt
  <1>5. data[Offset(struct, 1) + 1]
          = Fit(<< <<"message_type", 1, t>> >>, 1)[1]
    BY <1>2, <1>3, <1>4 DEF Complete
  <1>6. Offset(struct, 1) = 0
    BY <1>2, OffsetLaws
  <1>7. Fit(<< <<"message_type", 1, t>> >>, 1)[1] = <<"message_type", 1, t>>
    BY DEF Fit
  <1>8. Char(data[1]) = t
    BY <1>5, <1>6, <1>7 DEF Char
  <1>9. sizeof(struct) \in Nat
    BY <1>2, SizeOf
  <1>10. parse(data) = [has_value |-> TRUE, type |-> t,
                        member |-> Assign(struct, Tables[t], data)]
    BY <1>1, <1>3, <1>8, <1>9, ParseCases DEF struct
  <1> QED
    BY <1>3, <1>10 DEF data, struct

\* m is the message parsed from what a generator filled in.
Generated(m, t, assigned) == m = parse(Fill(Structs[t], assigned))

\* What a generator puts into a field of n bytes to send the value v.
Given(w, v, n, kind) ==
  w = IF kind = "chars" \/ n = 1 THEN v ELSE bswap(v, n)

\* m was generated with the value v for its field of that name.
Sends(m, t, assigned, name, n, kind, v) ==
  /\ Complete(t, assigned) /\ Generated(m, t, assigned)
  /\ HasField(Structs[t], name, n, kind) /\ n \in Nat
  /\ IsSeq(v) /\ Given(assigned[name], v, n, kind)

\* What the field holds then: the value, whether it is a number that was
\* swapped twice or characters that never were.
LEMMA GeneratedMember ==
  ASSUME NEW t, NEW assigned, NEW msg, NEW name, NEW n, NEW kind, NEW v,
         Sends(msg, t, assigned, name, n, kind, v)
  PROVE  Member(msg, Structs[t], name) = Fit(v, n)
  <1> USE DEF Sends
  <1> DEFINE struct == Structs[t]
             data == Fill(struct, assigned)
             i == FieldNamed(struct, name)
             x == Member(msg, struct, name)
             w == assigned[name]
             at == Offset(struct, i)
  <1>1. t \in DOMAIN Structs
    BY DEF Complete
  <1>2. /\ IsSeq(data) /\ Len(data) = sizeof(struct)
        /\ msg.member = Assign(struct, Tables[t], data)
    <2> USE DEF Generated
    <2>1. /\ IsSeq(data) /\ Len(data) = sizeof(struct)
          /\ msg = [has_value |-> TRUE, type |-> t,
                    member |-> Assign(struct, Tables[t], data)]
      BY GeneratedParsed, Zenon
    <2> HIDE DEF struct, data
    <2> QED
      BY <2>1
  <1>3. struct \in Seq(Field)
    BY <1>1, StructsLayout DEF Layout
  <1>4. /\ i \in 1 .. Len(struct) /\ struct[i].name = name /\ struct[i].bytes = n
        /\ IsSeq(x) /\ Len(x) = n
        /\ \A k \in 1 .. n : x[k] = data[at + (IF kind = "chars" THEN k ELSE n + 1 - k)]
    BY <1>1, <1>2, MemberOfParsed
  <1>5. \A j \in 1 .. Len(struct) : \A k \in 1 .. struct[j].bytes :
             data[Offset(struct, j) + k]
               = Fit(assigned[struct[j].name], struct[j].bytes)[k]
    BY <1>3, FillAt DEF Complete
  <1> HIDE DEF struct, data, i, x, at
  <1>6. \A k \in 1 .. n : data[at + k] = Fit(w, n)[k]
    BY <1>4, <1>5 DEF at
  <1> HIDE DEF w
  <1>7. \A k \in 1 .. n : x[k] = Fit(w, n)[IF kind = "chars" THEN k ELSE n + 1 - k]
    <2>1. \A k \in 1 .. n : (IF kind = "chars" THEN k ELSE n + 1 - k) \in 1 .. n
      OBVIOUS
    <2> QED
      BY <1>4, <1>6, <2>1
  <1>8. \A k \in 1 .. n : x[k] = Fit(v, n)[k]
    <2>1. CASE kind = "chars" \/ n = 1
      <3>1. w = v
        BY <2>1 DEF w, Given
      <3>2. \A k \in 1 .. n : (IF kind = "chars" THEN k ELSE n + 1 - k) = k
        BY <2>1
      <3> QED
        BY <1>7, <3>1, <3>2
    <2>2. CASE ~ (kind = "chars" \/ n = 1)
      <3>1. w = bswap(v, n) /\ kind # "chars"
        BY <2>2 DEF w, Given
      <3>2. /\ Len(w) = n
            /\ \A k \in 1 .. n : w[k] = Fit(v, n)[n + 1 - k]
        BY <3>1, FitSeq
      <3>3. \A k \in 1 .. n : Fit(w, n)[k] = w[k]
        BY <3>2 DEF Fit
      <3>4. ASSUME NEW k \in 1 .. n PROVE x[k] = Fit(v, n)[k]
        <4>1. n + 1 - k \in 1 .. n /\ n + 1 - (n + 1 - k) = k
          OBVIOUS
        <4>2. x[k] = Fit(w, n)[n + 1 - k]
          BY <1>7, <3>1
        <4>3. x[k] = w[n + 1 - k]
          BY <3>3, <4>1, <4>2
        <4>4. w[n + 1 - k] = Fit(v, n)[n + 1 - (n + 1 - k)]
          BY <3>2, <4>1
        <4> QED
          BY <4>1, <4>3, <4>4
      <3> QED
        BY <3>4
    <2> QED
      BY <2>1, <2>2
  <1>9. x \in Seq(Range(x)) /\ Len(x) = n /\ Fit(v, n) \in Seq(Range(Fit(v, n)))
        /\ Len(Fit(v, n)) = n
    BY <1>4, FitSeq DEF IsSeq
  <1>10. x = Fit(v, n)
    <2>1. x = [k \in 1 .. n |-> x[k]] /\ Fit(v, n) = [k \in 1 .. n |-> Fit(v, n)[k]]
      BY <1>9, LenProperties DEF Fit
    <2> QED
      BY <1>8, <2>1
  <1> QED
    BY <1>10 DEF x, struct

\* A value that fills its field is not changed by fitting it in.
LEMMA FitSame ==
  ASSUME NEW v, IsSeq(v)
  PROVE  Fit(v, Len(v)) = v
  <1>1. Len(v) \in Nat /\ v = [k \in 1 .. Len(v) |-> v[k]]
    BY LenProperties DEF IsSeq
  <1> QED
    BY <1>1 DEF Fit

\* The messages of the programs, with the arguments that differ.
OrderOf(clock, side, shares, symbol, price) ==
  WithHeader(HeaderOf("A", clock),
    [ order_reference_number |-> hton64(Value("reference", 32)),
      buy_sell_indicator |-> side, shares |-> hton32(shares),
      stock |-> Padded(symbol), price |-> hton32(price) ])

TradeOf(symbol) ==
  WithHeader(HeaderOf("P", "midnight"),
    [ order_reference_number |-> hton64(Value("reference", 32)),
      buy_sell_indicator |-> Value("side", 8),
      shares |-> hton32(Value("shares", 32)),
      stock |-> Padded(symbol),
      price |-> hton32(Value("price_cents", 32)),
      match_number |-> hton64(Value("match", 32)) ])

ExecuteOf ==
  WithHeader(HeaderOf("E", "rdtsc"),
    [ order_reference_number |-> hton64(Value("reference", 32)),
      executed_shares |-> hton32(Value("50", 32)),
      match_number |-> hton64(Value("match", 32)) ])

\* The four generators, as one form filled in four ways.
LEMMA GeneratorsFill ==
  /\ generate_add_order =
       Fill(Structs["A"], OrderOf("rdtsc", Value("B", 8), Value("100", 32),
                                  Value("AAPL", 32), Value("1500000", 32)))
  /\ \A s : create_add_order(s) =
       Fill(Structs["A"], OrderOf("midnight", Value("side", 8),
                                  Value("shares", 32), s,
                                  Value("price_cents", 32)))
  /\ \A s : create_trade(s) = Fill(Structs["P"], TradeOf(s))
  /\ generate_execute_order = Fill(Structs["E"], ExecuteOf)
  <1>1. /\ Structs["A"] = AddOrderMessage /\ Structs["P"] = TradeMessage
        /\ Structs["E"] = ExecuteOrderMessage
    BY DEF Structs
  <1>2. /\ MessageType.ADD_ORDER = "A" /\ MessageType.TRADE = "P"
        /\ MessageType.EXECUTE_ORDER = "E"
    BY DEF MessageType
  <1> QED
    BY <1>1, <1>2 DEF generate_add_order, create_add_order, create_trade,
       generate_execute_order, OrderOf, TradeOf, ExecuteOf

\* The bytes the header and the swapped numbers are made of.
LEMMA PartsAreSeqs ==
  /\ \A name : /\ IsSeq(Value(name, 8)) /\ IsSeq(Value(name, 32))
               /\ IsSeq(hton16(Value(name, 32)))
               /\ IsSeq(hton32(Value(name, 32)))
               /\ IsSeq(hton64(Value(name, 32)))
               /\ IsSeq(hton64(Value(name, 64)))
  /\ \A s : IsSeq(Padded(s))
  /\ \A c : IsSeq(<< c >>)
  /\ \A x : IsSeq(x) => IsSeq(hton32(x))
  <1>1. \A name : /\ IsSeq(Value(name, 8)) /\ IsSeq(Value(name, 32))
                  /\ IsSeq(Value(name, 64))
    BY ValueSeq
  <1>2. \A x : IsSeq(x) => /\ IsSeq(bswap(x, 2)) /\ IsSeq(bswap(x, 4))
                           /\ IsSeq(bswap(x, 8))
    BY FitSeq
  <1>3. ASSUME NEW s PROVE IsSeq(Padded(s))
    <2>1. Padded(s) = [k \in 1 .. 8 |-> Padded(s)[k]]
      BY DEF Padded
    <2> QED
      BY <2>1, FunctionIsSeq
  <1>4. ASSUME NEW c PROVE IsSeq(<< c >>)
    <2>1. << c >> \in Seq({c})
      OBVIOUS
    <2> QED
      BY <2>1, SeqIsSeq
  <1> QED
    BY <1>1, <1>2, <1>3, <1>4 DEF hton16, hton32, hton64

\* An order's generator assigns every field, numbers swapped.
LEMMA OrderComplete ==
  ASSUME NEW clock, NEW side, NEW shares, NEW symbol, NEW price,
         IsSeq(side), IsSeq(shares), IsSeq(price)
  PROVE  LET assigned == OrderOf(clock, side, shares, symbol, price)
         IN  /\ Complete("A", assigned)
             /\ assigned["stock"] = Padded(symbol)
             /\ assigned["buy_sell_indicator"] = side
             /\ assigned["shares"] = bswap(shares, 4)
             /\ assigned["price"] = bswap(price, 4)
             /\ assigned["order_reference_number"] = bswap(Value("reference", 32), 8)
  <1> DEFINE assigned == OrderOf(clock, side, shares, symbol, price)
  <1>1. /\ Structs["A"] = AddOrderMessage /\ "A" \in DOMAIN Structs
        /\ Len(AddOrderMessage) = 9
    BY OrderStruct DEF Structs
  <1>2. /\ assigned["message_type"] = << <<"message_type", 1, "A">> >>
        /\ assigned["stock_locate"] = hton16(Value("one", 32))
        /\ assigned["tracking_number"] = hton16(Value("counter", 32))
        /\ assigned["timestamp"] = hton64(Value(clock, 64))
    BY DEF OrderOf, WithHeader, HeaderOf
  <1>3. /\ assigned["order_reference_number"] = hton64(Value("reference", 32))
        /\ assigned["buy_sell_indicator"] = side
        /\ assigned["shares"] = hton32(shares)
        /\ assigned["stock"] = Padded(symbol)
        /\ assigned["price"] = hton32(price)
    BY DEF OrderOf, WithHeader, HeaderOf
  <1>4. {"message_type", "stock_locate", "tracking_number", "timestamp",
         "order_reference_number", "buy_sell_indicator", "shares", "stock",
         "price"} \subseteq DOMAIN assigned
    BY DEF OrderOf, WithHeader, HeaderOf
  <1> HIDE DEF assigned
  <1>5. \A i \in 1 .. 9 : /\ AddOrderMessage[i].name \in DOMAIN assigned
                          /\ IsSeq(assigned[AddOrderMessage[i].name])
    BY <1>2, <1>3, <1>4, OrderStruct, PartsAreSeqs DEF UInt, Chars
  <1> QED
    BY <1>1, <1>2, <1>3, <1>5 DEF Complete, assigned, hton32, hton64

\* A trade's generator assigns every field, numbers swapped.
LEMMA TradeComplete ==
  ASSUME NEW symbol
  PROVE  LET assigned == TradeOf(symbol)
         IN  /\ Complete("P", assigned)
             /\ assigned["stock"] = Padded(symbol)
             /\ assigned["buy_sell_indicator"] = Value("side", 8)
             /\ assigned["shares"] = bswap(Value("shares", 32), 4)
             /\ assigned["price"] = bswap(Value("price_cents", 32), 4)
             /\ assigned["match_number"] = bswap(Value("match", 32), 8)
  <1> DEFINE assigned == TradeOf(symbol)
  <1>1. /\ Structs["P"] = TradeMessage /\ "P" \in DOMAIN Structs
        /\ Len(TradeMessage) = 10
    BY TradeStruct DEF Structs
  <1>2. /\ assigned["message_type"] = << <<"message_type", 1, "P">> >>
        /\ assigned["stock_locate"] = hton16(Value("one", 32))
        /\ assigned["tracking_number"] = hton16(Value("counter", 32))
        /\ assigned["timestamp"] = hton64(Value("midnight", 64))
    BY DEF TradeOf, WithHeader, HeaderOf
  <1>3. /\ assigned["order_reference_number"] = hton64(Value("reference", 32))
        /\ assigned["buy_sell_indicator"] = Value("side", 8)
        /\ assigned["shares"] = hton32(Value("shares", 32))
        /\ assigned["stock"] = Padded(symbol)
        /\ assigned["price"] = hton32(Value("price_cents", 32))
        /\ assigned["match_number"] = hton64(Value("match", 32))
    BY DEF TradeOf, WithHeader, HeaderOf
  <1>4. {"message_type", "stock_locate", "tracking_number", "timestamp",
         "order_reference_number", "buy_sell_indicator", "shares", "stock",
         "price", "match_number"} \subseteq DOMAIN assigned
    BY DEF TradeOf, WithHeader, HeaderOf
  <1> HIDE DEF assigned
  <1>5. \A i \in 1 .. 10 : /\ TradeMessage[i].name \in DOMAIN assigned
                           /\ IsSeq(assigned[TradeMessage[i].name])
    BY <1>2, <1>3, <1>4, TradeStruct, PartsAreSeqs DEF UInt, Chars
  <1> QED
    BY <1>1, <1>2, <1>3, <1>5 DEF Complete, assigned, hton32, hton64

\* An execution's generator assigns every field, numbers swapped.
LEMMA ExecuteComplete ==
  /\ Complete("E", ExecuteOf)
  /\ ExecuteOf["order_reference_number"] = bswap(Value("reference", 32), 8)
  /\ ExecuteOf["executed_shares"] = bswap(Value("50", 32), 4)
  /\ ExecuteOf["match_number"] = bswap(Value("match", 32), 8)
  <1> DEFINE assigned == ExecuteOf
  <1>1. /\ Structs["E"] = ExecuteOrderMessage /\ "E" \in DOMAIN Structs
        /\ Len(ExecuteOrderMessage) = 7
    BY ExecuteStruct DEF Structs
  <1>2. /\ assigned["message_type"] = << <<"message_type", 1, "E">> >>
        /\ assigned["stock_locate"] = hton16(Value("one", 32))
        /\ assigned["tracking_number"] = hton16(Value("counter", 32))
        /\ assigned["timestamp"] = hton64(Value("rdtsc", 64))
    BY DEF ExecuteOf, WithHeader, HeaderOf
  <1>3. /\ assigned["order_reference_number"] = hton64(Value("reference", 32))
        /\ assigned["executed_shares"] = hton32(Value("50", 32))
        /\ assigned["match_number"] = hton64(Value("match", 32))
    BY DEF ExecuteOf, WithHeader, HeaderOf
  <1>4. {"message_type", "stock_locate", "tracking_number", "timestamp",
         "order_reference_number", "executed_shares", "match_number"}
           \subseteq DOMAIN assigned
    BY DEF ExecuteOf, WithHeader, HeaderOf
  <1> HIDE DEF assigned
  <1>5. \A i \in 1 .. 7 : /\ ExecuteOrderMessage[i].name \in DOMAIN assigned
                          /\ IsSeq(assigned[ExecuteOrderMessage[i].name])
    BY <1>2, <1>3, <1>4, ExecuteStruct, PartsAreSeqs DEF UInt
  <1> QED
    BY <1>1, <1>2, <1>3, <1>5 DEF Complete, assigned, hton32, hton64


=============================================================================
