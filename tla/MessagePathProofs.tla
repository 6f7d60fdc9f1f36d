-------------------------- MODULE MessagePathProofs --------------------------
(***************************************************************************)
(* Proofs about a message on its way to the log, for messages of every     *)
(* length and with blanks anywhere.                                        *)
(***************************************************************************)
EXTENDS MessagePath, MessageLemmas

\* Each step applies its operation to the result of the one before.
PathInv ==
  /\ data \in Inputs
  /\ step \in {"received", "refused", "parsed", "shown", "stored"}
  /\ step # "received" => msg = parse(data)
  /\ step = "refused" => ~ msg.has_value
  /\ step \in {"parsed", "shown", "stored"} => msg.has_value
  /\ step \in {"shown", "stored"} => shown = print_message(msg)
  /\ step = "stored" =>
       stored = serialize_message(Fresh(get_message_size(msg)), msg)

\* The table of the properties is the one of the lemmas.
LEMMA FormatsAre == Formats = Structs
  BY DEF Formats, Structs

\* Every input is a sequence of bytes.
LEMMA InputSeq ==
  ASSUME NEW d \in Inputs
  PROVE  IsSeq(d)
  <1>1. ASSUME NEW t, NEW n \in Nat, NEW p
        PROVE  IsSeq(Wire(t, n, p))
    <2>1. Wire(t, n, p) = [k \in 1 .. n |-> Wire(t, n, p)[k]]
      BY DEF Wire
    <2> QED
      BY <2>1, FunctionIsSeq
  <1>2. \A t \in {"A", "P"} : sizeof(Formats[t]) \in Nat
    <2>1. {"A", "P"} \subseteq DOMAIN Structs
      BY DEF Structs
    <2> QED
      BY <2>1, FormatsAre, StructsLayout, SizeOf DEF Layout
  <1>3. IsSeq(generate_add_order)
    BY GeneratorsFill, OrderComplete, GeneratedParsed, PartsAreSeqs
  <1>4. IsSeq(generate_execute_order)
    BY GeneratorsFill, ExecuteComplete, GeneratedParsed
  <1>5. \A s : IsSeq(create_add_order(s))
    BY GeneratorsFill, OrderComplete, GeneratedParsed, PartsAreSeqs
  <1>6. \A s : IsSeq(create_trade(s))
    BY GeneratorsFill, TradeComplete, GeneratedParsed
  <1> QED
    BY <1>1, <1>2, <1>3, <1>4, <1>5, <1>6 DEF Inputs

\* Before the first step there is only the input.
LEMMA PathInit == Init => PathInv
  BY DEF Init, PathInv

\* Parse, Show and Store each add their result and keep the others.
LEMMA PathStep ==
  ASSUME PathInv, [Next]_vars
  PROVE  PathInv'
  <1>1. CASE Parse
    BY <1>1 DEF Parse, PathInv
  <1>2. CASE Show
    BY <1>2 DEF Show, PathInv
  <1>3. CASE Store
    BY <1>3 DEF Store, PathInv
  <1>4. CASE UNCHANGED vars
    BY <1>4 DEF vars, PathInv
  <1> QED
    BY <1>1, <1>2, <1>3, <1>4 DEF Next

\* Parse, Show and Store work on the results of the steps before them: what
\* is shown and what is stored (demo.cpp:140-142, async_logger.hpp:188-210)
\* comes from parse() of the bytes received.
THEOREM PathInvariant == Spec => []PathInv
  BY PathInit, PathStep, PTL DEF Spec

\* What the parser accepts, and what it makes of it.
LEMMA Accepted ==
  ASSUME NEW d, IsSeq(d)
  PROVE  /\ parse(d).has_value =>
              \E t \in DOMAIN Structs :
                /\ Char(d[1]) = t /\ Len(d) = sizeof(Structs[t])
                /\ parse(d).type = t
                /\ parse(d).member = Assign(Structs[t], Tables[t], d)
         /\ ~ parse(d).has_value =>
              ~ \E t \in DOMAIN Structs :
                  Len(d) = sizeof(Structs[t]) /\ Char(d[1]) = t
  <1>1. Len(d) \in Nat
    BY LenProperties DEF IsSeq
  <1>2. ASSUME NEW t \in DOMAIN Structs, Char(d[1]) = t,
               Len(d) = sizeof(Structs[t])
        PROVE  /\ parse(d).has_value /\ parse(d).type = t
               /\ parse(d).member = Assign(Structs[t], Tables[t], d)
    <2>1. parse(d) = [has_value |-> TRUE, type |-> t,
                      member |-> Assign(Structs[t], Tables[t], d)]
      BY <1>1, <1>2, ParseCases
    <2> QED
      BY <2>1
  <1>3. ASSUME NEW t \in DOMAIN Structs, Char(d[1]) = t,
               Len(d) # sizeof(Structs[t])
        PROVE  ~ parse(d).has_value
    <2>1. parse(d) = nullopt
      BY <1>1, <1>3, ParseCases
    <2> QED
      BY <2>1 DEF nullopt
  <1>4. ASSUME Char(d[1]) \notin DOMAIN Structs
        PROVE  ~ parse(d).has_value
    <2>1. parse(d) = nullopt
      BY <1>1, <1>4, ParseCases
    <2> QED
      BY <2>1 DEF nullopt
  <1> QED
    BY <1>2, <1>3, <1>4

\* What the logger stores of an accepted message.
LEMMA Stored ==
  ASSUME NEW t \in DOMAIN Structs, NEW d, IsSeq(d),
         Len(d) = sizeof(Structs[t]), NEW m, m.type = t,
         m.member = Assign(Structs[t], Tables[t], d)
  PROVE  LET s == serialize_message(Fresh(get_message_size(m)), m)
         IN  /\ Len(s) = Len(d)
             /\ \A i \in 1 .. Len(Structs[t]) :
                  \A k \in 1 .. Structs[t][i].bytes :
                    s[Offset(Structs[t], i) + k]
                      = d[Offset(Structs[t], i)
                            + (IF Structs[t][i].array THEN k
                               ELSE Structs[t][i].bytes + 1 - k)]
  <1> DEFINE struct == Structs[t]
             s == serialize_message(Fresh(get_message_size(m)), m)
             n == sizeof(struct)
  <1>1. /\ struct \in ParsedMessage /\ Layout(struct, Tables[t])
        /\ struct \in Seq(Field) /\ n \in Nat
    BY StructsLayout, SizeOf DEF Layout
  <1>2. s = memcpy(Fresh(n), m.member, n)
    BY LogCases
  <1> HIDE DEF struct, s, n
  <1>3. s = [k \in 1 .. n |-> m.member[k]]
    BY <1>1, <1>2 DEF memcpy, Fresh
  <1>4. s = [k \in 1 .. n |-> s[k]]
    BY <1>3
  <1>5. Len(s) = Len(d)
    BY <1>1, <1>4, FunctionIsSeq DEF n, struct
  <1>6. ASSUME NEW i \in 1 .. Len(struct), NEW k \in 1 .. struct[i].bytes
        PROVE  s[Offset(struct, i) + k]
                 = d[Offset(struct, i) + (IF struct[i].array THEN k
                                          ELSE struct[i].bytes + 1 - k)]
    <2>1. /\ Offset(struct, i) \in Nat /\ struct[i].bytes \in Nat
          /\ Offset(struct, i) + struct[i].bytes <= n
      BY <1>1, SizeOf DEF n
    <2>2. Offset(struct, i) + k \in 1 .. n
      BY <1>1, <2>1
    <2>3. s[Offset(struct, i) + k] = m.member[Offset(struct, i) + k]
      BY <1>3, <2>2
    <2>4. /\ d \in Seq(Range(d)) /\ Len(d) = sizeof(struct)
          /\ m.member = Assign(struct, Tables[t], d)
      BY DEF IsSeq, struct
    <2> QED
      BY <1>1, <2>3, <2>4, AssignAt
  <1> QED
    BY <1>5, <1>6 DEF struct, s

\* parse() and the logger's two switches agree on every field of every type:
\* an accepted message is in the log whole and in host order.
THEOREM AlwaysLoggedDecoded == Spec => []LoggedDecoded
  <1>1. PathInv => LoggedDecoded
    <2> SUFFICES ASSUME PathInv PROVE LoggedDecoded
      OBVIOUS
    <2>1. IsSeq(data)
      BY InputSeq DEF PathInv
    <2>2. ASSUME step = "refused"
          PROVE  ~ \E t \in DOMAIN Formats :
                     Len(data) = sizeof(Formats[t]) /\ Char(data[1]) = t
      <3>1. ~ parse(data).has_value
        BY <2>2 DEF PathInv
      <3> QED
        BY <2>1, <3>1, Accepted, FormatsAre
    <2>3. ASSUME step = "stored"
          PROVE  LET format == Formats[msg.type]
                 IN  /\ Len(stored) = Len(data)
                     /\ \A i \in DOMAIN format :
                          LET at == Offset(format, i)
                              n == format[i].bytes
                          IN  \A k \in 1 .. n :
                                stored[at + k] =
                                  data[at + (IF format[i].array THEN k
                                             ELSE n + 1 - k)]
      <3>1. /\ msg = parse(data) /\ msg.has_value
            /\ stored = serialize_message(Fresh(get_message_size(msg)), msg)
        BY <2>3 DEF PathInv
      <3>2. PICK t \in DOMAIN Structs :
                   /\ Len(data) = sizeof(Structs[t]) /\ msg.type = t
                   /\ msg.member = Assign(Structs[t], Tables[t], data)
        BY <2>1, <3>1, Accepted
      <3>3. Structs[t] \in Seq(Field)
        BY StructsLayout DEF Layout
      <3>4. DOMAIN Structs[t] = 1 .. Len(Structs[t])
        BY <3>3, LenProperties
      <3>5. /\ Len(stored) = Len(data)
            /\ \A i \in 1 .. Len(Structs[t]) :
                  \A k \in 1 .. Structs[t][i].bytes :
                    stored[Offset(Structs[t], i) + k]
                      = data[Offset(Structs[t], i)
                               + (IF Structs[t][i].array THEN k
                                  ELSE Structs[t][i].bytes + 1 - k)]
        BY <2>1, <3>1, <3>2, Stored
      <3>6. Formats[msg.type] = Structs[t]
        BY <3>2, FormatsAre
      <3> QED
        BY <3>4, <3>5, <3>6
    <2> QED
      BY <2>2, <2>3 DEF LoggedDecoded
  <1> QED
    BY <1>1, PathInvariant, PTL


\* What print_message prints of the messages that have a symbol.
LEMMA Printed ==
  ASSUME NEW m
  PROVE  /\ m.type = "A" => print_message(m) =
              << get_stock_symbol(Member(m, AddOrderMessage, "stock")),
                 Member(m, AddOrderMessage, "buy_sell_indicator"),
                 Member(m, AddOrderMessage, "shares"),
                 Member(m, AddOrderMessage, "price"),
                 Member(m, AddOrderMessage, "order_reference_number") >>
         /\ m.type = "P" => print_message(m) =
              << get_stock_symbol(Member(m, TradeMessage, "stock")),
                 Member(m, TradeMessage, "buy_sell_indicator"),
                 Member(m, TradeMessage, "shares"),
                 Member(m, TradeMessage, "price"),
                 Member(m, TradeMessage, "match_number") >>
         /\ m.type = "E" => print_message(m) =
              << Member(m, ExecuteOrderMessage, "order_reference_number"),
                 Member(m, ExecuteOrderMessage, "executed_shares"),
                 Member(m, ExecuteOrderMessage, "match_number") >>
  BY DEF print_message, MessageType

\* The stock field is the same before and after parsing.
LEMMA StockKept ==
  ASSUME NEW t \in {"A", "P"}, NEW d, IsSeq(d), Len(d) = sizeof(Structs[t]),
         NEW m, m.member = Assign(Structs[t], Tables[t], d)
  PROVE  LET stock == Load(d, Structs[t], FieldNamed(Structs[t], "stock"))
         IN  /\ Member(m, Structs[t], "stock") = stock
             /\ IsSeq(stock) /\ Len(stock) = 8
  <1> DEFINE struct == Structs[t]
             i == FieldNamed(struct, "stock")
             stock == Load(d, struct, i)
             x == Member(m, struct, "stock")
  <1>1. t \in DOMAIN Structs /\ HasField(struct, "stock", 8, "chars")
    <2>1. /\ t \in DOMAIN Structs
          /\ Structs["A"] = AddOrderMessage /\ Structs["P"] = TradeMessage
      BY DEF Structs
    <2> QED
      BY <2>1, OrderFields, TradeFields
  <1>2. /\ i \in 1 .. Len(struct) /\ struct[i].bytes = 8
        /\ IsSeq(x) /\ Len(x) = 8
        /\ \A k \in 1 .. 8 : x[k] = d[Offset(struct, i) + k]
    <2>1. PICK n \in Nat, kind \in {"chars"} : n = 8
      OBVIOUS
    <2>2. HasField(struct, "stock", n, kind)
      BY <1>1, <2>1
    <2>3. /\ i \in 1 .. Len(struct) /\ struct[i].bytes = n
          /\ IsSeq(x) /\ Len(x) = n
          /\ \A k \in 1 .. n :
               x[k] = d[Offset(struct, i)
                          + (IF kind = "chars" THEN k ELSE n + 1 - k)]
      BY <1>1, <2>2, MemberOfParsed
    <2> HIDE DEF struct, i, x
    <2> QED
      BY <2>1, <2>3
  <1>3. struct \in Seq(Field) /\ sizeof(struct) \in Nat
    BY <1>1, StructsLayout, SizeOf DEF Layout
  <1>4. d \in Seq(Range(d)) /\ sizeof(struct) <= Len(d)
    BY <1>3 DEF IsSeq
  <1> HIDE DEF struct, i, x
  <1>5. /\ stock \in Seq(Range(d)) /\ Len(stock) = 8
        /\ \A k \in 1 .. 8 : stock[k] = d[Offset(struct, i) + k]
    <2>1. /\ stock \in Seq(Range(d)) /\ Len(stock) = struct[i].bytes
          /\ \A k \in 1 .. struct[i].bytes : stock[k] = d[Offset(struct, i) + k]
      BY <1>2, <1>3, <1>4, LoadAt
    <2> HIDE DEF stock
    <2> QED
      BY <1>2, <2>1
  <1> HIDE DEF stock
  <1>6. x = [k \in 1 .. 8 |-> x[k]]
    BY <1>2, LenProperties DEF IsSeq
  <1>7. stock = [k \in 1 .. 8 |-> stock[k]]
    BY <1>5, LenProperties
  <1>8. x = stock
    BY <1>2, <1>5, <1>6, <1>7
  <1> QED
    BY <1>5, <1>8, SeqIsSeq DEF struct, i, x, stock

\* get_stock_symbol takes off the padding and nothing else, whatever the
\* eight characters are.
THEOREM AlwaysSymbolTrimmed == Spec => []SymbolTrimmed
  <1>1. PathInv => SymbolTrimmed
    <2> SUFFICES ASSUME PathInv, step = "shown", msg.type \in {"A", "P"}
                 PROVE  LET format == Formats[msg.type]
                            field == CHOOSE i \in DOMAIN format :
                                       format[i].name = "stock"
                            stock == Load(data, format, field)
                            symbol == shown[1]
                            n == Len(symbol)
                        IN  /\ symbol = SubSeq(stock, 1, n)
                            /\ \A k \in n + 1 .. 8 : Char(stock[k]) = Blank
                            /\ n > 0 => Char(symbol[n]) # Blank
      BY DEF SymbolTrimmed
    <2>1. IsSeq(data) /\ msg = parse(data) /\ msg.has_value
          /\ shown = print_message(msg)
      BY InputSeq DEF PathInv
    <2>2. PICK t \in {"A", "P"} :
                 /\ msg.type = t /\ Len(data) = sizeof(Structs[t])
                 /\ msg.member = Assign(Structs[t], Tables[t], data)
      BY <2>1, Accepted
    <2> DEFINE format == Structs[t]
               field == FieldNamed(format, "stock")
               stock == Load(data, format, field)
    <2>3. /\ Member(msg, format, "stock") = stock
          /\ IsSeq(stock) /\ Len(stock) = 8
      BY <2>1, <2>2, StockKept
    <2>4. shown[1] = get_stock_symbol(Member(msg, format, "stock"))
      BY <2>1, <2>2, Printed DEF Structs
    <2>5. /\ Formats[msg.type] = format
          /\ field = CHOOSE i \in DOMAIN format : format[i].name = "stock"
      BY <2>2, FormatsAre DEF FieldNamed
    <2> HIDE DEF format, field, stock
    <2>6. PICK n \in 0 .. 8 :
                 /\ shown[1] = SubSeq(stock, 1, n)
                 /\ \A k \in n + 1 .. 8 : Char(stock[k]) = Blank
                 /\ n > 0 => Char(stock[n]) # Blank
      BY <2>3, <2>4, SymbolLaws
    <2>7. /\ Len(SubSeq(stock, 1, n)) = n
          /\ n > 0 => SubSeq(stock, 1, n)[n] = stock[n]
      BY <2>3 DEF IsSeq
    <2>8. /\ Len(shown[1]) = n
          /\ n > 0 => Char(shown[1][n]) # Blank
      BY <2>6, <2>7
    <2> QED
      BY <2>5, <2>6, <2>8 DEF stock
  <1> QED
    BY <1>1, PathInvariant, PTL


-----------------------------------------------------------------------------
\* A symbol that create_add_order and create_trade can be given.
IsSymbol(s) ==
  /\ IsSeq(s) /\ Len(s) \in 1 .. 8
  /\ \A k \in 1 .. Len(s) : Char(s[k]) # Blank

\* The symbols of the demo and of the benchmark.
LEMMA Symbol ==
  /\ \A s \in Symbols : IsSymbol(s)
  /\ IsSymbol(Value("AAPL", 32))
  <1>1. ASSUME NEW name, NEW n \in 1 .. 8
        PROVE  IsSymbol(Value(name, 8 * n))
    <2>1. 8 * n \in Nat /\ (8 * n) \div 8 = n
      OBVIOUS
    <2>2. /\ IsSeq(Value(name, 8 * n)) /\ Len(Value(name, 8 * n)) = n
          /\ \A k \in 1 .. n : Value(name, 8 * n)[k] = <<name, k, "x">>
      BY <2>1, ValueSeq
    <2>3. \A k \in 1 .. n : Char(Value(name, 8 * n)[k]) # Blank
      <3>1. \A k \in 1 .. n : Char(<<name, k, "x">>) # Blank
        BY DEF Char, Blank
      <3> QED
        BY <2>2, <3>1
    <2> QED
      BY <2>2, <2>3 DEF IsSymbol
  <1>2. \A s \in Symbols : IsSymbol(s)
    BY <1>1 DEF Symbols
  <1>3. 32 = 8 * 4 /\ 4 \in 1 .. 8
    OBVIOUS
  <1>4. IsSymbol(Value("AAPL", 8 * 4))
    BY <1>1, <1>3
  <1> QED
    BY <1>2, <1>3, <1>4

\* A padded symbol comes out of get_stock_symbol as it was.
LEMMA SymbolMember ==
  ASSUME NEW t, NEW assigned, NEW m, NEW s, IsSymbol(s),
         Sends(m, t, assigned, "stock", 8, "chars", Padded(s))
  PROVE  get_stock_symbol(Member(m, Structs[t], "stock")) = s
  <1>1. Padded(s) = [k \in 1 .. 8 |-> Padded(s)[k]]
    BY DEF Padded
  <1>2. Fit(Padded(s), 8) = Padded(s)
    <2> DEFINE v == Padded(s)
    <2> HIDE DEF v
    <2>1. v = [k \in 1 .. 8 |-> v[k]]
      BY <1>1 DEF v
    <2>2. IsSeq(v) /\ Len(v) = 8
      BY <2>1, FunctionIsSeq
    <2>3. Fit(v, 8) = v
      BY <2>2, FitSame
    <2> QED
      BY <2>3 DEF v
  <1>3. Member(m, Structs[t], "stock") = Padded(s)
    BY <1>2, GeneratedMember
  <1> QED
    BY <1>3, SymbolOfPadded DEF IsSymbol

\* The lengths of the values the programs send.
LEMMA ValueLengths ==
  \A name : /\ IsSeq(Value(name, 8)) /\ Len(Value(name, 8)) = 1
            /\ IsSeq(Value(name, 32)) /\ Len(Value(name, 32)) = 4
  <1>1. 8 \div 8 = 1 /\ 32 \div 8 = 4
    OBVIOUS
  <1> QED
    BY <1>1, ValueSeq

\* An order, generated, parsed and printed.
LEMMA OrderShown ==
  ASSUME NEW clock, NEW side, IsSeq(side), Len(side) = 1,
         NEW shares, IsSeq(shares), Len(shares) = 4,
         NEW price, IsSeq(price), Len(price) = 4,
         NEW s, IsSymbol(s)
  PROVE  print_message(parse(Fill(Structs["A"],
                                  OrderOf(clock, side, shares, s, price))))
           = << s, side, shares, price, Fit(Value("reference", 32), 8) >>
  <1> DEFINE assigned == OrderOf(clock, side, shares, s, price)
             m == parse(Fill(Structs["A"], assigned))
             struct == Structs["A"]
             ref == Value("reference", 32)
  <1>1. Complete("A", assigned) /\ Generated(m, "A", assigned)
    BY OrderComplete DEF Generated
  <1>2. /\ Given(assigned["stock"], Padded(s), 8, "chars")
        /\ Given(assigned["buy_sell_indicator"], side, 1, "number")
        /\ Given(assigned["shares"], shares, 4, "number")
        /\ Given(assigned["price"], price, 4, "number")
        /\ Given(assigned["order_reference_number"], ref, 8, "number")
    BY OrderComplete DEF Given
  <1>3. struct = AddOrderMessage
    BY DEF Structs
  <1>4. m.type = "A"
    <2>1. m = [has_value |-> TRUE, type |-> "A",
               member |-> Assign(struct, Tables["A"], Fill(struct, assigned))]
      BY <1>1, GeneratedParsed, Zenon
    <2> HIDE DEF m
    <2> QED
      BY <2>1
  <1>5. /\ HasField(struct, "stock", 8, "chars")
        /\ HasField(struct, "buy_sell_indicator", 1, "number")
        /\ HasField(struct, "shares", 4, "number")
        /\ HasField(struct, "price", 4, "number")
        /\ HasField(struct, "order_reference_number", 8, "number")
    BY <1>3, OrderFields
  <1>6. IsSeq(ref) /\ IsSeq(Padded(s))
    BY PartsAreSeqs
  <1> HIDE DEF assigned, m, ref
  <1>7. /\ Sends(m, "A", assigned, "stock", 8, "chars", Padded(s))
        /\ Sends(m, "A", assigned, "buy_sell_indicator", 1, "number", side)
        /\ Sends(m, "A", assigned, "shares", 4, "number", shares)
        /\ Sends(m, "A", assigned, "price", 4, "number", price)
        /\ Sends(m, "A", assigned, "order_reference_number", 8, "number", ref)
    BY <1>1, <1>2, <1>5, <1>6 DEF Sends
  <1>8. /\ get_stock_symbol(Member(m, struct, "stock")) = s
        /\ Member(m, struct, "buy_sell_indicator") = side
        /\ Member(m, struct, "shares") = shares
        /\ Member(m, struct, "price") = price
        /\ Member(m, struct, "order_reference_number") = Fit(ref, 8)
    <2>1. get_stock_symbol(Member(m, struct, "stock")) = s
      BY <1>7, SymbolMember
    <2>2. /\ Member(m, struct, "buy_sell_indicator") = Fit(side, 1)
          /\ Member(m, struct, "shares") = Fit(shares, 4)
          /\ Member(m, struct, "price") = Fit(price, 4)
          /\ Member(m, struct, "order_reference_number") = Fit(ref, 8)
      BY <1>7, GeneratedMember
    <2>3. /\ Fit(side, 1) = side /\ Fit(shares, 4) = shares
          /\ Fit(price, 4) = price
      BY FitSame
    <2> QED
      BY <2>1, <2>2, <2>3
  <1>9. print_message(m) =
          << get_stock_symbol(Member(m, struct, "stock")),
             Member(m, struct, "buy_sell_indicator"),
             Member(m, struct, "shares"), Member(m, struct, "price"),
             Member(m, struct, "order_reference_number") >>
    BY <1>3, <1>4, Printed
  <1> QED
    BY <1>8, <1>9 DEF m, assigned, ref

\* A trade, generated, parsed and printed.
LEMMA TradeShown ==
  ASSUME NEW s, IsSymbol(s)
  PROVE  print_message(parse(Fill(Structs["P"], TradeOf(s))))
           = << s, Value("side", 8), Value("shares", 32),
                Value("price_cents", 32), Fit(Value("match", 32), 8) >>
  <1> DEFINE assigned == TradeOf(s)
             m == parse(Fill(Structs["P"], assigned))
             struct == Structs["P"]
             side == Value("side", 8)
             shares == Value("shares", 32)
             price == Value("price_cents", 32)
             ref == Value("match", 32)
  <1>1. Complete("P", assigned) /\ Generated(m, "P", assigned)
    BY TradeComplete DEF Generated
  <1>2. /\ Given(assigned["stock"], Padded(s), 8, "chars")
        /\ Given(assigned["buy_sell_indicator"], side, 1, "number")
        /\ Given(assigned["shares"], shares, 4, "number")
        /\ Given(assigned["price"], price, 4, "number")
        /\ Given(assigned["match_number"], ref, 8, "number")
    BY TradeComplete DEF Given
  <1>3. struct = TradeMessage
    BY DEF Structs
  <1>4. m.type = "P"
    <2>1. m = [has_value |-> TRUE, type |-> "P",
               member |-> Assign(struct, Tables["P"], Fill(struct, assigned))]
      BY <1>1, GeneratedParsed, Zenon
    <2> HIDE DEF m
    <2> QED
      BY <2>1
  <1>5. /\ HasField(struct, "stock", 8, "chars")
        /\ HasField(struct, "buy_sell_indicator", 1, "number")
        /\ HasField(struct, "shares", 4, "number")
        /\ HasField(struct, "price", 4, "number")
        /\ HasField(struct, "match_number", 8, "number")
    BY <1>3, TradeFields
  <1>6. /\ IsSeq(ref) /\ IsSeq(Padded(s))
        /\ IsSeq(side) /\ Len(side) = 1 /\ IsSeq(shares) /\ Len(shares) = 4
        /\ IsSeq(price) /\ Len(price) = 4
    BY PartsAreSeqs, ValueLengths
  <1> HIDE DEF assigned, m, ref, side, shares, price
  <1>7. /\ Sends(m, "P", assigned, "stock", 8, "chars", Padded(s))
        /\ Sends(m, "P", assigned, "buy_sell_indicator", 1, "number", side)
        /\ Sends(m, "P", assigned, "shares", 4, "number", shares)
        /\ Sends(m, "P", assigned, "price", 4, "number", price)
        /\ Sends(m, "P", assigned, "match_number", 8, "number", ref)
    BY <1>1, <1>2, <1>5, <1>6 DEF Sends
  <1>8. /\ get_stock_symbol(Member(m, struct, "stock")) = s
        /\ Member(m, struct, "buy_sell_indicator") = side
        /\ Member(m, struct, "shares") = shares
        /\ Member(m, struct, "price") = price
        /\ Member(m, struct, "match_number") = Fit(ref, 8)
    <2>1. get_stock_symbol(Member(m, struct, "stock")) = s
      BY <1>7, SymbolMember
    <2>2. /\ Member(m, struct, "buy_sell_indicator") = Fit(side, 1)
          /\ Member(m, struct, "shares") = Fit(shares, 4)
          /\ Member(m, struct, "price") = Fit(price, 4)
          /\ Member(m, struct, "match_number") = Fit(ref, 8)
      BY <1>7, GeneratedMember
    <2>3. /\ Fit(side, 1) = side /\ Fit(shares, 4) = shares
          /\ Fit(price, 4) = price
      BY <1>6, FitSame
    <2> QED
      BY <2>1, <2>2, <2>3
  <1>9. print_message(m) =
          << get_stock_symbol(Member(m, struct, "stock")),
             Member(m, struct, "buy_sell_indicator"),
             Member(m, struct, "shares"), Member(m, struct, "price"),
             Member(m, struct, "match_number") >>
    BY <1>3, <1>4, Printed
  <1> QED
    BY <1>8, <1>9 DEF m, assigned, ref, side, shares, price

\* An execution, generated, parsed and printed.
LEMMA ExecuteShown ==
  print_message(parse(Fill(Structs["E"], ExecuteOf)))
    = << Fit(Value("reference", 32), 8), Value("50", 32),
         Fit(Value("match", 32), 8) >>
  <1> DEFINE assigned == ExecuteOf
             m == parse(Fill(Structs["E"], assigned))
             struct == Structs["E"]
             ref == Value("reference", 32)
             shares == Value("50", 32)
             match == Value("match", 32)
  <1>1. Complete("E", assigned) /\ Generated(m, "E", assigned)
    BY ExecuteComplete DEF Generated
  <1>2. /\ Given(assigned["order_reference_number"], ref, 8, "number")
        /\ Given(assigned["executed_shares"], shares, 4, "number")
        /\ Given(assigned["match_number"], match, 8, "number")
    BY ExecuteComplete DEF Given
  <1>3. struct = ExecuteOrderMessage
    BY DEF Structs
  <1>4. m.type = "E"
    <2>1. m = [has_value |-> TRUE, type |-> "E",
               member |-> Assign(struct, Tables["E"], Fill(struct, assigned))]
      BY <1>1, GeneratedParsed, Zenon
    <2> HIDE DEF m
    <2> QED
      BY <2>1
  <1>5. /\ HasField(struct, "order_reference_number", 8, "number")
        /\ HasField(struct, "executed_shares", 4, "number")
        /\ HasField(struct, "match_number", 8, "number")
    BY <1>3, ExecuteFields
  <1>6. /\ IsSeq(ref) /\ IsSeq(match)
        /\ IsSeq(shares) /\ Len(shares) = 4
    BY ValueLengths
  <1> HIDE DEF assigned, m, ref, shares, match
  <1>7. /\ Sends(m, "E", assigned, "order_reference_number", 8, "number", ref)
        /\ Sends(m, "E", assigned, "executed_shares", 4, "number", shares)
        /\ Sends(m, "E", assigned, "match_number", 8, "number", match)
    BY <1>1, <1>2, <1>5, <1>6 DEF Sends
  <1>8. /\ Member(m, struct, "order_reference_number") = Fit(ref, 8)
        /\ Member(m, struct, "executed_shares") = shares
        /\ Member(m, struct, "match_number") = Fit(match, 8)
    <2>1. /\ Member(m, struct, "order_reference_number") = Fit(ref, 8)
          /\ Member(m, struct, "executed_shares") = Fit(shares, 4)
          /\ Member(m, struct, "match_number") = Fit(match, 8)
      BY <1>7, GeneratedMember
    <2>2. Fit(shares, 4) = shares
      BY <1>6, FitSame
    <2> QED
      BY <2>1, <2>2
  <1>9. print_message(m) =
          << Member(m, struct, "order_reference_number"),
             Member(m, struct, "executed_shares"),
             Member(m, struct, "match_number") >>
    BY <1>3, <1>4, Printed
  <1> QED
    BY <1>8, <1>9 DEF m, assigned, ref, shares, match

\* What a generator was given is what the demo prints after the message has
\* been through the parser, whatever else the path is given.
THEOREM AlwaysShownAsCreated == Spec => []ShownAsCreated
  <1>1. PathInv => ShownAsCreated
    <2> SUFFICES ASSUME PathInv, step = "shown"
                 PROVE  ShownAsCreated
      BY DEF ShownAsCreated
    <2>1. shown = print_message(parse(data))
      BY DEF PathInv
    <2>2. ASSUME NEW s \in Symbols, data = create_add_order(s)
          PROVE  shown = << s, Value("side", 8), Value("shares", 32),
                            Value("price_cents", 32),
                            Fit(Value("reference", 32), 8) >>
      BY <2>1, <2>2, GeneratorsFill, Symbol, ValueLengths, OrderShown
    <2>3. ASSUME NEW s \in Symbols, data = create_trade(s)
          PROVE  shown = << s, Value("side", 8), Value("shares", 32),
                            Value("price_cents", 32),
                            Fit(Value("match", 32), 8) >>
      BY <2>1, <2>3, GeneratorsFill, Symbol, TradeShown
    <2>4. ASSUME data = generate_add_order
          PROVE  shown = << Value("AAPL", 32), Value("B", 8),
                            Value("100", 32), Value("1500000", 32),
                            Fit(Value("reference", 32), 8) >>
      BY <2>1, <2>4, GeneratorsFill, Symbol, ValueLengths, OrderShown
    <2>5. ASSUME data = generate_execute_order
          PROVE  shown = << Fit(Value("reference", 32), 8), Value("50", 32),
                            Fit(Value("match", 32), 8) >>
      BY <2>1, <2>5, GeneratorsFill, ExecuteShown
    <2> QED
      BY <2>2, <2>3, <2>4, <2>5 DEF ShownAsCreated
  <1> QED
    BY <1>1, PathInvariant, PTL

=============================================================================
