----------------------------- MODULE MessagePath -----------------------------
(***************************************************************************)
(* One message on its way from the wire to the log: ITCHParser::parse, the *)
(* demo's look at the result, and the copy that the logger's worker makes  *)
(* of it.  The message comes from a feed (any type, any length) or from    *)
(* one of the programs' generators.                                        *)
(***************************************************************************)
EXTENDS Generators

CONSTANTS
  MaxLength,   \* bound: length of the messages received
  Patterns     \* which bytes of a message are blank, for an index modulo 8

VARIABLES
  data,        \* the message received
  msg,         \* what parse() returned
  shown,       \* what print_message() printed
  stored,      \* the bytes put into the log
  step

vars == <<data, msg, shown, stored, step>>

\* A message of a type (or of none), a length and a pattern of blanks.
Wire(type, length, pattern) ==
  [i \in 1 .. length |->
     <<"wire", i, IF i = 1 THEN type
                  ELSE IF pattern[i % 8] THEN Blank ELSE "x">>]

Types == {MessageType[name] : name \in DOMAIN MessageType} \cup {"Z"}

NoBlank == [r \in 0 .. 7 |-> FALSE]

\* The struct a type stands for; used only to state the properties.
Formats ==
  [ A |-> AddOrderMessage, E |-> ExecuteOrderMessage,
    C |-> ExecuteOrderWithPriceMessage, X |-> OrderCancelMessage,
    D |-> OrderDeleteMessage, U |-> OrderReplaceMessage, P |-> TradeMessage,
    S |-> SystemEventMessage, R |-> StockDirectoryMessage ]

\* Symbols of up to eight letters, the argument of create_add_order.
Symbols == {Value("symbol", 8 * n) : n \in 1 .. 8}

Inputs ==
  {Wire(t, n, NoBlank) : t \in Types, n \in 0 .. MaxLength} \cup
  {Wire(t, sizeof(Formats[t]), p) : t \in {"A", "P"}, p \in Patterns} \cup
  {generate_add_order, generate_execute_order} \cup
  {create_add_order(s) : s \in Symbols} \cup
  {create_trade(s) : s \in Symbols}

Init ==
  /\ data \in Inputs
  /\ msg = nullopt /\ shown = <<>> /\ stored = <<>>
  /\ step = "received"

Parse ==
  /\ step = "received"
  /\ msg' = parse(data)
  /\ step' = IF msg'.has_value THEN "parsed" ELSE "refused"
  /\ UNCHANGED <<data, shown, stored>>

Show ==
  /\ step = "parsed"
  /\ shown' = print_message(msg)
  /\ step' = "shown"
  /\ UNCHANGED <<data, msg, stored>>

\* write_message: the space it takes and what it puts there.
Store ==
  /\ step = "shown"
  /\ stored' = serialize_message(Fresh(get_message_size(msg)), msg)
  /\ step' = "stored"
  /\ UNCHANGED <<data, msg, shown>>

Next == Parse \/ Show \/ Store

Spec == Init /\ [][Next]_vars

-----------------------------------------------------------------------------
\* A message of a supported type and its length is accepted, and every
\* message that is accepted is in the log whole and in host order: as many
\* bytes as were received, every integer of it with its bytes reversed
\* ("Wire format is big-endian", itch_protocol.hpp:43), every array of
\* characters as it came, no byte from outside the message and none that was
\* never assigned.  It takes the lengths of parse() (lines 36-92), the
\* assignments of nine parse_ functions, and the two switches of the logger
\* (async_logger.hpp:236-293) to agree, field by field.
LoggedDecoded ==
  /\ step = "refused" =>
       ~ \E t \in DOMAIN Formats :
           Len(data) = sizeof(Formats[t]) /\ Char(data[1]) = t
  /\ step = "stored" =>
       LET format == Formats[msg.type]
       IN  /\ Len(stored) = Len(data)
           /\ \A i \in DOMAIN format :
                LET at == Offset(format, i)
                    n == format[i].bytes
                IN  \A k \in 1 .. n :
                      stored[at + k] =
                        data[at + (IF format[i].array THEN k ELSE n + 1 - k)]

\* What a generator was given is what the demo prints after the message has
\* been through the parser: the two conversions to and from the wire cancel,
\* a 32-bit counter survives in a 64-bit field, and the padding of a symbol
\* (demo.cpp:31-33, 54-56) is what get_stock_symbol takes off again.
ShownAsCreated ==
  step = "shown" =>
    /\ \A s \in Symbols :
         /\ data = create_add_order(s) =>
              shown = << s, Value("side", 8), Value("shares", 32),
                         Value("price_cents", 32),
                         Fit(Value("reference", 32), 8) >>
         /\ data = create_trade(s) =>
              shown = << s, Value("side", 8), Value("shares", 32),
                         Value("price_cents", 32),
                         Fit(Value("match", 32), 8) >>
    /\ data = generate_add_order =>
         shown = << Value("AAPL", 32), Value("B", 8), Value("100", 32),
                    Value("1500000", 32), Fit(Value("reference", 32), 8) >>
    /\ data = generate_execute_order =>
         shown = << Fit(Value("reference", 32), 8), Value("50", 32),
                    Fit(Value("match", 32), 8) >>

\* The symbol shown is the stock field without the blanks that pad it: what
\* is left out is all blank, and what is left does not end in a blank.  A
\* symbol of eight characters, one with a blank inside and one that is all
\* blank (where the loop of lines 213-216 runs down to zero) are no
\* exceptions.
SymbolTrimmed ==
  step = "shown" /\ msg.type \in {"A", "P"} =>
    LET format == Formats[msg.type]
        field == CHOOSE i \in DOMAIN format : format[i].name = "stock"
        stock == Load(data, format, field)
        symbol == shown[1]
        n == Len(symbol)
    IN  /\ symbol = SubSeq(stock, 1, n)
        /\ \A k \in n + 1 .. 8 : Char(stock[k]) = Blank
        /\ n > 0 => Char(symbol[n]) # Blank

\* test_parser.cpp:250, "Verify struct sizes match expected wire format": the
\* parser accepts a message of the length the test expects for its type.
TestedSizes ==
  LET expected == [A |-> 36, E |-> 31, X |-> 23, D |-> 19]
  IN  step = "refused" =>
        \A t \in DOMAIN expected :
          ~ (Len(data) = expected[t] /\ Char(data[1]) = t)

=============================================================================
