----------------------------- MODULE Generators ------------------------------
(***************************************************************************)
(* The messages that src/demo.cpp and src/benchmark.cpp make up for        *)
(* themselves, and what demo.cpp shows of a parsed one.                    *)
(*                                                                         *)
(* The value of an argument or a counter is a row of bytes named after it; *)
(* counters are 32 bits wide whatever field they end up in.                *)
(***************************************************************************)
EXTENDS ITCHParser

Value(name, bits) == [k \in 1 .. bits \div 8 |-> <<name, k, "x">>]

hton16(x) == bswap(x, 2)
hton32(x) == bswap(x, 4)
hton64(x) == bswap(x, 8)

\* A vector of a struct's size, zero where no field is assigned.
Fill(struct, assigned) ==
  FlattenSeq([i \in DOMAIN struct |->
    LET f == struct[i]
    IN  Fit(IF f.name \in DOMAIN assigned THEN assigned[f.name] ELSE <<>>,
            f.bytes)])

HeaderOf(type, clock) ==
  [ message_type |-> <<<<"message_type", 1, type>>>>,
    stock_locate |-> hton16(Value("one", 32)),
    tracking_number |-> hton16(Value("counter", 32)),
    timestamp |-> hton64(Value(clock, 64)) ]

\* resize(8, ' ')
Padded(symbol) ==
  [k \in 1 .. 8 |-> IF k <= Len(symbol) THEN symbol[k]
                                        ELSE <<"padding", k, Blank>>]

\* benchmark.cpp
generate_add_order ==
  Fill(AddOrderMessage, WithHeader(HeaderOf(MessageType.ADD_ORDER, "rdtsc"),
    [ order_reference_number |-> hton64(Value("reference", 32)),
      buy_sell_indicator |-> Value("B", 8),
      shares |-> hton32(Value("100", 32)),
      stock |-> Padded(Value("AAPL", 32)),
      price |-> hton32(Value("1500000", 32)) ]))

generate_execute_order ==
  Fill(ExecuteOrderMessage, WithHeader(
    HeaderOf(MessageType.EXECUTE_ORDER, "rdtsc"),
    [ order_reference_number |-> hton64(Value("reference", 32)),
      executed_shares |-> hton32(Value("50", 32)),
      match_number |-> hton64(Value("match", 32)) ]))

\* demo.cpp
create_add_order(symbol) ==
  Fill(AddOrderMessage, WithHeader(HeaderOf(MessageType.ADD_ORDER, "midnight"),
    [ order_reference_number |-> hton64(Value("reference", 32)),
      buy_sell_indicator |-> Value("side", 8),
      shares |-> hton32(Value("shares", 32)),
      stock |-> Padded(symbol),
      price |-> hton32(Value("price_cents", 32)) ]))

\* mutant: the price is stored as it is
Mutantcreate_trade(symbol) ==
  Fill(TradeMessage, WithHeader(HeaderOf(MessageType.TRADE, "midnight"),
    [ order_reference_number |-> hton64(Value("reference", 32)),
      buy_sell_indicator |-> Value("side", 8),
      shares |-> hton32(Value("shares", 32)),
      stock |-> Padded(symbol),
      price |-> Value("price_cents", 32),
      match_number |-> hton64(Value("match", 32)) ]))

create_trade(symbol) ==
  Fill(TradeMessage, WithHeader(HeaderOf(MessageType.TRADE, "midnight"),
    [ order_reference_number |-> hton64(Value("reference", 32)),
      buy_sell_indicator |-> Value("side", 8),
      shares |-> hton32(Value("shares", 32)),
      stock |-> Padded(symbol),
      price |-> hton32(Value("price_cents", 32)),
      match_number |-> hton64(Value("match", 32)) ]))

-----------------------------------------------------------------------------
\* msg.<member>.<name>
Member(msg, struct, name) ==
  Load(msg.member, struct,
       CHOOSE i \in DOMAIN struct : struct[i].name = name)

\* What print_message prints, in the order in which it does.  The words for
\* the side and the decimal point of the price are left out.
print_message(msg) ==
  CASE msg.type = MessageType.ADD_ORDER ->
         << get_stock_symbol(Member(msg, AddOrderMessage, "stock")),
            Member(msg, AddOrderMessage, "buy_sell_indicator"),
            Member(msg, AddOrderMessage, "shares"),
            Member(msg, AddOrderMessage, "price"),
            Member(msg, AddOrderMessage, "order_reference_number") >>
    [] msg.type = MessageType.TRADE ->
         << get_stock_symbol(Member(msg, TradeMessage, "stock")),
            Member(msg, TradeMessage, "buy_sell_indicator"),
            Member(msg, TradeMessage, "shares"),
            Member(msg, TradeMessage, "price"),
            Member(msg, TradeMessage, "match_number") >>
    [] msg.type = MessageType.EXECUTE_ORDER ->
         << Member(msg, ExecuteOrderMessage, "order_reference_number"),
            Member(msg, ExecuteOrderMessage, "executed_shares"),
            Member(msg, ExecuteOrderMessage, "match_number") >>
    [] msg.type = MessageType.SYSTEM_EVENT ->
         << Member(msg, SystemEventMessage, "event_code") >>
    [] OTHER -> << <<msg.type>> >>

=============================================================================
