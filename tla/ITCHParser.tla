----------------------------- MODULE ITCHParser ------------------------------
(***************************************************************************)
(* ITCHParser::parse of include/itch_parser.hpp, and the two switches of   *)
(* include/async_logger.hpp that take its result to the log.  The three    *)
(* decide independently, from the type, which struct a message is.         *)
(*                                                                         *)
(* A parse_ function is the record of the fields it assigns, each with the *)
(* conversion it applies; a field it does not name keeps what the union    *)
(* held.  The time stamp the parser adds is not logged and left out.       *)
(***************************************************************************)
EXTENDS ITCHProtocol

\* Assignments to the fields of the header, then to the message's own.
WithHeader(head, own) ==
  [f \in DOMAIN head \cup DOMAIN own |->
     IF f \in DOMAIN head THEN head[f] ELSE own[f]]

header ==
  [ message_type |-> "plain", stock_locate |-> "ntoh16",
    tracking_number |-> "ntoh16", timestamp |-> "ntoh64" ]

parse_add_order == WithHeader(header,
  [ order_reference_number |-> "ntoh64", buy_sell_indicator |-> "plain",
    shares |-> "ntoh32", stock |-> "plain", price |-> "ntoh32" ])

parse_execute_order == WithHeader(header,
  [ order_reference_number |-> "ntoh64", executed_shares |-> "ntoh32",
    match_number |-> "ntoh64" ])

parse_execute_with_price == WithHeader(header,
  [ order_reference_number |-> "ntoh64", executed_shares |-> "ntoh32",
    match_number |-> "ntoh64", printable |-> "plain",
    execution_price |-> "ntoh32" ])

parse_order_cancel == WithHeader(header,
  [ order_reference_number |-> "ntoh64", cancelled_shares |-> "ntoh32" ])

parse_order_delete == WithHeader(header,
  [ order_reference_number |-> "ntoh64" ])

parse_order_replace == WithHeader(header,
  [ original_order_reference_number |-> "ntoh64",
    new_order_reference_number |-> "ntoh64", shares |-> "ntoh32",
    price |-> "ntoh32" ])

parse_trade == WithHeader(header,
  [ order_reference_number |-> "ntoh64", buy_sell_indicator |-> "plain",
    shares |-> "ntoh32", stock |-> "plain", price |-> "ntoh32",
    match_number |-> "ntoh64" ])

parse_system_event == WithHeader(header, [ event_code |-> "plain" ])

parse_stock_directory == WithHeader(header,
  [ stock |-> "plain", market_category |-> "plain",
    financial_status_indicator |-> "plain", round_lot_size |-> "ntoh32",
    round_lots_only |-> "plain", issue_classification |-> "plain",
    issue_sub_type |-> "plain", authenticity |-> "plain",
    short_sale_threshold_indicator |-> "plain", ipo_flag |-> "plain",
    luld_reference_price_tier |-> "plain", etp_flag |-> "plain",
    etp_leverage_factor |-> "ntoh32", inverse_indicator |-> "plain" ])

-----------------------------------------------------------------------------
Convert(conversion, x) ==
  CASE conversion = "ntoh16" -> ntoh16(x)
    [] conversion = "ntoh32" -> ntoh32(x)
    [] conversion = "ntoh64" -> ntoh64(x)
    [] OTHER                 -> x

memcpy(dest, source, n) ==
  [k \in DOMAIN dest |-> IF k <= n THEN source[k] ELSE dest[k]]

Fresh(n) == [k \in 1 .. n |-> Indeterminate]

\* The union after the assignments of a parse_ function, with data seen
\* through a pointer to the struct.
Assign(struct, assigned, data) ==
  LET Field(i) ==
        LET f == struct[i]
        IN  IF f.name \in DOMAIN assigned
            THEN Fit(Convert(assigned[f.name], Load(data, struct, i)), f.bytes)
            ELSE Fresh(f.bytes)
  IN  memcpy(Fresh(sizeof_union),
             FlattenSeq([i \in DOMAIN struct |-> Field(i)]), sizeof(struct))

nullopt == [has_value |-> FALSE, type |-> "?", member |-> <<>>]

\* parse(data, length), where length is the length of data.
parse(data) ==
  LET length == Len(data)
      type == Char(data[1])
      As(struct, assigned) ==
        IF length = sizeof(struct)
        THEN [has_value |-> TRUE, type |-> type,
              member |-> Assign(struct, assigned, data)]
        ELSE nullopt
  IN  IF length < sizeof(ITCHMessageHeader) THEN nullopt
      ELSE CASE type = MessageType.ADD_ORDER ->
                  As(AddOrderMessage, parse_add_order)
             [] type = MessageType.EXECUTE_ORDER ->
                  As(ExecuteOrderMessage, parse_execute_order)
             [] type = MessageType.EXECUTE_ORDER_WITH_PRICE ->
                  As(ExecuteOrderWithPriceMessage, parse_execute_with_price)
             [] type = MessageType.ORDER_CANCEL ->
                  As(OrderCancelMessage, parse_order_cancel)
             [] type = MessageType.ORDER_DELETE ->
                  As(OrderDeleteMessage, parse_order_delete)
             [] type = MessageType.ORDER_REPLACE ->
                  As(OrderReplaceMessage, parse_order_replace)
             [] type = MessageType.TRADE ->
                  As(TradeMessage, parse_trade)
             [] type = MessageType.SYSTEM_EVENT ->
                  As(SystemEventMessage, parse_system_event)
             [] type = MessageType.STOCK_DIRECTORY ->
                  As(StockDirectoryMessage, parse_stock_directory)
             [] OTHER -> nullopt

-----------------------------------------------------------------------------
(* AsyncLogger: the copy of a parsed message that goes to the log *)

get_message_size(msg) ==
  CASE msg.type = MessageType.ADD_ORDER       -> sizeof(AddOrderMessage)
    [] msg.type = MessageType.EXECUTE_ORDER   -> sizeof(ExecuteOrderMessage)
    [] msg.type = MessageType.EXECUTE_ORDER_WITH_PRICE ->
                                       sizeof(ExecuteOrderWithPriceMessage)
    [] msg.type = MessageType.ORDER_CANCEL    -> sizeof(OrderCancelMessage)
    [] msg.type = MessageType.ORDER_DELETE    -> sizeof(OrderDeleteMessage)
    [] msg.type = MessageType.ORDER_REPLACE   -> sizeof(OrderReplaceMessage)
    [] msg.type = MessageType.TRADE           -> sizeof(TradeMessage)
    [] msg.type = MessageType.SYSTEM_EVENT    -> sizeof(SystemEventMessage)
    [] msg.type = MessageType.STOCK_DIRECTORY -> sizeof(StockDirectoryMessage)
    [] OTHER                                  -> 0

\* mutant: a case of the switch copies the struct of its neighbour
Mutantserialize_message(dest, msg) ==
  memcpy(dest, msg.member,
    CASE msg.type = MessageType.EXECUTE_ORDER_WITH_PRICE ->
                                             sizeof(ExecuteOrderMessage)
      [] OTHER -> get_message_size(msg))

serialize_message(dest, msg) ==
  memcpy(dest, msg.member,
    CASE msg.type = MessageType.ADD_ORDER     -> sizeof(AddOrderMessage)
      [] msg.type = MessageType.EXECUTE_ORDER -> sizeof(ExecuteOrderMessage)
      [] msg.type = MessageType.EXECUTE_ORDER_WITH_PRICE ->
                                       sizeof(ExecuteOrderWithPriceMessage)
      [] msg.type = MessageType.ORDER_CANCEL  -> sizeof(OrderCancelMessage)
      [] msg.type = MessageType.ORDER_DELETE  -> sizeof(OrderDeleteMessage)
      [] msg.type = MessageType.ORDER_REPLACE -> sizeof(OrderReplaceMessage)
      [] msg.type = MessageType.TRADE         -> sizeof(TradeMessage)
      [] msg.type = MessageType.SYSTEM_EVENT  -> sizeof(SystemEventMessage)
      [] msg.type = MessageType.STOCK_DIRECTORY ->
                                              sizeof(StockDirectoryMessage)
      [] OTHER                                -> 0)

=============================================================================
