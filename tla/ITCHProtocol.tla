---------------------------- MODULE ITCHProtocol -----------------------------
(***************************************************************************)
(* The message formats of include/itch_protocol.hpp: what the packed       *)
(* structs put at which byte, and the conversions on the values read       *)
(* there.                                                                  *)
(*                                                                         *)
(* Memory is a sequence of bytes.  A byte is <<origin, index, char>>, so   *)
(* that two bytes of a message are told apart wherever they are moved; of  *)
(* the character only the message types and the blank matter.  An integer  *)
(* is the sequence of its bytes, the least significant first, which is     *)
(* how the (little-endian) build stores it.                                *)
(***************************************************************************)
EXTENDS Integers, SequencesExt

MessageType ==
  [ SYSTEM_EVENT |-> "S", STOCK_DIRECTORY |-> "R",
    STOCK_TRADING_ACTION |-> "H", REG_SHO_RESTRICTION |-> "Y",
    MARKET_PARTICIPANT_POSITION |-> "L", MWCB_DECLINE_LEVEL |-> "V",
    MWCB_STATUS |-> "W", IPO_QUOTING_PERIOD |-> "K",
    LULD_AUCTION_COLLAR |-> "J", OPERATIONAL_HALT |-> "h",
    ADD_ORDER |-> "A", ADD_ORDER_MPID |-> "F", EXECUTE_ORDER |-> "E",
    EXECUTE_ORDER_WITH_PRICE |-> "C", ORDER_CANCEL |-> "X",
    ORDER_DELETE |-> "D", ORDER_REPLACE |-> "U", TRADE |-> "P",
    CROSS_TRADE |-> "Q", BROKEN_TRADE |-> "B", NOII |-> "I", RPII |-> "N" ]

Blank == " "
Char(byte) == byte[3]

\* What a read past the end of a message finds, what a variable holds before
\* it is assigned, and a byte of a widened integer.
Outside == <<"outside", 0, "?">>
Indeterminate == <<"indeterminate", 0, "?">>
ZeroByte == <<"zero", 0, "0">>

-----------------------------------------------------------------------------
(* The structs, field by field *)

UInt(name, bits) == [name |-> name, bytes |-> bits \div 8, array |-> FALSE]
Chars(name, n) == [name |-> name, bytes |-> n, array |-> TRUE]

ITCHMessageHeader ==
  << UInt("message_type", 8), UInt("stock_locate", 16),
     UInt("tracking_number", 16), UInt("timestamp", 64) >>

AddOrderMessage == ITCHMessageHeader \o
  << UInt("order_reference_number", 64), UInt("buy_sell_indicator", 8),
     UInt("shares", 32), Chars("stock", 8), UInt("price", 32) >>

ExecuteOrderMessage == ITCHMessageHeader \o
  << UInt("order_reference_number", 64), UInt("executed_shares", 32),
     UInt("match_number", 64) >>

ExecuteOrderWithPriceMessage == ITCHMessageHeader \o
  << UInt("order_reference_number", 64), UInt("executed_shares", 32),
     UInt("match_number", 64), UInt("printable", 8),
     UInt("execution_price", 32) >>

OrderCancelMessage == ITCHMessageHeader \o
  << UInt("order_reference_number", 64), UInt("cancelled_shares", 32) >>

OrderDeleteMessage == ITCHMessageHeader \o
  << UInt("order_reference_number", 64) >>

OrderReplaceMessage == ITCHMessageHeader \o
  << UInt("original_order_reference_number", 64),
     UInt("new_order_reference_number", 64), UInt("shares", 32),
     UInt("price", 32) >>

TradeMessage == ITCHMessageHeader \o
  << UInt("order_reference_number", 64), UInt("buy_sell_indicator", 8),
     UInt("shares", 32), Chars("stock", 8), UInt("price", 32),
     UInt("match_number", 64) >>

SystemEventMessage == ITCHMessageHeader \o << UInt("event_code", 8) >>

StockDirectoryMessage == ITCHMessageHeader \o
  << Chars("stock", 8), UInt("market_category", 8),
     UInt("financial_status_indicator", 8), UInt("round_lot_size", 32),
     UInt("round_lots_only", 8), UInt("issue_classification", 8),
     Chars("issue_sub_type", 2), UInt("authenticity", 8),
     UInt("short_sale_threshold_indicator", 8), UInt("ipo_flag", 8),
     UInt("luld_reference_price_tier", 8), UInt("etp_flag", 8),
     UInt("etp_leverage_factor", 32), UInt("inverse_indicator", 8) >>

\* The members of the union in ParsedMessage.
ParsedMessage ==
  { AddOrderMessage, ExecuteOrderMessage, ExecuteOrderWithPriceMessage,
    OrderCancelMessage, OrderDeleteMessage, OrderReplaceMessage,
    TradeMessage, SystemEventMessage, StockDirectoryMessage }

\* The offset of a struct's i-th field: packed, so the fields before it and
\* nothing else.
Offset(struct, i) ==
  LET end[j \in 0 .. Len(struct)] ==
        IF j = 0 THEN 0 ELSE end[j - 1] + struct[j].bytes
  IN  end[i - 1]

sizeof(struct) == Offset(struct, Len(struct) + 1)

sizeof_union == Max({sizeof(struct) : struct \in ParsedMessage})

\* The bytes of the i-th field of a struct that lies at the start of memory.
Load(memory, struct, i) ==
  [k \in 1 .. struct[i].bytes |->
     LET at == Offset(struct, i) + k
     IN  IF at <= Len(memory) THEN memory[at] ELSE Outside]

-----------------------------------------------------------------------------
(* Conversions *)

\* An integer assigned to one of n bytes: its high bytes are dropped, or
\* zeros added.
Fit(x, n) == [k \in 1 .. n |-> IF k <= Len(x) THEN x[k] ELSE ZeroByte]

\* __builtin_bswap of n bytes
bswap(x, n) == Reverse(Fit(x, n))

ntoh16(x) == bswap(x, 2)
ntoh32(x) == bswap(x, 4)
ntoh64(x) == bswap(x, 8)

\* mutant: the symbol ends at its first blank
Mutantget_stock_symbol(stock) ==
  LET end[n \in 0 .. 8] ==
        IF n < 8 /\ Char(stock[n + 1]) # Blank THEN end[n + 1] ELSE n
  IN  SubSeq(stock, 1, end[0])

\* The loop that takes the blanks off the end.
get_stock_symbol(stock) ==
  LET len[n \in 0 .. 8] ==
        IF n > 0 /\ Char(stock[n]) = Blank THEN len[n - 1] ELSE n
  IN  SubSeq(stock, 1, len[8])

=============================================================================
