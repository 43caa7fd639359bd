------------------------------- MODULE Models -------------------------------
(***************************************************************************)
(* What the REST clients send and what they make of the answers: the       *)
(* tables of src/core/types.cpp, the parameters that src/rest/             *)
(* trading_client.cpp builds, and the parsers of src/rest/detail/          *)
(* json_parse.hpp and include/bintrade/ws/detail/ws_parse.hpp.  No state;  *)
(* module RestClient puts them to work.                                    *)
(*                                                                         *)
(* Parameters and JSON objects are functions from the names that are       *)
(* present.  Prices and quantities are integers in units of 10^-8, the     *)
(* exchange's finest step.                                                 *)
(***************************************************************************)
EXTENDS Integers, Functions

\* to_string() of the enumerations, and the functions that read them back.
to_string ==
  [Buy |-> "BUY", Sell |-> "SELL",
   Limit |-> "LIMIT", Market |-> "MARKET", StopLoss |-> "STOP_LOSS",
   StopLossLimit |-> "STOP_LOSS_LIMIT", TakeProfit |-> "TAKE_PROFIT",
   TakeProfitLimit |-> "TAKE_PROFIT_LIMIT", LimitMaker |-> "LIMIT_MAKER",
   GTC |-> "GTC", IOC |-> "IOC", FOK |-> "FOK"]

SideFromString == [BUY |-> "Buy", SELL |-> "Sell"]

\* Mutated: the prefix of a longer name is taken for it.
OrderTypeFromStringPrefix ==
  [LIMIT |-> "Limit", MARKET |-> "Market", STOP_LOSS |-> "StopLoss",
   STOP_LOSS_LIMIT |-> "StopLoss", TAKE_PROFIT |-> "TakeProfit",
   TAKE_PROFIT_LIMIT |-> "TakeProfit", LIMIT_MAKER |-> "Limit"]

OrderTypeFromString ==
  [LIMIT |-> "Limit", MARKET |-> "Market", STOP_LOSS |-> "StopLoss",
   STOP_LOSS_LIMIT |-> "StopLossLimit", TAKE_PROFIT |-> "TakeProfit",
   TAKE_PROFIT_LIMIT |-> "TakeProfitLimit", LIMIT_MAKER |-> "LimitMaker"]

TimeInForceFromString == [GTC |-> "GTC", IOC |-> "IOC", FOK |-> "FOK"]

OrderStatusFromString ==
  [NEW |-> "New", PARTIALLY_FILLED |-> "PartiallyFilled", FILLED |-> "Filled",
   CANCELED |-> "Canceled", PENDING_CANCEL |-> "PendingCancel",
   REJECTED |-> "Rejected", EXPIRED |-> "Expired"]

-----------------------------------------------------------------------------
(***************************************************************************)
(* An order on its way out.  An optional member that has no value is None. *)
(***************************************************************************)
None == -1

NewOrderRequest ==
  [symbol : STRING, side : {"Buy", "Sell"},
   type : {"Limit", "Market", "StopLoss", "StopLossLimit", "TakeProfit",
           "TakeProfitLimit", "LimitMaker"},
   time_in_force : {"GTC", "IOC", "FOK"}, quantity : Int, price : Int,
   client_order_id : STRING, stop_price : Int]

\* std::to_string(double) prints six decimals: the nearest multiple of 100.
Printed(n) == 100 * ((n + 50) \div 100)

SendsTimeInForce(request) ==
  request.time_in_force # "GTC" \/ request.type = "Limit"

\* The parameters that are present, of those that may be.
Present(all, absent) == Restrict(all, DOMAIN all \ absent)

\* Mutated: the stop price is sent as the price.
build_new_order_params_swapped(request) ==
  Present([symbol |-> request.symbol, side |-> to_string[request.side],
           type |-> to_string[request.type],
           quantity |-> Printed(request.quantity),
           timeInForce |-> to_string[request.time_in_force],
           price |-> Printed(request.stop_price),
           newClientOrderId |-> request.client_order_id,
           stopPrice |-> Printed(request.price)],
          (IF SendsTimeInForce(request) THEN {} ELSE {"timeInForce"})
          \cup (IF request.price = None THEN {"stopPrice"} ELSE {})
          \cup (IF request.client_order_id = "" THEN {"newClientOrderId"} ELSE {})
          \cup (IF request.stop_price = None THEN {"price"} ELSE {}))

build_new_order_params(request) ==
  Present([symbol |-> request.symbol, side |-> to_string[request.side],
           type |-> to_string[request.type],
           quantity |-> Printed(request.quantity),
           timeInForce |-> to_string[request.time_in_force],
           price |-> Printed(request.price),
           newClientOrderId |-> request.client_order_id,
           stopPrice |-> Printed(request.stop_price)],
          (IF SendsTimeInForce(request) THEN {} ELSE {"timeInForce"})
          \cup (IF request.price = None THEN {"price"} ELSE {})
          \cup (IF request.client_order_id = "" THEN {"newClientOrderId"} ELSE {})
          \cup (IF request.stop_price = None THEN {"stopPrice"} ELSE {}))

build_cancel_params(request) ==
  Present([symbol |-> request.symbol, orderId |-> request.order_id,
           origClientOrderId |-> request.client_order_id],
          (IF request.order_id = None THEN {"orderId"} ELSE {})
          \cup (IF request.client_order_id = "" THEN {"origClientOrderId"} ELSE {}))

-----------------------------------------------------------------------------
(***************************************************************************)
(* The answers.  A body is empty, text that is not JSON, or a JSON value;  *)
(* an exception is a value that has a member "thrown".                     *)
(***************************************************************************)
Throws(what) == [thrown |-> what]
Threw(x) == "thrown" \in DOMAIN x

Null == [type |-> "null", of |-> <<>>]
Object(members) == [type |-> "object", of |-> members]
Array(items) == [type |-> "array", of |-> items]

\* check_api_error() throws.
IsApiError(status, json) ==
  status >= 400 /\ json.type = "object" /\ {"code", "msg"} \subseteq DOMAIN json.of

parse_response(status, body) ==
  CASE body.type = "empty" ->
         IF status >= 400 THEN Throws("ApiException") ELSE Null
    [] body.type = "text" -> Throws("parse_error")
    [] IsApiError(status, body) -> Throws("ApiException")
    [] OTHER -> body

\* json.value(name, default), for the members in keys: which name each is read
\* from, and its default.
Members(json, keys) ==
  [m \in DOMAIN keys |->
     IF keys[m][1] \in DOMAIN json.of THEN json.of[keys[m][1]] ELSE keys[m][2]]

\* An order, whatever its members are called: the enumerations are looked up,
\* and a name that is not known throws std::invalid_argument.
ReadOrder(json, keys) ==
  LET o == Members(json, keys)
  IN  CASE json.type # "object" -> Throws("type_error")
        [] \/ o.status \notin DOMAIN OrderStatusFromString
           \/ o.type \notin DOMAIN OrderTypeFromString
           \/ o.side \notin DOMAIN SideFromString
           \/ o.time_in_force \notin DOMAIN TimeInForceFromString ->
             Throws("invalid_argument")
        [] OTHER ->
             [o EXCEPT !.status = OrderStatusFromString[@],
                       !.type = OrderTypeFromString[@],
                       !.side = SideFromString[@],
                       !.time_in_force = TimeInForceFromString[@]]

OrderKeys ==
  [symbol |-> <<"symbol", "">>, order_id |-> <<"orderId", 0>>,
   client_order_id |-> <<"clientOrderId", "">>, price |-> <<"price", 0>>,
   orig_qty |-> <<"origQty", 0>>, executed_qty |-> <<"executedQty", 0>>,
   cummulative_quote_qty |-> <<"cummulativeQuoteQty", 0>>,
   status |-> <<"status", "NEW">>, type |-> <<"type", "LIMIT">>,
   side |-> <<"side", "BUY">>, time_in_force |-> <<"timeInForce", "GTC">>,
   time |-> <<"time", 0>>, update_time |-> <<"updateTime", 0>>]

UpdateKeys ==
  [symbol |-> <<"s", "">>, order_id |-> <<"i", 0>>,
   client_order_id |-> <<"c", "">>, price |-> <<"p", 0>>,
   orig_qty |-> <<"q", 0>>, executed_qty |-> <<"z", 0>>,
   cummulative_quote_qty |-> <<"Z", 0>>, status |-> <<"X", "NEW">>,
   type |-> <<"o", "LIMIT">>, side |-> <<"S", "BUY">>,
   time_in_force |-> <<"f", "GTC">>, time |-> <<"O", 0>>,
   update_time |-> <<"T", 0>>]

parse_order(json) == ReadOrder(json, OrderKeys)
parse_order_update(json) == ReadOrder(json, UpdateKeys)

(***************************************************************************)
(* The balances of an account, as a set: asset, free and locked amount.    *)
(***************************************************************************)
BalanceKeys ==
  [asset |-> <<"asset", "">>, free |-> <<"free", 0>>, locked |-> <<"locked", 0>>]

PositionKeys ==
  [asset |-> <<"a", "">>, free |-> <<"f", 0>>, locked |-> <<"l", 0>>]

parse_balance(b) == Members(Object(b), BalanceKeys)

\* Mutated: an asset all of which is locked is left out.
HasFundsFree(balance) == balance.free > 0

HasFunds(balance) == balance.free > 0 \/ balance.locked > 0

\* json["balances"] of a const object that has no such member is undefined.
parse_account_info(json) ==
  CASE json.type # "object" -> Throws("type_error")
    [] "balances" \notin DOMAIN json.of -> Throws("undefined")
    [] OTHER ->
         [balances |->
            {b \in {parse_balance(x) : x \in json.of.balances} : HasFunds(b)}]

parse_account_update(json) ==
  [balances |->
     {Members(Object(b), PositionKeys) :
        b \in (IF "B" \in DOMAIN json.of THEN json.of.B ELSE {})}]

(***************************************************************************)
(* The other results, by the shape of their parser.  Members with defaults *)
(* (tickers, the time); a list, where the elements of an object are its    *)
(* members' values, here strings, which have no members; an order book,    *)
(* with the hazard of parse_account_info().                                *)
(***************************************************************************)
parse_members(json) ==
  IF json.type = "object" THEN json ELSE Throws("type_error")

parse_order_book(json) ==
  CASE json.type # "object" -> Throws("type_error")
    [] {"bids", "asks"} \subseteq DOMAIN json.of -> json
    [] OTHER -> Throws("undefined")

Items(json) == IF json.type = "array" THEN json.of ELSE <<>>

\* parsed: what the element's parser makes of each item; the first that throws
\* ends the loop.
parse_list(json, parsed) ==
  LET bad == {i \in DOMAIN parsed : Threw(parsed[i])}
  IN  CASE json.type = "object" /\ DOMAIN json.of # {} -> Throws("type_error")
        [] bad # {} -> parsed[CHOOSE i \in bad : \A j \in bad : i <= j]
        [] OTHER -> [list |-> parsed]

=============================================================================
