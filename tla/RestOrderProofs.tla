-------------------------- MODULE RestOrderProofs --------------------------
(***************************************************************************)
(* Proofs about the orders of RestClient, for any requests, any calls and  *)
(* any faults: what is placed is what was asked for, what new_order()      *)
(* returns is what was placed, and the REST answers and the user data      *)
(* stream show the same.                                                   *)
(***************************************************************************)
EXTENDS RestClientProofs, FiniteSetTheorems

-----------------------------------------------------------------------------
(* The parameters of an order *)

\* Six decimals are half a unit of the sixth away at most.
LEMMA PrintedIsNear ==
  ASSUME NEW n \in Int
  PROVE  Printed(n) \in Int /\ Near(Printed(n), n)
<1> DEFINE q == (n + 50) \div 100
<1>1. q \in Int /\ 100 * q <= n + 50 /\ n + 50 < 100 * q + 100
  OBVIOUS
<1> HIDE DEF q
<1>2. Printed(n) = 100 * q
  BY DEF Printed, q
<1> QED BY <1>1, <1>2 DEF Near

\* What the exchange reads from the parameters of an order, those included that
\* are not sent.
LEMMA NewOrderParams ==
  ASSUME NEW q \in NewOrderRequest
  PROVE  LET p == Timed(build_new_order_params(q))
         IN  /\ p.symbol = q.symbol
             /\ p.side = to_string[q.side] /\ p.type = to_string[q.type]
             /\ p.quantity = Printed(q.quantity)
             /\ Given(p, "timeInForce", "GTC") = to_string[q.time_in_force]
             /\ Given(p, "price", 0) = IF q.price = None THEN 0 ELSE Printed(q.price)
             /\ Given(p, "stopPrice", 0) =
                  IF q.stop_price = None THEN 0 ELSE Printed(q.stop_price)
             /\ q.client_order_id # "" =>
                  Given(p, "newClientOrderId", "x") = q.client_order_id
<1> DEFINE names == {"symbol", "side", "type", "quantity", "timeInForce", "price",
                     "newClientOrderId", "stopPrice"}
           all == [symbol |-> q.symbol, side |-> to_string[q.side],
                   type |-> to_string[q.type], quantity |-> Printed(q.quantity),
                   timeInForce |-> to_string[q.time_in_force],
                   price |-> Printed(q.price), newClientOrderId |-> q.client_order_id,
                   stopPrice |-> Printed(q.stop_price)]
           absent == (IF SendsTimeInForce(q) THEN {} ELSE {"timeInForce"})
             \cup (IF q.price = None THEN {"price"} ELSE {})
             \cup (IF q.client_order_id = "" THEN {"newClientOrderId"} ELSE {})
             \cup (IF q.stop_price = None THEN {"stopPrice"} ELSE {})
           p == build_new_order_params(q)
           t == Timed(p)
<1>1. p = [x \in names \ absent |-> all[x]]
  BY DEF build_new_order_params, Present, Restrict
<1>2. /\ all["symbol"] = q.symbol /\ all["side"] = to_string[q.side]
      /\ all["type"] = to_string[q.type] /\ all["quantity"] = Printed(q.quantity)
      /\ all["timeInForce"] = to_string[q.time_in_force]
      /\ all["price"] = Printed(q.price) /\ all["stopPrice"] = Printed(q.stop_price)
      /\ all["newClientOrderId"] = q.client_order_id
  OBVIOUS
<1>3. /\ {"symbol", "side", "type", "quantity"} \cap absent = {}
      /\ "timeInForce" \in absent <=> ~SendsTimeInForce(q)
      /\ "price" \in absent <=> q.price = None
      /\ "stopPrice" \in absent <=> q.stop_price = None
      /\ "newClientOrderId" \in absent <=> q.client_order_id = ""
  BY Zenon
<1> HIDE DEF absent, all, p
<1>4. \A x \in names : /\ x \in DOMAIN t <=> x \notin absent
                       /\ x \in DOMAIN t => t[x] = all[x]
  BY <1>1 DEF Timed, Joined
<1> HIDE DEF t
<1>5. ~SendsTimeInForce(q) => to_string[q.time_in_force] = "GTC"
  BY DEF SendsTimeInForce, to_string
<1>6. /\ t["symbol"] = q.symbol
      /\ t["side"] = to_string[q.side] /\ t["type"] = to_string[q.type]
      /\ t["quantity"] = Printed(q.quantity)
  BY <1>2, <1>3, <1>4, Zenon
<1>7. Given(t, "timeInForce", "GTC") = to_string[q.time_in_force]
  BY <1>2, <1>3, <1>4, <1>5, Zenon DEF Given
<1>8. Given(t, "price", 0) = IF q.price = None THEN 0 ELSE Printed(q.price)
  BY <1>2, <1>3, <1>4, Zenon DEF Given
<1>9. Given(t, "stopPrice", 0) = IF q.stop_price = None THEN 0 ELSE Printed(q.stop_price)
  BY <1>2, <1>3, <1>4, Zenon DEF Given
<1>10. q.client_order_id # "" => Given(t, "newClientOrderId", "x") = q.client_order_id
  BY <1>2, <1>3, <1>4, Zenon DEF Given
<1> QED BY <1>6, <1>7, <1>8, <1>9, <1>10, Zenon DEF t, p

-----------------------------------------------------------------------------
(* The orders at the exchange *)

OrderFields ==
  {"symbol", "orderId", "clientOrderId", "price", "stopPrice", "origQty",
   "executedQty", "cummulativeQuoteQty", "status", "type", "side", "timeInForce",
   "time", "updateTime"}

AsAsked(o, q) ==
  /\ o.symbol = q.symbol
  /\ o.side = to_string[q.side] /\ o.type = to_string[q.type]
  /\ o.timeInForce = to_string[q.time_in_force]
  /\ Near(o.origQty, q.quantity)
  /\ Near(o.price, OrZero(q.price)) /\ Near(o.stopPrice, OrZero(q.stop_price))
  /\ q.client_order_id # "" => o.clientOrderId = q.client_order_id

\* Every order has all its members, and is as it was asked for.
Placed ==
  \A i \in DOMAIN orders :
    /\ DOMAIN orders[i] = {"json", "asked"}
    /\ DOMAIN orders[i].json = OrderFields
    /\ AsAsked(orders[i].json, orders[i].asked)

\* The order that the exchange makes of the parameters is the one asked for.
LEMMA PlacedAsAsked ==
  ASSUME NEW q \in NewOrderRequest, NEW id, NEW status
  PROVE  LET o == PlacedOrder(Timed(build_new_order_params(q)), id, status)
         IN  DOMAIN o = OrderFields /\ AsAsked(o, q)
<1> DEFINE p == Timed(build_new_order_params(q))
           o == PlacedOrder(p, id, status)
<1>1. /\ p.symbol = q.symbol
      /\ p.side = to_string[q.side] /\ p.type = to_string[q.type]
      /\ p.quantity = Printed(q.quantity)
      /\ Given(p, "timeInForce", "GTC") = to_string[q.time_in_force]
      /\ Given(p, "price", 0) = IF q.price = None THEN 0 ELSE Printed(q.price)
      /\ Given(p, "stopPrice", 0) =
           IF q.stop_price = None THEN 0 ELSE Printed(q.stop_price)
      /\ q.client_order_id # "" =>
           Given(p, "newClientOrderId", "x") = q.client_order_id
  BY NewOrderParams, Zenon
<1> HIDE DEF p
<1>2. /\ DOMAIN o = OrderFields
      /\ o.symbol = p.symbol /\ o.side = p.side /\ o.type = p.type
      /\ o.timeInForce = Given(p, "timeInForce", "GTC")
      /\ o.origQty = p.quantity /\ o.price = Given(p, "price", 0)
      /\ o.stopPrice = Given(p, "stopPrice", 0)
      /\ o.clientOrderId = Given(p, "newClientOrderId", "x")
  BY DEF PlacedOrder, OrderFields
<1> HIDE DEF o
<1>3. q.quantity \in Int /\ q.price \in Int /\ q.stop_price \in Int
  BY DEF NewOrderRequest
<1>4. Near(o.origQty, q.quantity)
  BY <1>1, <1>2, <1>3, PrintedIsNear, Zenon
<1>5. Near(0, 0)
  BY DEF Near
<1>6. Near(o.price, OrZero(q.price))
  BY <1>1, <1>2, <1>3, <1>5, PrintedIsNear, Zenon DEF OrZero
<1>7. Near(o.stopPrice, OrZero(q.stop_price))
  BY <1>1, <1>2, <1>3, <1>5, PrintedIsNear, Zenon DEF OrZero
<1>8. AsAsked(o, q)
  BY <1>1, <1>2, <1>4, <1>6, <1>7, Zenon DEF AsAsked
<1> QED BY <1>2, <1>8 DEF o, p

\* The one operation that places an order.
LEMMA PlacingOp ==
  ASSUME NEW op \in DOMAIN Ops, Ops[op].via = "signed_post", Ops[op].path = "order"
  PROVE  op = "new_order" /\ Ops[op].takes = "request" /\ Ops[op].result = "order"
<1>1. op \in DOMAIN BasicOps => BasicOps[op].via # "signed_post"
  BY DEF BasicOps, Operation
<1>2. op \in DOMAIN MarketDataOps => MarketDataOps[op].via # "signed_post"
  BY DEF MarketDataOps, Operation
<1>3. op \in DOMAIN AccountOps => AccountOps[op].via # "signed_post"
  BY DEF AccountOps, Operation
<1>4. op \in DOMAIN CancelOps => CancelOps[op].via # "signed_post"
  BY DEF CancelOps, Operation
<1>5. op \in DOMAIN TradingOps /\ Ops[op] = TradingOps[op]
  BY <1>1, <1>2, <1>3, <1>4 DEF Ops, Joined
<1> QED BY <1>5 DEF TradingOps, Operation

\* What is changed of an order that is cancelled is its status.
LEMMA CancelledOrder ==
  ASSUME Placed, NEW S, NEW i \in DOMAIN orders
  PROVE  LET o == Cancelled(S)[i]
         IN  /\ DOMAIN o = {"json", "asked"} /\ o.asked = orders[i].asked
             /\ DOMAIN o.json = OrderFields
             /\ \A x \in OrderFields \ {"status"} : o.json[x] = orders[i].json[x]
             /\ o.json.status = IF i \in S THEN "CANCELED" ELSE orders[i].json.status
<1>1. Cancelled(S)[i] =
        IF i \in S THEN [orders[i] EXCEPT !.json.status = "CANCELED"] ELSE orders[i]
  BY DEF Cancelled
<1>2. DOMAIN orders[i] = {"json", "asked"} /\ DOMAIN orders[i].json = OrderFields
  BY DEF Placed
<1>3. CASE i \in S
  BY <1>1, <1>2, <1>3 DEF OrderFields
<1>4. CASE i \notin S
  BY <1>1, <1>2, <1>4
<1> QED BY <1>3, <1>4

\* What a step may do to the orders: place the one that an application asked
\* for, if the account can pay for it, or cancel some that are open.
LEMMA OrdersChange ==
  ASSUME Requests, [Next]_vars
  PROVE  \/ orders' = orders
         \/ /\ Cardinality(Open \cup Filled) # Funds
            /\ \E q \in NewOrderRequest, status \in Statuses :
                 orders' = Append(orders,
                   [json |-> PlacedOrder(Timed(build_new_order_params(q)),
                                         Len(orders) + 1, status),
                    asked |-> q])
         \/ \E S \in SUBSET Open : orders' = Cancelled(S)
<1>1. CASE \A c \in Calls : ~Processes(c)
  BY <1>1, NextIsOneOf, Zenon DEF Begin, GoesOn, Intercepted, SendsAgain, TransportFails,
     Arrives, Counts, Finishes, Returns, Blocks, exchangeVars, vars
<1>2. ASSUME NEW c \in Calls, Processes(c)
      PROVE  \/ orders' = orders
             \/ /\ Cardinality(Open \cup Filled) # Funds
                /\ \E q \in NewOrderRequest, status \in Statuses :
                     orders' = Append(orders,
                       [json |-> PlacedOrder(Timed(build_new_order_params(q)),
                                             Len(orders) + 1, status),
                        asked |-> q])
             \/ \E S \in SUBSET Open : orders' = Cancelled(S)
  <2> DEFINE f == call[c]
  <2>1. f.pc = "sent" /\ HasRequest(f)
    BY <1>2, ProcessesFrame, Zenon DEF Requests
  <2>2. PICK e : orders' = e.orders /\ (e.orders = orders \/ e \in Effect(f))
    BY <1>2, ProcessesFrame, Zenon DEF Requests
  <2> HIDE DEF f
  <2>3. \/ e.orders = orders
        \/ /\ Ops[f.op].via = "signed_post" /\ Ops[f.op].path = "order"
           /\ Cardinality(Open \cup Filled) # Funds
           /\ \E status \in Statuses : e = Placing(f, status)
        \/ e.orders = Cancelled(Named(f.wire.params) \cap Open)
        \/ e.orders = Cancelled(OfSymbol(f.wire.params) \cap Open)
    BY <2>2, EffectOnOrders, Zenon
  <2>4. CASE /\ Ops[f.op].via = "signed_post" /\ Ops[f.op].path = "order"
             /\ Cardinality(Open \cup Filled) # Funds
             /\ \E status \in Statuses : e = Placing(f, status)
    <3>1. PICK status \in Statuses : e = Placing(f, status)
      BY <2>4
    <3>2. e.orders = Append(orders, [json |-> PlacedOrder(f.wire.params, Len(orders) + 1, status),
                                     asked |-> f.arg])
      BY <3>1, PlacingAppends, Zenon
    <3>3. Signed(f.op) /\ f.op \in DOMAIN Ops /\ f.arg \in ArgsOf(Ops[f.op].takes)
      BY <2>1, <2>4 DEF Signed, HasRequest
    <3>4. Ops[f.op].takes = "request"
      BY <2>4, <3>3, PlacingOp
    <3>5. f.wire.params = Timed(ParamsOf(Ops[f.op].takes, f.arg))
      BY <2>1, <3>3, SentParams, Zenon
    <3>6. f.arg \in NewOrderRequest
      BY <3>3, <3>4, RequestAssumption DEF ArgsOf
    <3>7. f.wire.params = Timed(build_new_order_params(f.arg))
      BY <3>4, <3>5 DEF ParamsOf
    <3> QED BY <2>2, <2>4, <3>2, <3>6, <3>7, Zenon
  <2>5. \A T : T \cap Open \in SUBSET Open
    OBVIOUS
  <2> QED BY <2>2, <2>3, <2>4, <2>5, Zenon
<1> QED BY <1>1, <1>2, Zenon

\* An order stays as it was asked for.
LEMMA PlacedStep ==
  ASSUME Requests, Listing, Placed, [Next]_vars
  PROVE  Placed'
<1>1. CASE orders' = orders
  BY <1>1 DEF Placed
<1>2. ASSUME NEW q \in NewOrderRequest, NEW status,
             orders' = Append(orders,
               [json |-> PlacedOrder(Timed(build_new_order_params(q)),
                                     Len(orders) + 1, status),
                asked |-> q])
      PROVE  Placed'
  <2> DEFINE o == PlacedOrder(Timed(build_new_order_params(q)), Len(orders) + 1, status)
             new == [json |-> o, asked |-> q]
  <2>1. DOMAIN o = OrderFields /\ AsAsked(o, q)
    BY PlacedAsAsked, Zenon
  <2> HIDE DEF o
  <2>2. DOMAIN new = {"json", "asked"} /\ new.json = o /\ new.asked = q
    OBVIOUS
  <2>3. orders' = Append(orders, new)
    BY <1>2, Zenon DEF o
  <2> HIDE DEF new
  <2>4. /\ DOMAIN orders' = DOMAIN orders \cup {Len(orders) + 1}
        /\ orders'[Len(orders) + 1] = new
        /\ \A i \in DOMAIN orders : orders'[i] = orders[i]
    BY <2>3 DEF Listing
  <2> QED BY <2>1, <2>2, <2>4 DEF Placed
<1>3. ASSUME NEW S \in SUBSET Open, orders' = Cancelled(S)
      PROVE  Placed'
  <2>1. DOMAIN orders' = DOMAIN orders
    BY <1>3 DEF Cancelled
  <2>2. ASSUME NEW i \in DOMAIN orders
        PROVE  /\ DOMAIN orders'[i] = {"json", "asked"}
               /\ DOMAIN orders'[i].json = OrderFields
               /\ AsAsked(orders'[i].json, orders'[i].asked)
    <3> DEFINE o == Cancelled(S)[i]
    <3>1. /\ DOMAIN o = {"json", "asked"} /\ o.asked = orders[i].asked
          /\ DOMAIN o.json = OrderFields
          /\ \A x \in OrderFields \ {"status"} : o.json[x] = orders[i].json[x]
      BY CancelledOrder
    <3> HIDE DEF o
    <3>2. /\ o.json.symbol = orders[i].json.symbol /\ o.json.side = orders[i].json.side
          /\ o.json.type = orders[i].json.type
          /\ o.json.timeInForce = orders[i].json.timeInForce
          /\ o.json.origQty = orders[i].json.origQty
          /\ o.json.price = orders[i].json.price
          /\ o.json.stopPrice = orders[i].json.stopPrice
          /\ o.json.clientOrderId = orders[i].json.clientOrderId
      BY <3>1 DEF OrderFields
    <3>3. AsAsked(o.json, o.asked)
      BY <3>1, <3>2, Zenon DEF AsAsked, Placed
    <3> QED BY <1>3, <3>1, <3>3, Zenon DEF o
  <2> QED BY <2>1, <2>2 DEF Placed
<1> QED BY <1>1, <1>2, <1>3, OrdersChange, Zenon

\* The orders are a sequence.
THEOREM OrdersListed == Spec => []Listing
<1>1. Init => Listing
  BY DEF Init, Listing
<1>2. Listing /\ Requests /\ [Next]_vars => Listing'
  BY ListingStep
<1> QED BY <1>1, <1>2, RequestsInOrder, PTL DEF Spec

\* Every order has all its members and is the one asked for.
THEOREM OrdersPlaced == Spec => []Placed
<1>1. Init => Placed
  BY DEF Init, Placed
<1>2. Requests /\ Listing /\ Placed /\ [Next]_vars => Placed'
  BY PlacedStep
<1> QED BY <1>1, <1>2, RequestsInOrder, OrdersListed, PTL DEF Spec

\* Every order at the exchange is the one the application asked for: its
\* symbol, side, type, time in force and name exactly, its price, stop price and
\* quantity to six decimals.  This holds of every request that the types allow,
\* however many calls overlap and whatever fails.
THEOREM PlacedIsRequested == Spec => []OrdersAreAsRequested
<1>1. Placed => OrdersAreAsRequested
  BY Zenon DEF Placed, AsAsked, OrdersAreAsRequested
<1> QED BY <1>1, OrdersPlaced, PTL

-----------------------------------------------------------------------------
(* What is read of an order *)

\* What either parser finds in an order.
Read(o) ==
  [symbol |-> o.symbol, order_id |-> o.orderId, client_order_id |-> o.clientOrderId,
   price |-> o.price, orig_qty |-> o.origQty, executed_qty |-> o.executedQty,
   cummulative_quote_qty |-> o.cummulativeQuoteQty, status |-> o.status,
   type |-> o.type, side |-> o.side, time_in_force |-> o.timeInForce,
   time |-> o.time, update_time |-> o.updateTime]

ReadFields ==
  {"symbol", "order_id", "client_order_id", "price", "orig_qty", "executed_qty",
   "cummulative_quote_qty", "status", "type", "side", "time_in_force", "time",
   "update_time"}

\* Its members.
LEMMA ReadMembers ==
  ASSUME NEW o
  PROVE  /\ DOMAIN Read(o) = ReadFields
         /\ Read(o)["symbol"] = o["symbol"] /\ Read(o)["order_id"] = o["orderId"]
         /\ Read(o)["client_order_id"] = o["clientOrderId"]
         /\ Read(o)["price"] = o["price"] /\ Read(o)["orig_qty"] = o["origQty"]
         /\ Read(o)["executed_qty"] = o["executedQty"]
         /\ Read(o)["cummulative_quote_qty"] = o["cummulativeQuoteQty"]
         /\ Read(o)["status"] = o["status"] /\ Read(o)["type"] = o["type"]
         /\ Read(o)["side"] = o["side"]
         /\ Read(o)["time_in_force"] = o["timeInForce"]
         /\ Read(o)["time"] = o["time"] /\ Read(o)["update_time"] = o["updateTime"]
  BY DEF Read, ReadFields

\* parse_order() finds them in an order of the REST interface ...
LEMMA MembersOfOrder ==
  ASSUME NEW o, DOMAIN o = OrderFields
  PROVE  Members(Object(o), OrderKeys) = Read(o)
<1>1. Object(o).of = o
  BY DEF Object
<1>2. DOMAIN OrderKeys = DOMAIN Read(o)
  BY DEF OrderKeys, Read
<1>3. ASSUME NEW m \in DOMAIN OrderKeys
      PROVE  OrderKeys[m][1] \in OrderFields /\ o[OrderKeys[m][1]] = Read(o)[m]
  <2>1. /\ OrderKeys["symbol"][1] = "symbol" /\ OrderKeys["order_id"][1] = "orderId"
        /\ OrderKeys["client_order_id"][1] = "clientOrderId"
        /\ OrderKeys["price"][1] = "price" /\ OrderKeys["orig_qty"][1] = "origQty"
        /\ OrderKeys["executed_qty"][1] = "executedQty"
        /\ OrderKeys["cummulative_quote_qty"][1] = "cummulativeQuoteQty"
        /\ OrderKeys["status"][1] = "status" /\ OrderKeys["type"][1] = "type"
        /\ OrderKeys["side"][1] = "side"
        /\ OrderKeys["time_in_force"][1] = "timeInForce"
        /\ OrderKeys["time"][1] = "time"
        /\ OrderKeys["update_time"][1] = "updateTime"
    BY DEF OrderKeys
  <2>2. m \in ReadFields
    BY <1>2, ReadMembers
  <2> QED BY <2>1, <2>2, ReadMembers DEF ReadFields, OrderFields
<1> HIDE DEF Object
<1>4. Members(Object(o), OrderKeys) = [m \in DOMAIN OrderKeys |-> Read(o)[m]]
  BY <1>1, <1>3 DEF Members
<1>5. Read(o) = [m \in DOMAIN Read(o) |-> Read(o)[m]]
  BY DEF Read
<1> QED BY <1>2, <1>4, <1>5

\* ... and parse_order_update() in the report about it.
LEMMA MembersOfUpdate ==
  ASSUME NEW o
  PROVE  Members(Object(Report(o)), UpdateKeys) = Read(o)
<1> DEFINE r == Report(o)
<1>1. Object(r).of = r
  BY DEF Object
<1>2. DOMAIN UpdateKeys = DOMAIN Read(o)
  BY DEF UpdateKeys, Read
<1>3. ASSUME NEW m \in DOMAIN UpdateKeys
      PROVE  UpdateKeys[m][1] \in DOMAIN r /\ r[UpdateKeys[m][1]] = Read(o)[m]
  <2>1. /\ UpdateKeys["symbol"][1] = "s" /\ UpdateKeys["order_id"][1] = "i"
        /\ UpdateKeys["client_order_id"][1] = "c" /\ UpdateKeys["price"][1] = "p"
        /\ UpdateKeys["orig_qty"][1] = "q" /\ UpdateKeys["executed_qty"][1] = "z"
        /\ UpdateKeys["cummulative_quote_qty"][1] = "Z"
        /\ UpdateKeys["status"][1] = "X" /\ UpdateKeys["type"][1] = "o"
        /\ UpdateKeys["side"][1] = "S" /\ UpdateKeys["time_in_force"][1] = "f"
        /\ UpdateKeys["time"][1] = "O" /\ UpdateKeys["update_time"][1] = "T"
    BY DEF UpdateKeys
  <2>2. /\ DOMAIN r = {"s", "i", "c", "S", "o", "f", "q", "p", "z", "Z", "X", "O", "T"}
        /\ r["s"] = o["symbol"] /\ r["i"] = o["orderId"]
        /\ r["c"] = o["clientOrderId"] /\ r["p"] = o["price"]
        /\ r["q"] = o["origQty"] /\ r["z"] = o["executedQty"]
        /\ r["Z"] = o["cummulativeQuoteQty"] /\ r["X"] = o["status"]
        /\ r["o"] = o["type"] /\ r["S"] = o["side"] /\ r["f"] = o["timeInForce"]
        /\ r["O"] = o["time"] /\ r["T"] = o["updateTime"]
    BY DEF Report
  <2>3. m \in ReadFields
    BY <1>2, ReadMembers
  <2> QED BY <2>1, <2>2, <2>3, ReadMembers DEF ReadFields
<1> HIDE DEF r
<1>4. Members(Object(r), UpdateKeys) = [m \in DOMAIN UpdateKeys |-> Read(o)[m]]
  BY <1>1, <1>3 DEF Members
<1>5. Read(o) = [m \in DOMAIN Read(o) |-> Read(o)[m]]
  BY DEF Read
<1> QED BY <1>2, <1>4, <1>5 DEF r

\* So the two make the same Order of it.
LEMMA ReadsSame ==
  ASSUME NEW o, DOMAIN o = OrderFields
  PROVE  parse_order(Object(o)) = parse_order_update(Object(Report(o)))
<1>1. \A x : Object(x).type = "object"
  BY DEF Object
<1>2. parse_order(Object(o)) = ReadOrder(Object(o), OrderKeys)
  BY Zenon DEF parse_order
<1>3. parse_order_update(Object(Report(o))) = ReadOrder(Object(Report(o)), UpdateKeys)
  BY Zenon DEF parse_order_update
<1>4. Members(Object(o), OrderKeys) = Members(Object(Report(o)), UpdateKeys)
  BY MembersOfOrder, MembersOfUpdate
<1> QED BY <1>1, <1>2, <1>3, <1>4 DEF ReadOrder
-----------------------------------------------------------------------------
(* The balances *)

IsBalance(x) == x \in [asset : {"USDT", "BTC"}, free : Nat, locked : Nat]

\* parse_balance() reads a balance as it is, and parse_account_update() its
\* position; it is listed if it is not nought.
LEMMA BalanceRead ==
  ASSUME NEW x, IsBalance(x)
  PROVE  /\ parse_balance(x) = x
         /\ Members(Object([a |-> x.asset, f |-> x.free, l |-> x.locked]), PositionKeys) = x
         /\ HasFunds(x) <=> x.free + x.locked > 0
<1> DEFINE p == [a |-> x.asset, f |-> x.free, l |-> x.locked]
           names == {"asset", "free", "locked"}
<1>1. /\ DOMAIN BalanceKeys = names
      /\ BalanceKeys["asset"][1] = "asset" /\ BalanceKeys["free"][1] = "free"
      /\ BalanceKeys["locked"][1] = "locked"
  BY DEF BalanceKeys
<1>2. /\ DOMAIN PositionKeys = names
      /\ PositionKeys["asset"][1] = "a" /\ PositionKeys["free"][1] = "f"
      /\ PositionKeys["locked"][1] = "l"
  BY DEF PositionKeys
<1>3. /\ DOMAIN p = {"a", "f", "l"}
      /\ p["a"] = x["asset"] /\ p["f"] = x["free"] /\ p["l"] = x["locked"]
  OBVIOUS
<1> HIDE DEF p
<1>4. Object(x).of = x /\ Object(p).of = p
  BY DEF Object
<1>5. parse_balance(x) = [m \in names |-> x[m]]
  BY <1>1, <1>4 DEF parse_balance, Members, IsBalance
<1>6. Members(Object(p), PositionKeys) = [m \in names |-> x[m]]
  BY <1>2, <1>3, <1>4 DEF Members
<1>7. x = [m \in names |-> x[m]]
  BY DEF IsBalance
<1>8. HasFunds(x) <=> x.free + x.locked > 0
  BY DEF HasFunds, IsBalance
<1> QED BY <1>5, <1>6, <1>7, <1>8 DEF p

\* The account never pays for more than it holds.
Funded == Cardinality(Open \cup Filled) <= Funds

\* So the two list the same balances.
LEMMA BalancesAgree ==
  ASSUME Listing, Funded
  PROVE  parse_account_info(Object([balances |-> Balances])).balances
           = {b \in parse_account_update(Object([B |-> Position])).balances :
                b.free + b.locked > 0}
<1>1. IsFiniteSet(DOMAIN orders)
  <2>1. DOMAIN orders = 1..Len(orders) /\ Len(orders) \in Nat
    BY DEF Listing
  <2> QED BY <2>1, FS_Interval
<1>2. /\ IsFiniteSet(Open \cup Filled) /\ IsFiniteSet(Open) /\ IsFiniteSet(Filled)
  BY <1>1, FS_Subset DEF Open, Filled
<1>3. /\ Cardinality(Open \cup Filled) \in Nat /\ Cardinality(Open) \in Nat
      /\ Cardinality(Filled) \in Nat
  BY <1>2, FS_CardinalityType
<1>4. Funds - Cardinality(Open \cup Filled) \in Nat
  BY <1>3, FundsAssumption DEF Funded
<1>5. \A x \in Balances : IsBalance(x)
  <2>1. \A s \in {"USDT", "BTC"}, m, n \in Nat :
          IsBalance([asset |-> s, free |-> m, locked |-> n])
    BY DEF IsBalance
  <2> QED BY <1>3, <1>4, <2>1 DEF Balances
<1> DEFINE pos(x) == [a |-> x.asset, f |-> x.free, l |-> x.locked]
<1>6. Position = {pos(x) : x \in Balances}
  BY DEF Position
<1> HIDE DEF pos
<1>7. parse_account_info(Object([balances |-> Balances])).balances
        = {b \in {parse_balance(x) : x \in Balances} : HasFunds(b)}
  BY DEF parse_account_info, Object
<1>8. parse_account_update(Object([B |-> Position])).balances
        = {Members(Object(b), PositionKeys) : b \in Position}
  BY DEF parse_account_update, Object
<1>9. \A x \in Balances : /\ parse_balance(x) = x
                          /\ Members(Object(pos(x)), PositionKeys) = x
                          /\ HasFunds(x) <=> x.free + x.locked > 0
  BY <1>5, BalanceRead, Zenon DEF pos
<1>10. {parse_balance(x) : x \in Balances} = Balances
  BY <1>9
<1>11. {Members(Object(b), PositionKeys) : b \in Position} = Balances
  BY <1>6, <1>9
<1> QED BY <1>7, <1>8, <1>9, <1>10, <1>11

\* Open and filled are found by their status alone.
LEMMA FundedStep ==
  ASSUME Requests, Listing, Placed, Funded, [Next]_vars
  PROVE  Funded'
<1> DEFINE paid == Open \cup Filled
<1>1. DOMAIN orders = 1..Len(orders) /\ Len(orders) \in Nat
  BY DEF Listing
<1>2. IsFiniteSet(paid) /\ Cardinality(paid) \in Nat
  <2>1. IsFiniteSet(DOMAIN orders)
    BY <1>1, FS_Interval
  <2>2. paid \subseteq DOMAIN orders
    BY DEF Open, Filled
  <2> QED BY <2>1, <2>2, FS_Subset, FS_CardinalityType
<1>3. CASE orders' = orders
  BY <1>3 DEF Funded, Open, Filled
<1>4. ASSUME Cardinality(paid) # Funds, NEW o, orders' = Append(orders, o)
      PROVE  Funded'
  <2> DEFINE n == Len(orders) + 1
  <2>1. /\ DOMAIN orders' = DOMAIN orders \cup {n}
        /\ \A i \in DOMAIN orders : orders'[i] = orders[i]
    BY <1>4 DEF Listing
  <2>2. paid' \subseteq paid \cup {n}
    BY <2>1 DEF Open, Filled
  <2>3. n \notin paid
    BY <1>1 DEF Open, Filled
  <2>4. IsFiniteSet(paid \cup {n}) /\ Cardinality(paid \cup {n}) = Cardinality(paid) + 1
    BY <1>2, <2>3, FS_AddElement, Zenon
  <2>5. Cardinality(paid') <= Cardinality(paid) + 1 /\ Cardinality(paid') \in Nat
    BY <2>2, <2>4, FS_Subset, FS_CardinalityType
  <2>6. Cardinality(paid) + 1 <= Funds
    BY <1>2, <1>4, FundsAssumption DEF Funded
  <2>7. Cardinality(paid') <= Funds
    BY <1>2, <2>5, <2>6, FundsAssumption
  <2> QED BY <2>7 DEF Funded
<1>5. ASSUME NEW S \in SUBSET Open, orders' = Cancelled(S)
      PROVE  Funded'
  <2>1. DOMAIN orders' = DOMAIN orders
    BY <1>5 DEF Cancelled
  <2>2. \A i \in DOMAIN orders :
          orders'[i].json.status = IF i \in S THEN "CANCELED" ELSE orders[i].json.status
    BY <1>5, CancelledOrder
  <2>3. paid' \subseteq paid
    BY <2>1, <2>2 DEF Open, Filled
  <2>4. Cardinality(paid') <= Cardinality(paid) /\ Cardinality(paid') \in Nat
    BY <1>2, <2>3, FS_Subset, FS_CardinalityType
  <2>5. Cardinality(paid') <= Funds
    BY <1>2, <2>4, FundsAssumption DEF Funded
  <2> QED BY <2>5 DEF Funded
<1>6. \/ orders' = orders
      \/ Cardinality(Open \cup Filled) # Funds /\ \E o : orders' = Append(orders, o)
      \/ \E S \in SUBSET Open : orders' = Cancelled(S)
  BY OrdersChange, Zenon
<1> QED BY <1>3, <1>4, <1>5, <1>6

\* The REST answers and the user data stream give the same picture of every
\* order and of the account, after any calls, cancellations and faults.
THEOREM SamePicture == Spec => []ViewsAgree
<1>1. Init => Funded
  BY FundsAssumption, FS_EmptySet DEF Init, Funded, Open, Filled
<1>2. Requests /\ Listing /\ Placed /\ Funded /\ [Next]_vars => Funded'
  BY FundedStep
<1>3. Listing /\ Placed /\ Funded => ViewsAgree
  <2> SUFFICES ASSUME Listing, Placed, Funded PROVE ViewsAgree
    OBVIOUS
  <2>1. \A i \in DOMAIN orders : DOMAIN orders[i].json = OrderFields
    BY DEF Placed
  <2>2. \A i \in DOMAIN orders :
          parse_order(Object(orders[i].json))
            = parse_order_update(Object(Report(orders[i].json)))
    BY <2>1, ReadsSame
  <2> QED BY <2>2, BalancesAgree DEF ViewsAgree
<1> QED BY <1>1, <1>2, <1>3, RequestsInOrder, OrdersListed, OrdersPlaced, PTL DEF Spec

-----------------------------------------------------------------------------
(* What new_order() returns *)

\* The operation.
LEMMA NewOrderOp ==
  Ops["new_order"] = Operation("signed_post", "order", "request", "order")
<1>1. "new_order" \in DOMAIN TradingOps /\ TradingOps["new_order"] =
        Operation("signed_post", "order", "request", "order")
  BY DEF TradingOps
<1>2. /\ "new_order" \notin DOMAIN BasicOps /\ "new_order" \notin DOMAIN MarketDataOps
      /\ "new_order" \notin DOMAIN AccountOps
  BY DEF BasicOps, MarketDataOps, AccountOps
<1> QED BY <1>1, <1>2 DEF Ops, Joined

\* A set that may have grown by one element.
LEMMA OneMore ==
  ASSUME NEW S, IsFiniteSet(S), NEW x, NEW T \in {S, S \cup {x}}
  PROVE  /\ IsFiniteSet(T) /\ Cardinality(T) \in Nat /\ Cardinality(S) \in Nat
         /\ Cardinality(T) <= Cardinality(S) + 1
<1>1. Cardinality(S) \in Nat /\ IsFiniteSet(S \cup {x})
  BY FS_CardinalityType, FS_AddElement, Zenon
<1>2. Cardinality(S \cup {x}) = IF x \in S THEN Cardinality(S) ELSE Cardinality(S) + 1
  BY FS_AddElement
<1>3. CASE T = S
  BY <1>1, <1>3
<1>4. CASE T = S \cup {x}
  BY <1>1, <1>2, <1>4
<1> QED BY <1>3, <1>4

\* A call places at most one order for each time that its request is sent.
Limited ==
  \A c \in Calls :
    LET f == call[c]
    IN  /\ IsFiniteSet(f.placed) /\ f.sends \in Nat
        /\ Cardinality(f.placed) <= IF f.pc = "sent" THEN f.sends - 1 ELSE f.sends

\* Every step keeps it so.
LEMMA LimitedStep ==
  ASSUME Requests, Limited, [Next]_vars
  PROVE  Limited'
<1> DEFINE Few(f) == /\ IsFiniteSet(f.placed) /\ f.sends \in Nat
                     /\ Cardinality(f.placed) <= IF f.pc = "sent" THEN f.sends - 1 ELSE f.sends
<1>1. DOMAIN call = Calls /\ \A c \in Calls : IsFrame(call[c]) /\ Few(call[c])
  BY DEF Limited, Requests, Frames
<1>2. ASSUME NEW c \in Calls, Others(c), Few(call'[c]) PROVE Limited'
  BY <1>1, <1>2 DEF Others, Limited
<1>3. ASSUME NEW c \in Calls, NEW op \in DOMAIN Ops, NEW async \in BOOLEAN,
             Begin(c, op, async)
      PROVE  Limited'
  <2>1. /\ Others(c) /\ call'[c].placed = {} /\ call'[c].pc \in {"sent", "done"}
        /\ call'[c].sends = IF call'[c].pc = "sent" THEN 1 ELSE 0
    BY <1>3, BeginFrame, Zenon DEF Requests
  <2>2. Few(call'[c])
    BY <2>1, FS_EmptySet
  <2> QED BY <1>2, <2>1, <2>2, Zenon
<1>4. ASSUME NEW c \in Calls, GoesOn(c) PROVE Limited'
  <2> DEFINE f == call[c]
             g == call'[c]
  <2>0. Others(c)
    BY <1>4, GoesOnFrame DEF Requests
  <2>1. CASE Processes(c)
    <3>1. f.pc = "sent" /\ g.pc = "processed" /\ g.sends = f.sends
      BY <2>1, ProcessesFrame DEF Requests
    <3>2. PICK x : g.placed \in {f.placed, f.placed \cup {x}}
      BY <2>1, ProcessesFrame, Zenon DEF Requests
    <3>3. Few(f)
      BY <1>1
    <3>4. /\ IsFiniteSet(g.placed) /\ Cardinality(g.placed) \in Nat
          /\ Cardinality(f.placed) \in Nat
          /\ Cardinality(g.placed) <= Cardinality(f.placed) + 1
      BY <3>2, <3>3, OneMore, Zenon
    <3>5. Few(g)
      BY <3>1, <3>3, <3>4
    <3> QED BY <1>2, <2>0, <3>5
  <2>2. CASE SendsAgain(c)
    <3>1. /\ f.pc \in {"sent", "processed"} /\ f.sends = 1
          /\ g.pc = "sent" /\ g.sends = 2 /\ g.placed = f.placed
      BY <1>1, <2>2 DEF SendsAgain, IsFrame, Fields
    <3>2. Few(f) /\ Cardinality(f.placed) \in Nat
      BY <1>1, FS_CardinalityType
    <3>3. Few(g)
      BY <3>1, <3>2
    <3> QED BY <1>2, <2>0, <3>3
  <2>3. CASE Intercepted(c) \/ TransportFails(c) \/ Arrives(c) \/ Counts(c) \/ Finishes(c)
    <3> DEFINE Same == g.pc # "sent" /\ g.sends = f.sends /\ g.placed = f.placed
    <3>1. ASSUME Intercepted(c) PROVE Same
      BY <1>1, <3>1 DEF Intercepted, IsFrame, Fields
    <3>2. ASSUME TransportFails(c) PROVE Same
      BY <1>1, <3>2 DEF TransportFails, IsFrame, Fields
    <3>3. ASSUME Arrives(c) PROVE Same
      BY <1>1, <3>3 DEF Arrives, IsFrame, Fields
    <3>4. ASSUME Counts(c) PROVE Same
      BY <1>1, <3>4 DEF Counts, IsFrame, Fields
    <3>5. ASSUME Finishes(c) PROVE Same
      BY <1>1, <3>5 DEF Finishes, IsFrame, Fields
    <3>6. Same
      BY <2>3, <3>1, <3>2, <3>3, <3>4, <3>5
    <3>7. Few(f) /\ Cardinality(f.placed) \in Nat
      BY <1>1, FS_CardinalityType
    <3>8. Few(g)
      BY <3>6, <3>7
    <3> QED BY <1>2, <2>0, <3>8
  <2>4. CASE Returns(c)
    <3>1. g.pc = "idle" /\ g.placed = {} /\ g.sends = 0
      BY <1>1, <2>4 DEF Returns, IdleFrame
    <3>2. Few(g)
      BY <3>1, FS_EmptySet
    <3> QED BY <1>2, <2>0, <3>2
  <2> QED BY <1>4, <2>1, <2>2, <2>3, <2>4 DEF GoesOn
<1>5. CASE Blocks \/ UNCHANGED vars
  <2>1. call' = call
    BY <1>5 DEF Blocks, vars
  <2> QED BY <2>1 DEF Limited
<1> QED BY <1>3, <1>4, <1>5, NextIsOneOf

\* The answer tells what the exchange did with the request: it refused it, and if
\* the request went out once nothing is placed, or it placed the order that is
\* the body.
Told(f) ==
  \/ f.reply.status = 400 /\ f.reply.body = ApiError /\ (f.sends = 1 => f.placed = {})
  \/ /\ f.reply.status = 200
     /\ \E id, status :
          /\ status \in Statuses /\ id \in f.placed
          /\ f.reply.body =
               Object(PlacedOrder(Timed(build_new_order_params(f.arg)), id, status))

\* A call of new_order() has placed nothing before its first answer, its answer
\* tells the truth, and its result is made of the answer.
Truthful ==
  \A c \in Calls :
    LET f == call[c]
    IN  f.op = "new_order" =>
          /\ f.arg \in NewOrderRequest
          /\ f.pc = "sent" /\ f.sends = 1 => f.placed = {}
          /\ f.pc \in {"processed", "counting"} /\ f.reply.own => Told(f)
          /\ f.pc = "done" /\ f.reply.own =>
               /\ Told(f)
               /\ f.result = ResultOf(Ops[f.op], f.reply.status, f.reply.body)

\* The exchange answers it.
LEMMA ProcessesOrder ==
  ASSUME Requests, NEW c \in Calls, Processes(c), call[c].op = "new_order",
         call[c].sends = 1 => call[c].placed = {}, call[c].arg \in NewOrderRequest
  PROVE  Told(call'[c])
<1> DEFINE f == call[c]
           effect == IF Accepts(f.wire) THEN Effect(f) ELSE {}
           placed == IF f.op = "new_order" /\ effect # {} THEN {Len(orders) + 1} ELSE {}
           reply(e, w) == [status |-> IF effect = {} THEN 400 ELSE 200, body |-> e.body,
                           headers |-> HeadersOf(f, w, placed), own |-> TRUE,
                           at |-> weight + 1]
<1>1. PICK w \in {weight + 1} \cup (IF f.op \in Garbled THEN {Junk} ELSE {}) :
        \E e \in IF effect = {} THEN {[orders |-> orders, body |-> ApiError]} ELSE effect :
          /\ orders' = e.orders
          /\ call' = [call EXCEPT ![c].pc = "processed", ![c].placed = @ \cup placed,
                        ![c].reply = reply(e, w)]
  BY Zenon DEF Processes
<1> HIDE DEF reply
<1>2. PICK e \in IF effect = {} THEN {[orders |-> orders, body |-> ApiError]} ELSE effect :
        call' = [call EXCEPT ![c].pc = "processed", ![c].placed = @ \cup placed,
                   ![c].reply = reply(e, w)]
  BY <1>1, Zenon
<1>3. f.pc = "sent" /\ HasRequest(f)
  BY Zenon DEF Requests, Processes
<1>4. /\ Ops[f.op].via = "signed_post" /\ Ops[f.op].path = "order"
      /\ Ops[f.op].takes = "request" /\ Ops[f.op].result = "order" /\ Signed(f.op)
  BY NewOrderOp DEF Operation, Signed
<1>5. f.wire.params = Timed(build_new_order_params(f.arg))
  <2>1. f.wire.params = Timed(ParamsOf(Ops[f.op].takes, f.arg))
    BY <1>3, <1>4, SentParams, Zenon
  <2> QED BY <1>4, <2>1 DEF ParamsOf
<1>6. /\ reply(e, w).status = IF effect = {} THEN 400 ELSE 200
      /\ reply(e, w).body = e.body
  BY DEF reply
<1> HIDE DEF effect
<1>7. /\ call'[c].reply = reply(e, w) /\ call'[c].placed = f.placed \cup placed
      /\ call'[c].arg = f.arg /\ call'[c].sends = f.sends
  BY <1>2, Zenon DEF Requests, Frames, IsFrame, Fields
<1>8. CASE effect = {}
  <2>1. e.body = ApiError
    BY <1>2, <1>8
  <2>2. placed = {}
    BY <1>8
  <2> HIDE DEF placed
  <2> QED BY <1>6, <1>7, <1>8, <2>1, <2>2 DEF Told
<1>9. CASE effect # {}
  <2>1. e \in Effect(f)
    BY <1>2, <1>9 DEF effect
  <2>2. \E status \in Statuses : e = Placing(f, status)
    BY <1>4, <2>1 DEF Effect
  <2>3. PICK status \in Statuses :
          e.body = Object(PlacedOrder(f.wire.params, Len(orders) + 1, status))
    BY <2>2, PlacingAppends, Zenon
  <2>4. placed = {Len(orders) + 1}
    BY <1>9
  <2> HIDE DEF placed
  <2> QED BY <1>5, <1>6, <1>7, <1>9, <2>3, <2>4 DEF Told
<1> QED BY <1>8, <1>9

\* The rest of the answer is left as it is while the headers are stored.
LEMMA ToldKept ==
  ASSUME NEW f, NEW g, Told(f), g.arg = f.arg, g.placed = f.placed,
         g.sends = f.sends, g.reply.status = f.reply.status, g.reply.body = f.reply.body
  PROVE  Told(g)
  BY DEF Told

\* Every step keeps it so.
LEMMA TruthfulStep ==
  ASSUME Requests, Truthful, [Next]_vars
  PROVE  Truthful'
<1> DEFINE True(f) == f.op = "new_order" =>
             /\ f.arg \in NewOrderRequest
             /\ f.pc = "sent" /\ f.sends = 1 => f.placed = {}
             /\ f.pc \in {"processed", "counting"} /\ f.reply.own => Told(f)
             /\ f.pc = "done" /\ f.reply.own =>
                  /\ Told(f)
                  /\ f.result = ResultOf(Ops[f.op], f.reply.status, f.reply.body)
<1>1. DOMAIN call = Calls /\ \A c \in Calls : IsFrame(call[c]) /\ True(call[c])
  BY DEF Truthful, Requests, Frames
<1>2. ASSUME NEW c \in Calls, Others(c), True(call'[c]) PROVE Truthful'
  BY <1>1, <1>2 DEF Others, Truthful
<1>3. ASSUME NEW c \in Calls, NEW op \in DOMAIN Ops, NEW async \in BOOLEAN,
             Begin(c, op, async)
      PROVE  Truthful'
  <2>1. /\ Others(c) /\ call'[c].op = op /\ call'[c].arg \in ArgsOf(Ops[op].takes)
        /\ call'[c].reply = NoReply /\ call'[c].placed = {}
        /\ call'[c].pc \in {"sent", "done"}
    BY <1>3, BeginFrame, Zenon DEF Requests
  <2>2. ~NoReply.own
    BY DEF NoReply
  <2>3. op = "new_order" => call'[c].arg \in NewOrderRequest
    <3>1. Ops["new_order"].takes = "request"
      BY NewOrderOp DEF Operation
    <3>2. ArgsOf("request") = NewOrders
      BY DEF ArgsOf
    <3> QED BY <2>1, <3>1, <3>2, RequestAssumption
  <2>4. True(call'[c])
    BY <2>1, <2>2, <2>3
  <2> QED BY <1>2, <2>1, <2>4
<1>4. ASSUME NEW c \in Calls, GoesOn(c) PROVE Truthful'
  <2> DEFINE f == call[c]
             g == call'[c]
  <2>0. Others(c)
    BY <1>4, GoesOnFrame DEF Requests
  <2>1. CASE Processes(c)
    <3>1. f.pc = "sent" /\ g.pc = "processed" /\ SameCall(f, g) /\ g.sends = f.sends
      BY <2>1, ProcessesFrame DEF Requests
    <3>2. g.op = "new_order" =>
            /\ f.op = "new_order" /\ f.arg \in NewOrderRequest
            /\ f.sends = 1 => f.placed = {}
      BY <1>1, <3>1, Zenon DEF SameCall
    <3>3. g.op = "new_order" => Told(g)
      BY <2>1, <3>2, ProcessesOrder
    <3>4. True(g)
      BY <3>1, <3>2, <3>3 DEF SameCall
    <3> QED BY <1>2, <2>0, <3>4
  <2>2. CASE Intercepted(c)
    <3>1. /\ f.pc = "sent" /\ g.pc = "processed" /\ g.op = f.op /\ g.arg = f.arg
          /\ g.sends = f.sends /\ ~g.reply.own
      BY <1>1, <2>2 DEF Intercepted, NoReply, IsFrame, Fields
    <3>2. True(g)
      BY <1>1, <3>1, Zenon
    <3> QED BY <1>2, <2>0, <3>2
  <2>3. CASE SendsAgain(c)
    <3>1. g.pc = "sent" /\ g.sends = 2 /\ g.op = f.op /\ g.arg = f.arg
      BY <1>1, <2>3 DEF SendsAgain, IsFrame, Fields
    <3>2. g.sends # 1 /\ g.pc \notin {"processed", "counting"} /\ g.pc # "done"
      BY <3>1
    <3>3. True(g)
      BY <1>1, <3>1, <3>2, Zenon
    <3> QED BY <1>2, <2>0, <3>3
  <2>4. CASE TransportFails(c)
    <3>1. /\ g.pc = "done" /\ g.op = f.op /\ g.arg = f.arg
          /\ g.sends = f.sends /\ ~g.reply.own
      BY <1>1, <2>4 DEF TransportFails, NoReply, IsFrame, Fields
    <3>2. True(g)
      BY <1>1, <3>1, Zenon
    <3> QED BY <1>2, <2>0, <3>2
  <2>5. CASE Arrives(c) \/ Counts(c)
    <3> DEFINE Kept == /\ f.pc \in {"processed", "counting"} /\ g.pc = "counting"
                       /\ g.op = f.op /\ g.arg = f.arg
                       /\ g.sends = f.sends /\ g.placed = f.placed
                       /\ g.reply.own = f.reply.own
                       /\ g.reply.status = f.reply.status
                       /\ g.reply.body = f.reply.body
    <3>0. ASSUME Arrives(c) PROVE Kept
      BY <1>1, <3>0 DEF Arrives, IsFrame, Fields
    <3>a. ASSUME Counts(c) PROVE Kept
      BY <1>1, <3>a DEF Counts, IsFrame, Fields, ReplyFields
    <3>1. Kept
      BY <2>5, <3>0, <3>a
    <3>2. True(g)
      BY <1>1, <3>1, ToldKept, Zenon
    <3> QED BY <1>2, <2>0, <3>2
  <2>6. CASE Finishes(c)
    <3>1. /\ f.pc = "counting" /\ g.pc = "done" /\ g.op = f.op
          /\ g.arg = f.arg /\ g.sends = f.sends /\ g.placed = f.placed
          /\ g.reply = f.reply
          /\ g.result = ResultOf(Ops[f.op], f.reply.status, f.reply.body)
      BY <1>1, <2>6 DEF Finishes, IsFrame, Fields
    <3>2. True(g)
      BY <1>1, <3>1, ToldKept, Zenon
    <3> QED BY <1>2, <2>0, <3>2
  <2>7. CASE Returns(c)
    <3>1. g.op = "ping"
      BY <1>1, <2>7 DEF Returns, IdleFrame
    <3> QED BY <1>2, <2>0, <3>1
  <2> QED BY <1>4, <2>1, <2>2, <2>3, <2>4, <2>5, <2>6, <2>7 DEF GoesOn
<1>5. CASE Blocks \/ UNCHANGED vars
  <2>1. call' = call
    BY <1>5 DEF Blocks, vars
  <2> QED BY <2>1 DEF Truthful
<1> QED BY <1>3, <1>4, <1>5, NextIsOneOf

\* The names of the enumerations are read back as what they were written for.
LEMMA NamesReadBack ==
  /\ \A x \in {"Buy", "Sell"} :
       to_string[x] \in DOMAIN SideFromString /\ SideFromString[to_string[x]] = x
  /\ \A x \in {"Limit", "Market", "StopLoss", "StopLossLimit", "TakeProfit",
             "TakeProfitLimit", "LimitMaker"} :
       /\ to_string[x] \in DOMAIN OrderTypeFromString
       /\ OrderTypeFromString[to_string[x]] = x
  /\ \A x \in {"GTC", "IOC", "FOK"} :
       /\ to_string[x] \in DOMAIN TimeInForceFromString
       /\ TimeInForceFromString[to_string[x]] = x
<1>1. \A x \in {"Buy", "Sell"} :
        to_string[x] \in DOMAIN SideFromString /\ SideFromString[to_string[x]] = x
  BY DEF to_string, SideFromString
<1>2. \A x \in {"Limit", "Market", "StopLoss", "StopLossLimit", "TakeProfit",
              "TakeProfitLimit", "LimitMaker"} :
        /\ to_string[x] \in DOMAIN OrderTypeFromString
        /\ OrderTypeFromString[to_string[x]] = x
  BY DEF to_string, OrderTypeFromString
<1>3. \A x \in {"GTC", "IOC", "FOK"} :
        /\ to_string[x] \in DOMAIN TimeInForceFromString
        /\ TimeInForceFromString[to_string[x]] = x
  BY DEF to_string, TimeInForceFromString
<1> QED BY <1>1, <1>2, <1>3

\* The Order that is read from a placed order is the one asked for.
LEMMA ReadsAsAsked ==
  ASSUME NEW q \in NewOrderRequest, NEW o, DOMAIN o = OrderFields, AsAsked(o, q),
         o.status \in DOMAIN OrderStatusFromString
  PROVE  LET r == parse_order(Object(o))
         IN  /\ ~Threw(r) /\ r.order_id = o.orderId
             /\ r.symbol = q.symbol /\ r.side = q.side
             /\ r.type = q.type /\ r.time_in_force = q.time_in_force
             /\ Near(r.orig_qty, q.quantity) /\ Near(r.price, OrZero(q.price))
<1> DEFINE x == Read(o)
           r == [x EXCEPT !.status = OrderStatusFromString[@],
                          !.type = OrderTypeFromString[@],
                          !.side = SideFromString[@],
                          !.time_in_force = TimeInForceFromString[@]]
<1>1. Object(o).type = "object" /\ Members(Object(o), OrderKeys) = x
  BY MembersOfOrder DEF Object
<1>2. /\ DOMAIN x = ReadFields
      /\ x["symbol"] = q.symbol /\ x["order_id"] = o.orderId
      /\ x["orig_qty"] = o.origQty /\ x["price"] = o.price
      /\ x["status"] = o.status /\ x["type"] = to_string[q.type]
      /\ x["side"] = to_string[q.side] /\ x["time_in_force"] = to_string[q.time_in_force]
  BY ReadMembers, Zenon DEF AsAsked
<1>3. /\ q.side \in {"Buy", "Sell"} /\ q.time_in_force \in {"GTC", "IOC", "FOK"}
      /\ q.type \in {"Limit", "Market", "StopLoss", "StopLossLimit", "TakeProfit",
                    "TakeProfitLimit", "LimitMaker"}
  BY DEF NewOrderRequest
<1> HIDE DEF x
<1>4. /\ x.status \in DOMAIN OrderStatusFromString
      /\ x.side \in DOMAIN SideFromString /\ SideFromString[x.side] = q.side
      /\ x.type \in DOMAIN OrderTypeFromString /\ OrderTypeFromString[x.type] = q.type
      /\ x.time_in_force \in DOMAIN TimeInForceFromString
      /\ TimeInForceFromString[x.time_in_force] = q.time_in_force
  BY <1>2, <1>3, NamesReadBack
<1>5. parse_order(Object(o)) = r
  BY <1>1, <1>4 DEF parse_order, ReadOrder
<1>6. /\ DOMAIN r = ReadFields /\ r.order_id = o.orderId
      /\ r.symbol = q.symbol /\ r.side = q.side
      /\ r.type = q.type /\ r.time_in_force = q.time_in_force
      /\ r.orig_qty = o.origQty /\ r.price = o.price
  BY <1>2, <1>4 DEF ReadFields
<1> HIDE DEF r
<1>7. ~Threw(r)
  BY <1>6 DEF Threw, ReadFields
<1> QED BY <1>5, <1>6, <1>7, Zenon DEF AsAsked

\* What new_order() makes of the two answers.
LEMMA ResultOfOrder ==
  /\ Threw(ResultOf(Ops["new_order"], 400, ApiError))
  /\ \A o : ResultOf(Ops["new_order"], 200, Object(o)) = parse_order(Object(o))
<1> DEFINE op == Ops["new_order"]
<1>1. op.via = "signed_post" /\ op.result = "order"
  BY NewOrderOp DEF Operation
<1> HIDE DEF op
<1>2. IsApiError(400, ApiError) /\ ApiError.type = "object"
  BY DEF IsApiError, ApiError, Object
<1>3. parse_response(400, ApiError) = Throws("ApiException") /\ Threw(Throws("ApiException"))
  BY <1>2 DEF parse_response, Throws, Threw
<1>4. Threw(ResultOf(op, 400, ApiError))
  BY <1>1, <1>3 DEF ResultOf
<1>5. ASSUME NEW o PROVE ResultOf(op, 200, Object(o)) = parse_order(Object(o))
  <2>1. Object(o).type = "object" /\ ~Threw(Object(o))
    BY DEF Object, Threw
  <2> HIDE DEF Object
  <2>2. parse_response(200, Object(o)) = Object(o)
    BY <2>1 DEF parse_response, IsApiError
  <2>3. Parsed("order", Object(o)) = parse_order(Object(o))
    BY DEF Parsed
  <2> HIDE DEF Parsed, parse_order, parse_response
  <2> QED BY <1>1, <2>1, <2>2, <2>3 DEF ResultOf
<1> QED BY <1>4, <1>5 DEF op

\* What new_order() says is so, if the exchange answered it, for any request and
\* whatever the other calls do meanwhile: the Order it returns is one that it
\* placed, as it was asked for, and if it throws and sent its request once it
\* placed none.  It never places more orders than it sends requests.  The
\* exchange gives an order a status that order_status_from_string() knows; of
\* another the claim is false.
THEOREM NewOrderIsTrue ==
  ASSUME Statuses \subseteq DOMAIN OrderStatusFromString
  PROVE  Spec => []AnswersAreTrue
<1>1. Init => Truthful /\ Limited
  <2>1. Init => Truthful
    BY DEF Init, IdleFrame, Truthful
  <2>2. /\ IdleFrame.placed = {} /\ IdleFrame.sends = 0 /\ IdleFrame.pc = "idle"
    BY DEF IdleFrame
  <2>3. Init => \A c \in Calls : call[c] = IdleFrame
    BY DEF Init
  <2>4. Init => Limited
    BY <2>2, <2>3, FS_EmptySet DEF Limited
  <2> QED BY <2>1, <2>4
<1>2. Requests /\ Truthful /\ Limited /\ [Next]_vars => Truthful' /\ Limited'
  BY TruthfulStep, LimitedStep
<1>3. Truthful /\ Limited => AnswersAreTrue
  <2> SUFFICES ASSUME Truthful, NEW c \in Calls, call[c].pc = "done",
                      call[c].op = "new_order", call[c].reply.own
               PROVE  LET f == call[c]
                          o == f.result
                      IN  IF Threw(o) THEN f.sends = 1 => f.placed = {}
                          ELSE /\ o.order_id \in f.placed
                               /\ o.symbol = f.arg.symbol /\ o.side = f.arg.side
                               /\ o.type = f.arg.type
                               /\ o.time_in_force = f.arg.time_in_force
                               /\ Near(o.orig_qty, f.arg.quantity)
                               /\ Near(o.price, OrZero(f.arg.price))
    <3>1. Limited => \A d \in Calls : call[d].pc = "done" =>
                       Cardinality(call[d].placed) <= call[d].sends
      BY DEF Limited
    <3> QED BY <3>1, Zenon DEF AnswersAreTrue
  <2> DEFINE f == call[c]
             q == f.arg
  <2>1. /\ q \in NewOrderRequest /\ Told(f)
        /\ f.result = ResultOf(Ops["new_order"], f.reply.status, f.reply.body)
    BY DEF Truthful
  <2> DEFINE refused == /\ f.reply.status = 400 /\ f.reply.body = ApiError
                        /\ f.sends = 1 => f.placed = {}
             accepted == /\ f.reply.status = 200
                         /\ \E id, status :
                              /\ status \in Statuses /\ id \in f.placed
                              /\ f.reply.body =
                                   Object(PlacedOrder(Timed(build_new_order_params(q)),
                                                      id, status))
             Good == /\ ~Threw(f.result) /\ f.result.order_id \in f.placed
                     /\ f.result.symbol = q.symbol /\ f.result.side = q.side
                     /\ f.result.type = q.type
                     /\ f.result.time_in_force = q.time_in_force
                     /\ Near(f.result.orig_qty, q.quantity)
                     /\ Near(f.result.price, OrZero(q.price))
  <2>2. CASE refused
    BY <2>1, <2>2, ResultOfOrder
  <2>3. ASSUME accepted PROVE Good
    <3>1. PICK id, status :
            /\ status \in Statuses /\ id \in f.placed
            /\ f.reply.body =
                 Object(PlacedOrder(Timed(build_new_order_params(q)), id, status))
      BY <2>3, Zenon
    <3> DEFINE o == PlacedOrder(Timed(build_new_order_params(q)), id, status)
    <3>2. DOMAIN o = OrderFields /\ AsAsked(o, q)
      BY <2>1, PlacedAsAsked, Zenon
    <3>3. o.orderId = id /\ o.status = status
      BY Zenon DEF PlacedOrder
    <3>4. f.reply.body = Object(o) /\ f.reply.status = 200
      BY <2>3, <3>1, Zenon
    <3> HIDE DEF o, q, f
    <3>5. f.result = parse_order(Object(o))
      BY <2>1, <3>4, ResultOfOrder
    <3>6. o.status \in DOMAIN OrderStatusFromString /\ o.orderId \in f.placed
      BY <3>1, <3>3
    <3>7. LET r == parse_order(Object(o))
          IN  /\ ~Threw(r) /\ r.order_id = o.orderId
              /\ r.symbol = q.symbol /\ r.side = q.side
              /\ r.type = q.type /\ r.time_in_force = q.time_in_force
              /\ Near(r.orig_qty, q.quantity) /\ Near(r.price, OrZero(q.price))
      BY <2>1, <3>2, <3>6, ReadsAsAsked, Zenon
    <3> QED BY <3>5, <3>6, <3>7, Zenon
  <2>4. refused \/ accepted
    BY <2>1, Zenon DEF Told
  <2>5. CASE Good
    BY <2>5, Zenon
  <2> HIDE DEF refused, accepted, Good
  <2> QED BY <2>2, <2>3, <2>4, <2>5, Zenon
<1> QED BY <1>1, <1>2, <1>3, RequestsInOrder, PTL DEF Spec

=============================================================================
