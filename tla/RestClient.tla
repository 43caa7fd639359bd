----------------------------- MODULE RestClient -----------------------------
(***************************************************************************)
(* bintrade::rest::Client (src/rest/client.cpp) and the clients derived    *)
(* from it, the synchronous and the asynchronous calls, over an HTTP       *)
(* transport and an exchange that holds orders.                            *)
(*                                                                         *)
(* A synchronous call has a thread of its own.  The asynchronous ones are  *)
(* coroutines of one single-threaded event loop of the application, which  *)
(* they need to start and to resume.  HttpClient appears as what its       *)
(* execute() promises (module HttpClient): a request goes out once or      *)
(* twice, and ends in a response or in a NetworkException.                 *)
(***************************************************************************)
EXTENDS Models, Sequences, FiniteSets

CONSTANTS
  Calls,        \* the calls that may be in flight together
  Does,         \* what each of them may be: an operation, and TRUE if async
  NewOrders,    \* the orders the application may place
  Gateway,      \* the bodies of an error that is not the exchange's own
  Statuses,     \* the states an order may be in once it is placed
  Garbled,      \* the operations whose answers may have a malformed header
  Rehashes,     \* the sizes at which the library's unordered_map grows its table
  CopyKeeps,    \* a copy of an unordered_map has the order of the original
  Funds,        \* how many orders the account can pay for
  MaxFaults,    \* bound on the failures of the transport and of gateways
  MaxCalls      \* bound on the calls the application makes

ASSUME RequestAssumption == NewOrders \subseteq NewOrderRequest
ASSUME FundsAssumption == Funds \in Nat
ASSUME MapAssumption == Rehashes \subseteq Nat /\ CopyKeeps \in BOOLEAN

VARIABLES
  signer,       \* the client was given credentials
  used,         \* used_weight_1m, order_count_10s and order_count_1d
  loop,         \* the event loop: free, blocked, or the call it runs
  call,         \* the calls: frames of the client's method and its callees
  made,         \* how many calls have been made
  faults,       \* how often the transport or a gateway has failed
  orders,       \* the orders at the exchange, with the request behind each
  weight,       \* the weight the exchange has counted
  reported,     \* of what it said of a counter and has arrived, the latest
  overlapped    \* two calls were once in flight together

exchangeVars == <<orders, weight>>
vars == <<signer, used, loop, call, made, faults, exchangeVars, reported, overlapped>>

Counters == {"x-mbx-used-weight-1m", "x-mbx-order-count-10s",
             "x-mbx-order-count-1d"}

-----------------------------------------------------------------------------
(***************************************************************************)
(* The operations: which helper of Client they go through, where, with     *)
(* what, and the parser of their result.                                   *)
(***************************************************************************)
Operation(via, path, takes, result) ==
  [via |-> via, path |-> path, takes |-> takes, result |-> result]

BasicOps ==
  [ping |-> Operation("get", "ping", "nothing", "status"),
   server_time |-> Operation("get", "time", "nothing", "members")]

MarketDataOps ==
  [get_order_book |-> Operation("public_get", "depth", "page", "book"),
   get_recent_trades |-> Operation("public_get", "trades", "page", "list"),
   get_klines |-> Operation("public_get", "klines", "klines", "list"),
   get_ticker_24h |-> Operation("public_get", "ticker/24hr", "symbol", "members"),
   get_price_ticker |-> Operation("public_get", "ticker/price", "symbol", "members"),
   get_all_price_tickers |-> Operation("public_get", "ticker/price", "nothing", "list")]

AccountOps ==
  [get_account_info |-> Operation("signed_get", "account", "nothing", "account"),
   get_account_trades |-> Operation("signed_get", "myTrades", "page", "list")]

TradingOps ==
  [new_order |-> Operation("signed_post", "order", "request", "order"),
   test_new_order |-> Operation("signed_post", "order/test", "request", "nothing"),
   query_order |-> Operation("signed_get", "order", "name", "order"),
   get_open_orders |-> Operation("signed_get", "openOrders", "symbol", "orders"),
   get_all_open_orders |-> Operation("signed_get", "openOrders", "nothing", "orders"),
   get_all_orders |-> Operation("signed_get", "allOrders", "page", "orders")]

\* Mutated: cancel_order() has the path of cancel_all_orders().
CancelOpsOnePath ==
  [cancel_order |-> Operation("signed_delete", "openOrders", "cancel", "order"),
   cancel_all_orders |-> Operation("signed_delete", "openOrders", "symbol", "orders")]

CancelOps ==
  [cancel_order |-> Operation("signed_delete", "order", "cancel", "order"),
   cancel_all_orders |-> Operation("signed_delete", "openOrders", "symbol", "orders")]

\* The entries of f, and those of g whose names f does not have.
Joined(f, g) ==
  [x \in DOMAIN f \cup DOMAIN g |-> IF x \in DOMAIN f THEN f[x] ELSE g[x]]

Ops ==
  Joined(BasicOps, Joined(MarketDataOps, Joined(AccountOps,
         Joined(TradingOps, CancelOps))))

Empty == [x \in {} |-> 0]

Symbols == {q.symbol : q \in NewOrders}

\* The names an application may give an order in a query or a cancellation: the
\* exchange's number, its own name, both, or for a cancellation neither.
OrderNames ==
  [symbol : Symbols, order_id : {1, None}, client_order_id : {"a", ""}]

\* A limit is one that cuts nothing off.
ArgsOf(takes) ==
  CASE takes = "request" -> NewOrders
    [] takes = "cancel" -> OrderNames
    [] takes = "name" -> {n \in OrderNames : (n.order_id = None) # (n.client_order_id = "")}
    [] takes = "symbol" -> [symbol : Symbols]
    [] takes = "page" -> [symbol : Symbols, limit : {500}]
    [] takes = "klines" -> [symbol : Symbols, interval : {"1h"}, limit : {500}]
    [] takes = "nothing" -> {Empty}

\* query_order() sends the one name it has, as build_cancel_params() would.
ParamsOf(takes, arg) ==
  CASE takes = "request" -> build_new_order_params(arg)
    [] takes \in {"cancel", "name"} -> build_cancel_params(arg)
    [] OTHER -> arg

\* The answer of the exchange itself (own) or of something in front of it, and
\* when it was given (at).
NoReply ==
  [status |-> 0, body |-> Null, headers |-> <<>>, own |-> FALSE, at |-> 0]

IdleFrame ==
  [pc |-> "idle", op |-> "ping", async |-> FALSE, arg |-> Empty,
   wire |-> Empty, sends |-> 0, reply |-> NoReply, result |-> Empty, placed |-> {}]

Init ==
  /\ signer \in BOOLEAN
  /\ used = [h \in Counters |-> 0]
  /\ loop = "free" /\ made = 0 /\ faults = 0 /\ overlapped = FALSE
  /\ call = [c \in Calls |-> IdleFrame]
  /\ orders = <<>> /\ weight = 0
  /\ reported = [h \in Counters |-> [at |-> 0, value |-> 0]]

\* The model stops where the code's behaviour is undefined.
Alive == \A c \in Calls : call[c].result # Throws("undefined")

InFlight == {c \in Calls : call[c].pc \in {"sent", "processed", "counting"}}

-----------------------------------------------------------------------------
(***************************************************************************)
(* A call begins: the parameters are built and, by sign_params(), signed;  *)
(* the request is handed to the transport.                                 *)
(***************************************************************************)
Timed(params) == Joined([timestamp |-> 0], params)

\* The orders in which a map may be iterated that was iterated in the order k:
\* that of one entry, or of a map left as it is, does not change.
Iterated(params, k, changes) ==
  IF changes /\ Cardinality(DOMAIN params) > 1 THEN {1, 2} ELSE {k}

\* Mutated: the signature goes into a new map, to which the others are added.
sign_parameters_refilled(params) ==
  LET timed == Timed(params)
  IN  {[params |-> timed, order |-> k, signature |-> [params |-> timed, order |-> 1]] :
         k \in Iterated(timed, 1, TRUE)}

\* What is signed is the query in the order of the map, 1; the signature is
\* inserted into the map afterwards, which may make its table grow.
sign_parameters(params) ==
  LET timed == Timed(params)
      grows == Cardinality(DOMAIN timed) + 1 \in Rehashes
  IN  {[params |-> timed, order |-> k, signature |-> [params |-> timed, order |-> 1]] :
         k \in Iterated(timed, 1, grows)}

\* What is sent: signed_post() builds the body from the map, signed_get() and
\* signed_delete() pass a copy of it, of which the query string is built.
Sent(op, params) ==
  LET copied == Ops[op].via # "signed_post" /\ ~CopyKeeps
  IN  UNION {{[wire EXCEPT !.order = k] : k \in Iterated(wire.params, wire.order, copied)} :
               wire \in sign_parameters(params)}

Signed(op) == Ops[op].via \in {"signed_get", "signed_post", "signed_delete"}

Begin(c, op, async) ==
  /\ Alive
  /\ call[c].pc = "idle"
  /\ made < MaxCalls /\ made' = made + 1
  /\ <<op, async>> \in Does[c]
  /\ async => loop = "free"
  /\ overlapped' = (overlapped \/ InFlight # {})
  /\ \E arg \in ArgsOf(Ops[op].takes) :
       LET params == ParamsOf(Ops[op].takes, arg)
           frame == [IdleFrame EXCEPT !.op = op, !.arg = arg, !.async = async]
       IN  \/ /\ Signed(op) /\ ~signer
              /\ call' = [call EXCEPT ![c] = [frame EXCEPT !.pc = "done",
                            !.result = Throws("AuthenticationException")]]
           \/ /\ Signed(op) /\ signer
              /\ \E wire \in Sent(op, params) :
                   call' = [call EXCEPT ![c] = [frame EXCEPT !.pc = "sent",
                              !.wire = wire, !.sends = 1]]
           \/ /\ ~Signed(op)
              /\ call' = [call EXCEPT ![c] = [frame EXCEPT !.pc = "sent",
                            !.wire = [params |-> params], !.sends = 1]]
  /\ UNCHANGED <<signer, used, loop, faults, exchangeVars, reported>>

BasicCall(c) == \E op \in DOMAIN BasicOps : Begin(c, op, FALSE)
AsyncBasicCall(c) == \E op \in DOMAIN BasicOps : Begin(c, op, TRUE)
MarketDataCall(c) == \E op \in DOMAIN MarketDataOps : Begin(c, op, FALSE)
AsyncMarketDataCall(c) == \E op \in DOMAIN MarketDataOps : Begin(c, op, TRUE)
AccountCall(c) == \E op \in DOMAIN AccountOps : Begin(c, op, FALSE)
AsyncAccountCall(c) == \E op \in DOMAIN AccountOps : Begin(c, op, TRUE)
TradingCall(c) ==
  \E op \in DOMAIN TradingOps \cup DOMAIN CancelOps : Begin(c, op, FALSE)
AsyncTradingCall(c) ==
  \E op \in DOMAIN TradingOps \cup DOMAIN CancelOps : Begin(c, op, TRUE)

-----------------------------------------------------------------------------
(***************************************************************************)
(* The exchange, as the code relies on it, under the names of              *)
(* tests/fixtures/binance_responses.hpp and of ws_parse.hpp: it checks the *)
(* signature against the query it received, and a time in force that is    *)
(* not given is GTC.  An order fills at once or stays open, and then locks *)
(* a unit of the account's funds.                                          *)
(***************************************************************************)
Given(params, name, default) ==
  IF name \in DOMAIN params THEN params[name] ELSE default

PlacedOrder(params, id, status) ==
  [symbol |-> params.symbol, orderId |-> id,
   clientOrderId |-> Given(params, "newClientOrderId", "x"),
   price |-> Given(params, "price", 0), stopPrice |-> Given(params, "stopPrice", 0),
   origQty |-> params.quantity,
   executedQty |-> IF status = "FILLED" THEN params.quantity ELSE 0,
   cummulativeQuoteQty |-> IF status = "FILLED" THEN 7 ELSE 0,
   status |-> status, type |-> params.type, side |-> params.side,
   timeInForce |-> Given(params, "timeInForce", "GTC"), time |-> id, updateTime |-> id]

\* The executionReport of an order.
Report(o) ==
  [s |-> o.symbol, i |-> o.orderId, c |-> o.clientOrderId, S |-> o.side,
   o |-> o.type, f |-> o.timeInForce, q |-> o.origQty, p |-> o.price,
   z |-> o.executedQty, Z |-> o.cummulativeQuoteQty, X |-> o.status,
   O |-> o.time, T |-> o.updateTime]

Open == {i \in DOMAIN orders : orders[i].json.status = "NEW"}
Filled == {i \in DOMAIN orders : orders[i].json.status = "FILLED"}

Balances ==
  {[asset |-> "USDT", free |-> Funds - Cardinality(Open \cup Filled),
    locked |-> Cardinality(Open)],
   [asset |-> "BTC", free |-> Cardinality(Filled), locked |-> 0]}

Position == {[a |-> b.asset, f |-> b.free, l |-> b.locked] : b \in Balances}

\* The orders that the parameters of a query or of a cancellation name.
Named(params) ==
  {i \in DOMAIN orders :
     /\ {"orderId", "origClientOrderId"} \cap DOMAIN params # {}
     /\ orders[i].json.symbol = Given(params, "symbol", orders[i].json.symbol)
     /\ Given(params, "orderId", i) = i
     /\ Given(params, "origClientOrderId", orders[i].json.clientOrderId)
          = orders[i].json.clientOrderId}

OfSymbol(params) ==
  {i \in DOMAIN orders :
     orders[i].json.symbol = Given(params, "symbol", orders[i].json.symbol)}

Listed(os, S) ==
  LET places == 1..Cardinality(S)
      inOrder == CHOOSE s \in [places -> S] :
                   \A i, j \in places : i < j => s[i] < s[j]
  IN  Array([i \in places |-> Object(os[inOrder[i]].json)])

Cancelled(S) ==
  [i \in DOMAIN orders |->
     IF i \in S THEN [orders[i] EXCEPT !.json.status = "CANCELED"] ELSE orders[i]]

Accepts(wire) ==
  "signature" \in DOMAIN wire =>
    wire.signature = [params |-> wire.params, order |-> wire.order]

Placing(f, status) ==
  LET o == PlacedOrder(f.wire.params, Len(orders) + 1, status)
  IN  [orders |-> Append(orders, [json |-> o, asked |-> f.arg]), body |-> Object(o)]

\* What the exchange may do with a request it accepts: the orders it is left
\* with and the body of its answer; nothing if it refuses.
Effect(f) ==
  LET op == Ops[f.op]
      params == f.wire.params
      first(os, S) == Object(os[CHOOSE i \in S : TRUE].json)
      to(os, body) == {[orders |-> os, body |-> body]}
  IN  CASE op.path \in {"order", "order/test"} /\ op.via = "signed_post" ->
             IF params.quantity = 0 \/ Cardinality(Open \cup Filled) = Funds THEN {}
             ELSE IF op.path = "order/test" THEN to(orders, Object(Empty))
             ELSE {Placing(f, status) : status \in Statuses}
        [] op.path = "order" /\ op.via = "signed_get" ->
             IF Named(params) = {} THEN {} ELSE to(orders, first(orders, Named(params)))
        [] op.path = "order" /\ op.via = "signed_delete" ->
             LET S == Named(params) \cap Open
             IN  IF S = {} THEN {} ELSE to(Cancelled(S), first(Cancelled(S), S))
        [] op.path = "openOrders" /\ op.via = "signed_delete" ->
             LET S == OfSymbol(params) \cap Open
             IN  IF S = {} THEN {} ELSE to(Cancelled(S), Listed(Cancelled(S), S))
        [] op.path = "openOrders" /\ op.via = "signed_get" ->
             to(orders, Listed(orders, OfSymbol(params) \cap Open))
        [] op.path = "allOrders" -> to(orders, Listed(orders, OfSymbol(params)))
        [] op.path = "account" -> to(orders, Object([balances |-> Balances]))
        [] op.result = "book" -> to(orders, Object([bids |-> <<>>, asks |-> <<>>]))
        [] op.result = "list" -> to(orders, Array(<<Object(Empty)>>))
        [] OTHER -> to(orders, Object(Empty))

ApiError == Object([code |-> 1, msg |-> "m"])

\* A header whose value is not a number.
Junk == -2

\* An order counts in a window of ten seconds and in that of the day, in which
\* one order was placed before.
HeadersOf(f, w, placed) ==
  <<<<"x-mbx-used-weight-1m", w>>>>
  \o (IF placed = {} THEN <<>>
      ELSE <<<<"x-mbx-order-count-10s", Len(orders) + 1>>,
             <<"x-mbx-order-count-1d", Len(orders) + 2>>>>)

Processes(c) ==
  LET f == call[c]
      effect == IF Accepts(f.wire) THEN Effect(f) ELSE {}
      placed == IF f.op = "new_order" /\ effect # {} THEN {Len(orders) + 1} ELSE {}
  IN  /\ Alive /\ f.pc = "sent"
      /\ weight' = weight + 1
      /\ \E w \in {weight + 1} \cup (IF f.op \in Garbled THEN {Junk} ELSE {}) :
         \E e \in IF effect = {} THEN {[orders |-> orders, body |-> ApiError]} ELSE effect :
           /\ orders' = e.orders
           /\ call' = [call EXCEPT ![c].pc = "processed", ![c].placed = @ \cup placed,
                ![c].reply = [status |-> IF effect = {} THEN 400 ELSE 200,
                              body |-> e.body, headers |-> HeadersOf(f, w, placed),
                              own |-> TRUE, at |-> weight + 1]]
      /\ UNCHANGED <<signer, used, loop, made, faults, reported, overlapped>>

\* The request gets no further than a proxy or a gateway.
Intercepted(c) ==
  /\ Alive /\ call[c].pc = "sent"
  /\ \E body \in Gateway :
       call' = [call EXCEPT ![c].pc = "processed",
                  ![c].reply = [NoReply EXCEPT !.status = 503, !.body = body]]
  /\ faults < MaxFaults /\ faults' = faults + 1
  /\ UNCHANGED <<signer, used, loop, made, exchangeVars, reported, overlapped>>

-----------------------------------------------------------------------------
(***************************************************************************)
(* The call goes on.  A coroutine needs the loop to resume, and keeps it   *)
(* until it ends.                                                          *)
(***************************************************************************)
Resumes(c) == call[c].async => loop = "free"

\* The transport fails: execute() sends the request once more, or throws.
SendsAgain(c) ==
  /\ Alive /\ call[c].pc \in {"sent", "processed"}
  /\ call[c].sends = 1
  /\ call' = [call EXCEPT ![c].pc = "sent", ![c].sends = 2, ![c].reply = NoReply]
  /\ faults < MaxFaults /\ faults' = faults + 1
  /\ UNCHANGED <<signer, used, loop, made, exchangeVars, reported, overlapped>>

TransportFails(c) ==
  /\ Alive /\ call[c].pc \in {"sent", "processed"}
  /\ Resumes(c)
  /\ call' = [call EXCEPT ![c].pc = "done", ![c].reply = NoReply,
                ![c].result = Throws("NetworkException")]
  /\ faults < MaxFaults /\ faults' = faults + 1
  /\ UNCHANGED <<signer, used, loop, made, exchangeVars, reported, overlapped>>

Arrives(c) ==
  LET reply == call[c].reply
      said == {reply.headers[i] : i \in DOMAIN reply.headers}
  IN  /\ Alive /\ call[c].pc = "processed"
      /\ Resumes(c)
      /\ loop' = IF call[c].async THEN c ELSE loop
      /\ call' = [call EXCEPT ![c].pc = "counting"]
      /\ reported' = [h \in Counters |->
           IF reported[h].at < reply.at /\ \E v \in said : v[1] = h
           THEN [at |-> reply.at, value |-> (CHOOSE v \in said : v[1] = h)[2]]
           ELSE reported[h]]
      /\ UNCHANGED <<signer, used, made, faults, exchangeVars, overlapped>>

\* try_parse().
Stored(value) == IF value \in Nat THEN value ELSE -1

\* Mutated: only the first of the headers is looked at.
CountsFirst(c) ==
  LET headers == call[c].reply.headers
  IN  /\ Alive /\ call[c].pc = "counting" /\ headers # <<>>
      /\ used' = [used EXCEPT ![Head(headers)[1]] = Stored(Head(headers)[2])]
      /\ call' = [call EXCEPT ![c].reply.headers = <<>>]
      /\ UNCHANGED <<signer, loop, made, faults, exchangeVars, reported, overlapped>>

\* update_rate_limits(), one atomic store at a time.
Counts(c) ==
  LET headers == call[c].reply.headers
  IN  /\ Alive /\ call[c].pc = "counting" /\ headers # <<>>
      /\ used' = [used EXCEPT ![Head(headers)[1]] = Stored(Head(headers)[2])]
      /\ call' = [call EXCEPT ![c].reply.headers = Tail(headers)]
      /\ UNCHANGED <<signer, loop, made, faults, exchangeVars, reported, overlapped>>

\* What the method of the derived client makes of the body.
Parsed(result, json) ==
  LET each(parse(_)) == [i \in DOMAIN Items(json) |-> parse(Items(json)[i])]
  IN  CASE result = "order" -> parse_order(json)
        [] result = "orders" -> parse_list(json, each(parse_order))
        [] result = "account" -> parse_account_info(json)
        [] result = "book" -> parse_order_book(json)
        [] result = "list" -> parse_list(json, each(parse_members))
        [] result = "members" -> parse_members(json)

\* ping() looks at the status alone, server_time() parses with it.  The helpers
\* parse with the status only to throw, and then the method with status 200.
ResultOf(op, status, body) ==
  LET checked == parse_response(status, body)
      json == parse_response(200, body)
  IN  CASE op.result = "status" -> [ok |-> status = 200]
        [] op.via = "get" /\ op.result = "members" ->
             IF Threw(checked) THEN checked ELSE parse_members(checked)
        [] op.via # "get" /\ status >= 400 /\ Threw(checked) -> checked
        [] op.result = "nothing" -> [ok |-> TRUE]
        [] OTHER -> IF Threw(json) THEN json ELSE Parsed(op.result, json)

\* Mutated: the loop is not given back.
ReleasedKept(c) == loop

Released(c) == IF call[c].async THEN "free" ELSE loop

Finishes(c) ==
  LET f == call[c]
  IN  /\ Alive /\ f.pc = "counting" /\ f.reply.headers = <<>>
      /\ call' = [call EXCEPT ![c].pc = "done",
                    ![c].result = ResultOf(Ops[f.op], f.reply.status, f.reply.body)]
      /\ loop' = Released(c)
      /\ UNCHANGED <<signer, used, made, faults, exchangeVars, reported, overlapped>>

\* The caller has the result, or has caught the exception.
Returns(c) ==
  /\ Alive /\ call[c].pc = "done"
  /\ call' = [call EXCEPT ![c] = IdleFrame]
  /\ UNCHANGED <<signer, used, loop, made, faults, exchangeVars, reported, overlapped>>

Pending == {c \in InFlight : call[c].async}

\* A coroutine calls future::get() on calls that it spawned on its own loop, as
\* fetch_market_data() of examples/async_market_data_example.cpp does.  get()
\* returns when they have ended.  They end on the loop, so there is no step that
\* takes the loop from "blocked".
Blocks ==
  /\ Alive
  /\ loop = "free" /\ Pending # {}
  /\ loop' = "blocked"
  /\ UNCHANGED <<signer, used, call, made, faults, exchangeVars, reported, overlapped>>

GoesOn(c) ==
  Processes(c) \/ Intercepted(c) \/ SendsAgain(c) \/ TransportFails(c)
  \/ Arrives(c) \/ Counts(c) \/ Finishes(c) \/ Returns(c)

Next ==
  \/ \E c \in Calls :
       \/ BasicCall(c) \/ AsyncBasicCall(c) \/ MarketDataCall(c)
       \/ AsyncMarketDataCall(c) \/ AccountCall(c) \/ AsyncAccountCall(c)
       \/ TradingCall(c) \/ AsyncTradingCall(c)
       \/ GoesOn(c)
  \/ Blocks

Spec == Init /\ [][Next]_vars

(***************************************************************************)
(* Every network operation of HttpClient ends (module HttpClient), with an *)
(* answer unless it fails; threads run, and a loop runs what is ready.     *)
(* Nothing obliges the transport to fail or the application to go on.      *)
(***************************************************************************)
Fairness ==
  \A c \in Calls : WF_vars(Processes(c) \/ Arrives(c) \/ Counts(c) \/ Finishes(c))

FairSpec == Spec /\ Fairness

-----------------------------------------------------------------------------
(***************************************************************************)
(* Properties.                                                             *)
(***************************************************************************)
\* The type of the variables that have one.
TypeOK ==
  /\ {signer, overlapped} \subseteq BOOLEAN
  /\ \A h \in Counters : used[h] \in Nat \cup {-1}
  /\ loop \in {"free", "blocked"} \cup Calls
  /\ \A c \in Calls :
       /\ call[c].pc \in {"idle", "sent", "processed", "counting", "done"}
       /\ call[c].op \in DOMAIN Ops
       /\ call[c].sends \in 0..2
  /\ made \in 0..MaxCalls /\ faults \in 0..MaxFaults

\* A program that makes one call at a time finds in each counter, when a call
\* has returned, what the last response that named it said, -1 if that was not
\* a number.
SequentialIsExact ==
  ~overlapped /\ InFlight = {} =>
    \A h \in Counters : used[h] = Stored(reported[h].value)

\* The same of calls that overlap: the counters "reflect the last
\* server-reported window snapshot".
CountersAreLatest ==
  InFlight = {} => \A h \in Counters : used[h] = Stored(reported[h].value)

\* The exchange receives the query that was signed, as query string or as body:
\* neither the insertion of the signature nor a copy of the parameters changes
\* the order of the others, of which a request has up to nine.
SignedIsAccepted ==
  \A c \in Calls : call[c].pc = "sent" => Accepts(call[c].wire)

\* Whoever answers, an error status makes the helpers throw.
ErrorsAreRaised ==
  \A c \in Calls :
    call[c].pc = "done" /\ call[c].reply.status >= 400 /\ call[c].op # "ping" =>
      Threw(call[c].result)

\* Numbers that agree to the six decimals of std::to_string().
Near(m, n) == m - n \in -50..50

\* An optional member of a request, as it is or as zero.
OrZero(n) == IF n = None THEN 0 ELSE n

\* Every order at the exchange is the one the application asked for, its price
\* and quantities rounded to six decimals.
OrdersAreAsRequested ==
  \A i \in DOMAIN orders :
    LET o == orders[i].json
        q == orders[i].asked
    IN  /\ o.symbol = q.symbol
        /\ o.side = to_string[q.side] /\ o.type = to_string[q.type]
        /\ o.timeInForce = to_string[q.time_in_force]
        /\ Near(o.origQty, q.quantity)
        /\ Near(o.price, OrZero(q.price)) /\ Near(o.stopPrice, OrZero(q.stop_price))
        /\ q.client_order_id # "" => o.clientOrderId = q.client_order_id

\* What new_order() says is so, if the exchange answered it: the Order it returns
\* is one that it placed, read back as it was asked for, and if it throws and
\* sent its request once it placed none.  It never places more orders than it
\* sends requests.
AnswersAreTrue ==
  \A c \in Calls :
    LET f == call[c]
        o == f.result
    IN  f.pc = "done" /\ f.op = "new_order" =>
          /\ Cardinality(f.placed) <= f.sends
          /\ f.reply.own =>
               IF Threw(o) THEN f.sends = 1 => f.placed = {}
               ELSE /\ o.order_id \in f.placed
                    /\ o.symbol = f.arg.symbol /\ o.side = f.arg.side
                    /\ o.type = f.arg.type /\ o.time_in_force = f.arg.time_in_force
                    /\ Near(o.orig_qty, f.arg.quantity)
                    /\ Near(o.price, OrZero(f.arg.price))

\* A call of new_order() that succeeds has placed one order.
OrdersAreSingle ==
  \A c \in Calls : call[c].pc = "done" /\ ~Threw(call[c].result) =>
                     Cardinality(call[c].placed) <= 1

\* An order is cancelled only by a request that names it, or by one for all
\* the orders of its symbol.
OnlyNamedIsCancelled ==
  [][\A i \in Open :
       orders'[i].json.status = "CANCELED" =>
         \E c \in Calls :
           LET f == call[c]
           IN  /\ f.pc = "sent" /\ f # call'[c]
               /\ f.arg.symbol = orders[i].json.symbol
               /\ \/ f.op = "cancel_all_orders"
                  \/ /\ f.op = "cancel_order"
                     /\ \/ f.arg.order_id = i
                        \/ f.arg.client_order_id = orders[i].json.clientOrderId]_vars

\* The REST answers and the user data stream give the same picture: an order
\* reads the same from either, and get_account_info() shows the assets that
\* outboundAccountPosition shows and that hold anything, no more and no less.
ViewsAgree ==
  /\ \A i \in DOMAIN orders :
       parse_order(Object(orders[i].json))
         = parse_order_update(Object(Report(orders[i].json)))
  /\ parse_account_info(Object([balances |-> Balances])).balances
       = {b \in parse_account_update(Object([B |-> Position])).balances :
            b.free + b.locked > 0}

\* Every call ends, in a result or an exception, as long as no coroutine blocks
\* the event loop: whenever the application stops calling, as it does after
\* MaxCalls calls, none is in flight in the end.
CallsEnd == <>[](InFlight = {} \/ loop = "blocked" \/ ~Alive)

\* The futures of asynchronous calls "resolve as soon as HttpClient posts
\* results", also when a coroutine of the same loop waits for them.
FuturesResolve ==
  \A c \in Calls : c \in Pending ~> (c \notin Pending \/ ~Alive)

=============================================================================
