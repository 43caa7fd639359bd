---------------------------- MODULE MCRestClient ----------------------------
(***************************************************************************)
(* RestClient for TLC.  Two calls are in flight at a time: the first is    *)
(* any operation, or the asynchronous form of one of every client, and the *)
(* second places an order, so that orders and counters change while the    *)
(* first is under way.                                                     *)
(***************************************************************************)
EXTENDS RestClient, TLC

CONSTANTS c1, c2

TwoCalls == {c1, c2}

AnyAndAnOrder ==
  c1 :> ((DOMAIN Ops) \X {FALSE}
         \cup {"server_time", "get_order_book", "get_account_info", "new_order",
               "cancel_order"} \X {TRUE})
  @@ c2 :> {<<"new_order", TRUE>>}

MarketData == [c \in TwoCalls |-> {"get_price_ticker", "get_order_book"} \X {TRUE}]

\* A plain limit order, whose price is not a multiple of 10^-6, and a stop-limit
\* order with everything set.
Two ==
  {[symbol |-> "BTC", side |-> "Buy", type |-> "Limit", time_in_force |-> "GTC",
    quantity |-> 300, price |-> 1234567, client_order_id |-> "",
    stop_price |-> None],
   [symbol |-> "ETH", side |-> "Sell", type |-> "StopLossLimit",
    time_in_force |-> "IOC", quantity |-> 250, price |-> 700,
    client_order_id |-> "a", stop_price |-> 800]}

\* An empty body, a page of text, and JSON in which there is no code and no msg.
Proxies == {[type |-> "empty"], [type |-> "text"], Object([error |-> "e"])}

=============================================================================
