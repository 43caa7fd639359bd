# A TLA+ verification of bintrade

bintrade is a C++20 client library for the Binance exchange: REST calls over a
pool of TLS connections, and market and user data over WebSockets. This
directory holds TLA+ models of it, TLC configurations that check them on small
instances, and TLAPS proofs of what matters most. Paths and line numbers are
those of the repository.

## The system and its parts

| Part | Source | State and threads | Here |
|---|---|---|---|
| `SpscQueue` | `include/bintrade/core/spsc_queue.hpp` | two atomic counters and an array shared by two threads | `SpscQueue`, proved |
| `ws::detail::WebSocketClient` | `src/ws/detail/websocket_client.cpp` | callers' threads and an I/O thread; reads, ping timer, reconnects | `WebSocketClient`, safety proved |
| `ws::Client` | `src/ws/client.cpp` | forwards to `WebSocketClient`, holds the callbacks | `WsSession` and the stream modules |
| `MarketStream` | `src/ws/market_stream.cpp` | inline or queued dispatch, a consumer thread | `MarketStream`, `QueuedDispatch`, safety proved |
| `UserStream` | `src/ws/user_stream.cpp` | listen key, keep-alive thread, consumer thread | `UserStream`, `QueuedDispatch`, safety proved |
| typed streams | `include/bintrade/ws/typed_*.hpp` | compile-time variants of the streams | a variable of the stream modules |
| `rest::detail::HttpClient` | `src/rest/detail/http_client.cpp` | coroutines on one I/O thread that share a vector of connections | `HttpClient`, safety proved |
| `rest::Client` | `src/rest/client.cpp` | signing, sending, rate-limit counters, errors | `RestClient`, safety proved |
| trading, market data and account clients | `src/rest/*_client.cpp` | parameters in, one call, parsing out | `RestClient`, `Models` |
| `Signer` | `src/auth/signer.cpp` | the string that is signed | `RestClient` |
| types, JSON parsing | `src/core/types.cpp`, `json_parse.hpp`, `ws_parse.hpp` | tables and field conversions, no state | `Models` |
| clock | `src/core/platform/clock.hpp` | ticks to nanoseconds in 64 bits | `Clock`, proved |
| `sync_await`, the asynchronous example | `http_client_sync.hpp`, `examples/` | blocks a thread on an executor | `Blocks` in `RestClient` |
| logger, thread affinity, configuration | `src/core/`, `include/bintrade/models/` | library calls and plain data | not modelled |

How they interact: a stream is a `ws::Client`, which owns a `WebSocketClient`.
In queued mode the I/O thread of that client is the producer, and the stream's
consumer thread the consumer, of one `SpscQueue`. A `UserStream` also makes REST
calls from its keep-alive thread. The REST clients call `rest::Client`, which
signs with `Signer` and sends through `HttpClient`.

The modules are put together the same way. A layer is modelled over what the
layer below is shown to promise, and not over the layer itself:

- `SpscQueue` implements `BoundedFifo` (checked and proved), so `QueuedDispatch`
  pushes and pops in single steps;
- `WebSocketClient` implements `WsSession` (checked and proved), so `MarketStream`
  and `UserStream` are built on `WsSession`;
- every call of `HttpClient` ends, after one or two attempts, in a response or an
  exception (`CallsEnd` and the type of an attempt), which is what `RestClient`
  assumes of its transport.

`PROJECT.json` maps every definition to its lines, and lists the hazards of this
code with the properties that cover each, or the reason why none does.

## Modules

| Module | Models |
|---|---|
| `BoundedFifo` | what a bounded queue between two threads promises |
| `SpscQueue` | the ring buffer, and its refinement mapping to `BoundedFifo` |
| `WsSession` | what `ws::Client` promises a stream |
| `WebSocketClient` | the WebSocket client, and its refinement mapping to `WsSession` |
| `QueuedDispatch` | `QueueState` and the consumer thread, which both streams have |
| `MarketStream`, `UserStream` | the streams, from construction to destruction |
| `HttpClient` | the connection pool and the requests on it |
| `Models` | enumeration tables, request parameters and response parsers, as operators |
| `RestClient` | the REST clients over an exchange that holds orders |
| `Clock` | `ticks_to_ns()` with its theorems |
| `*Proofs` | the theorems about the module of that name; `RestOrderProofs` has those of `RestClient` about orders, accounts and `new_order()` |
| `MC*` | finite constants for TLC |

Operators marked "Mutated" are plausible bugs. Each stands before the definition
it would replace. None is used by a specification; they serve to show that a
property notices the bug.

### SpscQueue

`head`, `tail` and `buffer` are the members. `ppc`, `value`, `ptail`, `accepted`
are the producer's position, argument, loaded `tail_` and return value; `cpc`,
`chead`, `result` are the consumer's. Each atomic access and each array access
is an action: `PushCall`, `PushLoad`, `PushWrite`, `PushPublish`, and `PopCall`,
`PopLoad`, `PopMove`, `PopPublish`. `PushThrow` is the copying overload when the
element's assignment throws.

- The counters are integers modulo `Modulus` (2^64 in the build), and
  subtraction wraps as `size_t` does.
- A load of the other thread's counter returns any value from the one last seen
  to the current one (`Visible`). This is the freedom acquire loads have.
- A moved-from element, and one whose assignment threw, hold an arbitrary value.
- The destructor is a sequence of `try_pop` by a thread that is alone. It has no
  action of its own.

### WebSocketClient and WsSession

One thread calls `connect()` and `disconnect()`, another `send()`, and the I/O
thread runs `do_connect()` and then `ioc.run()`. `io` is the place where the I/O
thread is. Handlers are cut at blocking network calls, at callbacks into the
application and around the assignment of `ping_timer`. `reads` counts the
asynchronous reads by state, `timers` holds the pending reconnects, `posted` the
functions posted to the `io_context`, and `stopped` its stopped flag, which no
code ever clears. `open` and `link` describe the current stream: handshake done,
connection unbroken.

What surrounds the code is a constant. `AppMay` says whether the application
connects again after a session (`reuse`), connects while connected
(`connectAgain`) and disconnects in a callback. `PingMayFail` says whether a ping
may notice a broken connection before the read does. Runs and theorems say which
of these they allow, because the code breaks under some of them (see below).

`WsSession` keeps what a stream can tell: at most one I/O thread, which calls
back one message at a time from within `connect()` until `disconnect()` has
joined it; a loop that ended is not restarted; and the ways the process may end.
`SessionCall`, `SessionThread` and the two flags are the mapping.

Left out: the setters (documented to be called before `connect()`), moves, URL
parsing, the jitter of delays (a pending timer may expire at any moment), a
second thread in `disconnect()` while another is in `connect()`, and what Beast
does when a synchronous ping or close meets an outstanding asynchronous read.

### QueuedDispatch, MarketStream and UserStream

`QueuedDispatch` holds `queue_state_`, `running` and the consumer thread with its
loop, its drain and its join, the same code in both streams. `app` is where the
application's thread is, in particular inside `stop()` and the destructor. These
are cut at every join and every change that another thread can see. `handler` is
what `on_message` holds, `thread` the I/O thread, `fate` whether the process is
fine or how it came to grief: terminated, undefined or, in `UserStream`, refused
(an exception of `keep_alive()` leaves its thread).

`careless` collects the application's departures from the documented life cycle:
a second subscription, a move of a subscribed stream, destruction while
connected; a second `start()`, destruction while started, `stop()` in a callback.
The constant `AppMay` allows them and all are allowed in the runs. Properties of
plain use say `careless = {}`; the others hold whatever the application does.
`PlainUseIsSafe` also says what each departure can lead to.

`arrived`, `kept` and `received` serve the properties: the number of messages that
came, what should become of each that `on_message` kept (its number, and whether
the application has a callback for it), and what `dispatch_fn` or `do_dispatch`
did with it. `InOrder` relates the three: what was kept is what was dispatched
followed by what waits, the numbers rise, and a message that arrived is missing
only if a queue had been filled. `arrived` numbers the messages and bounds them;
no step depends on the other two.

In `MarketStream` a message is its place in the order of arrival and its event
type. The stream's name in lower case, the event type a subscription lets
through and the methods a typed handler has decide what is delivered. In
`UserStream` the constant `Callbacks` has the sets of event types the application
may have callbacks for, and a listen key is a number. A REST call about it is one step that
succeeds, is refused, or is carried out with its answer lost; `live` is what the
exchange holds and `lost` what the stream cannot know of.

Left out: `keep_alive()` called by the application itself, which changes nothing
of the stream; and the virtual call of `do_dispatch()` while a typed user stream
is being destroyed.

### HttpClient

All coroutines share one thread, so an action is what runs between two
suspensions. `pool` is the vector, `slot` the connections by heap address, `req`
the frame of each call of `execute()`. The reference `acquire_connection()`
holds while it connects is an index and the capacity of the buffer it points
into. Appending may move the vector, and erasing shifts or invalidates elements.
When a coroutine uses a reference or connection that is gone, `undefined` is set
and the model stops; properties other than `Defined` say nothing of what follows.

`Acquire` is an operator rather than an action, because `execute()` runs it
without suspension, on a retry also after the release of the failed connection.
`owed` is the set of requests written to a connection whose responses nobody has
read. Left out: the TLS session cache, the API key behind its mutex, URL
building, and destruction (documented to need no pending request).

### Models and RestClient

`Models` has the tables of `types.cpp`, the parameters that `trading_client.cpp`
builds, with prices printed to six decimals as `std::to_string(double)` does, and
the parsers on the REST and on the stream side. Prices are integers in units of
10^-8. An exception is a value with a member `thrown`.

`RestClient` has one frame (`call`) for each call in flight, synchronous on a
thread of its own or asynchronous on one single-threaded loop. `Ops` is the table
of all methods: the helper they go through, their path, parameters and parser. A
call begins (`Begin`: parameters, credentials, signature), is processed by the
exchange or intercepted by a gateway, is sent again or given up when the
transport fails, arrives, stores each rate-limit header (`Counts`, one atomic
store at a time) and is parsed (`Finishes`). The exchange, its orders, funds and
weight are external: they are modelled as the code and the test fixtures rely on
them. A signature is the query it was computed from, including the order in which the
`unordered_map` was iterated. The signature is then inserted into that map, and
`signed_get()` and `signed_delete()` send a copy of it. Both may change the order
of iteration, depending on the standard library: `Rehashes` has the sizes at
which an insertion makes the table grow, and `CopyKeeps` says whether a copy is
iterated like its original. Whether a request is affected follows from the number
of its parameters. The runs use the values of libstdc++, {1, 14} and `TRUE`.

Limits and intervals are parameters with one value. Left out: the fields of
tickers, klines, trades and depth (copied one by one without a decision), HMAC, and moves
or destruction of a client with calls in flight.

### Clock

`ticks_to_ns()` as an operator on 64-bit integers. It has no state and its
numbers are beyond TLC's 32 bits, so it has theorems and no run.

## What TLC checks

| Run | Module and configuration | Distinct states | What it shows |
|---|---|---|---|
| `spsc_queue` | `MCSpscQueue`, `SpscQueue.cfg` | 274,248 | No data race on an element; sizes seen by either user are possible; the ring buffer implements the FIFO; a consumer that polls takes every element. |
| `websocket_client` | `MCWebSocketClient`, `WebSocketClient.cfg` | 522,677 | `connected` never outlives the stream or the read that serves it; delays follow the documented schedule; the session the streams rely on is implemented. |
| `websocket_client_liveness` | `MCWebSocketClient`, `WebSocketClientLiveness.cfg` | 50,087 | `connect()` and `disconnect()` end; a loss is repaired or given up. If the read notices every loss there is one chain of reconnects and the client settles. |
| `websocket_client_two_chains` | `MCWebSocketClient`, `WebSocketClientTwoChains.cfg` | violation | `AlwaysSettles` |
| `websocket_client_reuse` | `MCWebSocketClient`, `WebSocketClientReuse.cfg` | violation | `ConnectedIsServed` |
| `market_stream` | `MCMarketStream`, `MarketStream.cfg` | 203,201 | Messages are dispatched in order and once, with a call for exactly the events subscribed to, and none is lost but to a filled queue; plain use is safe and each departure does no more than it is known for; the destructor ends, leaves no thread and, after plain use, nothing undelivered. |
| `user_stream` | `MCUserStream`, `UserStream.cfg` | 457,212 | The same order and losses; only a live key is renewed; `stop()` ends and returns every key and thread it can. |
| `http_client` | `MCHttpClient`, `HttpClient.cfg` | 184,902 | What the pool hands out is connected, clean and in nobody's use; the pool is bounded. |
| `http_client_calls` | `MCHttpClient`, `HttpClientCalls.cfg` | 6,269 | Every call ends; calls made one after the other are defined and lose no connection. |
| `http_client_dangling` | `MCHttpClient`, `HttpClientDangling.cfg` | violation | `Defined` |
| `rest_client` | `MCRestClient`, `RestClient.cfg` | 257,226 | What is placed, cancelled, signed, counted and answered agrees with what was asked for and with what the exchange holds; calls end. |
| `rest_client_blocked` | `MCRestClient`, `RestClientBlocked.cfg` | violation | `FuturesResolve` |

To repeat one: `tlc -config RestClient.cfg MCRestClient`. Each passing run takes
at most a few minutes. `TypeOK` of `MarketStream`, `UserStream` and `RestClient`
is not listed in a run. It holds under the same configurations.

### Bounds

- Queue: capacity 2 and counters modulo 4, the smallest pair in which the ring
  wraps, the counters wrap, and a full and an empty queue have equal slots. The
  proofs cover every capacity and width.
- WebSocket: an interval of 25 s, so that three attempts (25, 50, 60) reach the
  cap; two losses, so that a chain can follow a chain or meet one; two calls; one
  posted `send()` and one expired ping in the `io_context` (none and one in the
  liveness run, whose attempts are two).
- Streams: a queue of two elements, so that the order of what waits matters. Three
  messages overflow it. There are four in the market stream, so that one can
  follow the loss, and three in the user stream, with two starts and a callback
  for one of the event types.
- HTTP: three requests on a pool of two, with four addresses, so that overflow,
  retry and reuse of an address happen together; two requests on a pool of one
  for the liveness properties. Requests and addresses are symmetric in the first,
  which checks no liveness.
- REST: two calls, one of any operation and one placing an order; two requests
  (a limit order whose price needs rounding and a stop order of another symbol, so
  that cancelling all orders of a symbol leaves one), funds for two
  orders, one fault of the transport or of a gateway.

The actions are guarded by these bounds (`MaxCalls`, `MaxMessages`, `MaxFaults`
and so on). `CHECK_DEADLOCK FALSE` is set for all but the queue, because the
application may stop calling, the process may end, and a model stops where the
behaviour of the program is undefined.

### Fairness

No specification obliges the application to call, the network to fail or a
message to arrive. Threads that can run do run (weak fairness). Beyond that:

- Queue: the consumer polls, as the consumer threads of the streams do, and a
  thread that keeps loading a counter sees a store to it at last (strong fairness
  of a load that returns the current value).
- WebSocket: a handler that is ready keeps its place in the `io_context` and is
  run, also when others become ready in between (strong fairness). The
  synchronous resolve, connect, handshake and close are assumed to return. The
  code sets no time limit for those of a reconnect.
- Streams: the session's loop ends after `disconnect()` although messages keep
  arriving (strong fairness). `DisconnectReturns` of the WebSocket client is the
  reason. `StopSignals`, which needs the mutex of the keep-alive thread, gets it
  at last. In the user stream only `stop()`, the destructor and what they wait for
  are obliged to go on; `start()` is not.
- HTTP: each network operation completes or fails, because `expires_after()`
  precedes it.
- REST: a request that does not fail is answered, and a call whose coroutine can be
  resumed is resumed. No fault is obliged to happen.

## Statements the code does not meet

Four runs end in a violation. `PROJECT.json` quotes the statement for each.

- `websocket_client_two_chains`: a failing ping starts reconnecting while the
  read of the broken stream still waits. When that read fails too, a second chain
  starts. Each then replaces, and thereby aborts, the stream of the other, for
  ever.
- `websocket_client_reuse`: after `disconnect()`, or after a failed `connect()`,
  the `io_context` stays stopped. The next `connect()` reports success and its
  I/O thread ends at once.
- `http_client_dangling`: `acquire_connection()` holds a reference into a vector
  across a suspension. Another first request reallocates the vector.
- `rest_client_blocked`: the asynchronous example, and the same lines in the
  README of the repository, wait with `future::get()` on the only thread of the
  loop that would have to complete the future.

Other statements are defined beside the properties, without a run of their own.
To see one fail, check it alone under the configuration given.

| Statement | Configuration | Said where | What happens |
|---|---|---|---|
| `SizeInRangeForThird` | `SpscQueue.cfg` | `spsc_queue.hpp:103` "Approximate number of elements in the queue" | A third thread may load the two counters so far apart that the difference wraps. |
| `ClosedIsClosed` | `WebSocketClient.cfg` | `websocket_client.hpp:27-28` "Reconnection stops when disconnect() is called" | A reconnect past its test of `should_stop` stores `connected` after `disconnect()` cleared it. |
| `NoTimerRace`, `StaysAlive` | `WebSocketClient.cfg` | `websocket_client.hpp:20` "disconnect() is safe to call from any thread", `:48` "including from a callback" | `disconnect()` cancels `ping_timer` while the I/O thread replaces it. From a callback, the thread joins itself. |
| `StaleIsRetried` | `HttpClientCalls.cfg` | `http_client.cpp:332-334` | Whether a connection was reused is guessed from the size of the pool, and the guess is wrong for a pool of one. |
| `FreshIsNotRetried`, `OnlyStaleIsRetried`, `RetryIsFresh` | `HttpClient.cfg` | `http_client.cpp:332-334`, `:363` | New connections are retried, timeouts are retried, and a retry may get another idle connection. |
| `DestructionIsClean` | `MarketStream.cfg`, `AppMay <- DropConnected` | `market_stream_dispatch_test.cpp:8` "Consumer thread stops cleanly on destruction" | The queue is freed before the I/O thread that pushes to it is joined. |
| `StoppedIsDrained` | `UserStream.cfg`, `AppMay <- Nothing` | `user_stream.cpp:74` "Drain remaining messages after shutdown signal." | `stop()` joins the consumer before it disconnects, and what arrives in between stays in the queue. |
| `RefusalIsSurvived` | `UserStream.cfg`, `AppMay <- Nothing` | no statement; `keep_alive()` throws on a thread without a handler | A refused renewal ends the process. |
| `ErrorsAreRaised` | `RestClient.cfg` | `client.cpp:136` "// throws" | An error status with a JSON body that has no `code` and `msg` is taken for the result. |
| `CountersAreLatest` | `RestClient.cfg` | `client.hpp:40-41` "Values reflect the last server-reported window snapshot" | With two calls in flight an older response may be stored last. |
| `OrdersAreSingle` | `RestClient.cfg` | no statement | A request whose answer was lost is sent again and may place a second order. |
| `SignedIsAccepted` | `RestClient.cfg`, `Rehashes = {1, 3, 6, 12}` or `CopyKeeps = FALSE` | `README.md:37` "Cross-platform. CI builds and tests on Ubuntu, macOS, and Windows."; `signer.cpp` signs one iteration of a map and `client.cpp` sends another | Where the table grows at the third entry, inserting the signature may reorder the parameters of `get_open_orders()`; where a copy inserts anew, those of every signed `GET` and `DELETE` with two or more. The exchange then refuses the request. The standard leaves both open; no library other than libstdc++ was looked at. |
| `AnswersAreTrue` | `RestClient.cfg`, `Statuses = {"PENDING_NEW", "FILLED"}` | no statement | `new_order()` throws for a status it does not know although the order is placed. |

All of these come from the models. None has been reproduced on a build.

## What is proved

TLAPS proves the safety properties of the passing runs for every value of the
constants: any capacity, counter width, pool size, number of calls, messages,
orders, attempts and losses. `PROJECT.json` lists the theorems. Every proof has
the same outline: an inductive invariant holds initially, each action keeps it
(one step of the proof per action), and it implies the property. The invariant is
needed because the property talks of what a caller sees, and what keeps it true
is where each thread is in its code.

**SpscQueueProofs.** Assumed: `Capacity` divides `Modulus` and is at most half of
it (`CapacityAssumption`; both are powers of two in the code), and `NoValue` is
not an element. `IndInv` says that the tail as the producer last saw it, the
tail, the head as the consumer last saw it and the head are in this order within
one capacity, modulo wrap-around, and that a test a thread made ("not full", "not
empty") still holds when it acts on it. From it: `RaceFree`, `SizeIsPossible` and
`FifoRefinement`, the refinement of `BoundedFifo` step by step.

**Clock.** `ticks_to_ns()` is exact (`TicksToNsExact`), monotonic
(`TicksToNsMonotonic`) and does not overflow for 292 years up to 9 GHz
(`TicksToNsFits`).

**HttpClientProofs.** Assumed: `PoolSize` is at least one (`PoolAssumption`).
`IInv` says, as long as the behaviour is defined, that an active request holds a
connection of the pool that is in use and held by no other, that responses are
owed to the holder only, and that an idle connection is connected and clean.
`AInv` adds, for one call in flight at a time, that its reference is to the last
element of the vector and that no other connection is marked as in use. From the first: `IdleConnectionsAreClean`, `ConnectionsAreNotShared`,
`PoolIsBounded`. From the second: `AloneIsDefined`, `AloneLosesNothing`.

**WebSocketClientProofs.** Assumed: the interval is positive
(`ConfigAssumption`), and `AppMay` and `PingMayFail` are what their comments say.
`TypeCorrect`, `AlwaysOpen`, `SessionRefinement` and `BackoffHolds` hold in every
use. `ServedOnce` and `OneChain` assume `"reuse" \notin AppMay`, without which
they are false. `Together` relates the places of the application's thread and of
the I/O thread. `Fresh` describes the client before its first call, `Listening`
says that a connected client has a read or is on its way to one, and `Ended` that
a loop ends through `disconnect()` or for want of work. `One` counts what carries
the session on.
`OnSchedule` extends `BackoffSchedule` from pending timers to the attempt that a
handler is about to schedule. `BackoffDelay` is a closed form, whereas the code
doubles step by step; `BackoffDoubles` shows that they agree.

**MarketStreamProofs.** Assumed: `QueueCapacity` is positive, `Methods` and
`AppMay` are what their comments say. `Joined` (in every use) and `Plain` (while
`careless = {}`) relate the place of the application, the consumer thread, the
I/O thread, the handler and the life of `QueueState`. `Single` (no second
subscription) and `Settled` (no move of a subscribed stream, no destruction of a
connected one) keep the parts of `Plain` that hold of less careful programs.
Together they give `PlainUseSafe`. `Wired` says in which mode which handler is installed and when there is
a consumer. `Ordered` is `InOrder` with the types of the
messages and of the histories, but for what is lost. `Accounted` adds that the
kept messages are numbered in order up to `arrived`, and that one is missing only
if the queue had been filled: a queue that refuses holds `QueueCapacity` messages,
all of which were kept. They are inductive with `Wired`, and give
`DispatchedInOrder` in every use. `Ordered` rests on `EventsMatch`: what a subscription
lets through is what the exchange sends on the stream it asks for. `Drained` says
that in plain use the consumer drains only after `running` was cleared, when the
I/O thread has ended, and so leaves the queue empty. With `Ordered` it gives
`NothingIsLeft`: after plain use every message that was kept is dispatched
before the destructor returns.

**UserStreamProofs.** The same assumptions. `Plain` is the conjunction of
`Progress` (what is put back when `start()`, `stop()` or the destructor has come
so far; `Quiet` when nothing is left of a start), `Threads` (what each thread
uses is there) and `Keys` (the exchange holds the stream's key and those the
stream cannot know of). It gives `PlainUseSafe`, `OnlyLiveKeysRenewed`,
`StopReturnsKeys` and `StopLeavesNoThread`. `Settled` is what remains of it in a
program that does not destroy a started stream, whatever else it does, and gives
the second half of `PlainUseSafe`. `Wired`, `Ordered` and `Accounted` are as above
and give `DispatchedInOrder` in every use, through any number of starts.

**RestClientProofs.** `Requests` says that a call on its way carries the request
its operation and argument call for. `SignaturesHold` assumes that a copy keeps
the order (`CopyKeeps`) and that the table does not grow at its third to tenth
entry. Its argument is `NineParameters`: no request of this library has more than
nine parameters besides its signature, for any `NewOrderRequest`. With growth at
the third entry or copies that insert anew it is false, as the table above shows.
`Counted`
says that no report is newer than the exchange's own count, and `Sequential` that
without overlap the counters are what was said last, but for the headers still to
be stored. They give `CountersAreExact`. `Listing` says that the orders are a
sequence, and gives the action property `CancelsWhatIsNamed`.

**RestOrderProofs.** Assumed: the application's requests are `NewOrderRequest`
records, of any prices and quantities (`RequestAssumption`), and the funds are a
natural number (`FundsAssumption`).

- `Placed` says that every order of the exchange has the fields of an order and
  was asked for as it is. It rests on `NewOrderParams` and `PrintedIsNear`, what
  `build_new_order_params()` and `std::to_string()` make of a request, and gives
  `PlacedIsRequested`.
- `Funded` says that open and filled orders together do not exceed the funds, so
  that balances are natural numbers. With `Placed` it gives `SamePicture`. The
  argument is that the two parsers read the same members under different keys
  (`MembersOfOrder`, `MembersOfUpdate`), and that the order in which they convert
  them does not matter to what is read or thrown.
- `Truthful` says that an answer tells what became of the request and that the
  result is made of the answer. `Limited` says that a call has placed at most one
  order for each time it sent its request, and one less while the last is on its
  way. With `NamesReadBack` (each enumeration name is read back as what it was
  written for) they give `NewOrderIsTrue`. Its hypothesis is that the exchange
  uses statuses `order_status_from_string()` knows; the table above shows that
  it is needed. The theorem also covers a request that was sent twice: there the
  returned `Order` is one of at most two, and an exception does not mean that
  nothing was placed.

### What is only model-checked

- Liveness, which is beyond the prover: `OldestIsTaken`, `ConnectEnds`,
  `DisconnectReturns`, `LossIsHandled`, `Settles`, `KeptIsDelivered`,
  `DestructionEnds`, `StopEnds` and the two `CallsEnd`. `NothingIsLeft` is the
  safety half of `KeptIsDelivered`.
- `TypeOK` of `MarketStream`, `UserStream` and `RestClient`. No configuration
  lists these three; with `INVARIANT TypeOK` added to `MarketStream.cfg`,
  `UserStream.cfg` and `RestClient.cfg` TLC finds no violation. The inductive
  invariants above contain the part of them that the proofs need.
- The refuted statements, which are counterexamples of small instances.

The step from one layer to the next, that `RestClient` may take the transport
for a call that ends and the streams the queue for a FIFO of single steps, is
argued in this file and not proved as a theorem about the composition.

## Observations while reading

Differences between text and code that no property is about:

- The header of `UserStream` says the key is renewed every 30 minutes, the code
  waits 25. The comment says `PUT` (`user_stream.hpp:51`), the code sends `POST`
  (`user_stream.cpp:120-121`).
- `clock.hpp:19-20` says a product in nanoseconds overflows after "roughly one
  hour" at 10 MHz. It is about 15 minutes (922 s).
- `StopLossLimit` and `TakeProfitLimit` orders with `GTC` are sent without
  `timeInForce` (`trading_client.cpp:30`).
- `is_buyer` of a trade is `isBuyerMaker` on the REST side (`json_parse.hpp:94`)
  and its negation on the stream side (`ws_parse.hpp:45-46`).
- An `OrderBook` from the stream carries the last update id only
  (`ws_parse.hpp:114-117`), so that a consumer cannot see the gap that an update
  dropped by a full queue leaves.
- `Credentials::clear()` leaves `has_credentials()` true.

## What is not modelled

- The logger, thread affinity and the configuration and model structures: library
  calls and plain data.
- URL parsing, TLS and its session cache, HMAC, the compile-time handler traits.
- The message texts of errors.
- Moves of REST clients with calls in flight, and their destruction, which
  `http_client.cpp:149-150` leaves to the caller to avoid.
- Memory order weaker than acquire and release (the code uses relaxed loads only
  for a thread's own counter) and the internals of Boost.Asio and Beast, of which
  the models keep the rules for handlers, posting, stopping and cancellation.
