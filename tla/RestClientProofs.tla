-------------------------- MODULE RestClientProofs --------------------------
(***************************************************************************)
(* Proofs about RestClient, for any number of calls, any orders and any    *)
(* faults of the transport and of gateways.                                *)
(***************************************************************************)
EXTENDS RestClient, SequenceTheorems, FiniteSetTheorems, TLAPS

-----------------------------------------------------------------------------
(* Frames *)

Fields == {"pc", "op", "async", "arg", "wire", "sends", "reply", "result", "placed"}
ReplyFields == {"status", "body", "headers", "own", "at"}

IsFrame(f) == DOMAIN f = Fields /\ DOMAIN f.reply = ReplyFields

\* Every call has a frame.
Frames == DOMAIN call = Calls /\ \A c \in Calls : IsFrame(call[c])

\* A step of c leaves the other frames as they are.
Others(c) ==
  DOMAIN call' = Calls /\ \A d \in Calls \ {c} : call'[d] = call[d]

\* What a call is for does not change.
SameCall(f, g) ==
  g.op = f.op /\ g.async = f.async /\ g.arg = f.arg /\ g.wire = f.wire

\* The frame of a call that begins: it fails for want of credentials, or its
\* request is on the wire, signed if the operation is.
LEMMA BeginFrame ==
  ASSUME Frames, NEW c \in Calls, NEW op, NEW async, Begin(c, op, async)
  PROVE  LET g == call'[c]
         IN  /\ Others(c) /\ IsFrame(g) /\ call[c].pc = "idle"
             /\ g.op = op /\ g.arg \in ArgsOf(Ops[op].takes)
             /\ g.reply = NoReply /\ g.placed = {}
             /\ g.pc \in {"sent", "done"} /\ g.sends = IF g.pc = "sent" THEN 1 ELSE 0
             /\ g.pc = "sent" =>
                  LET params == ParamsOf(Ops[op].takes, g.arg)
                  IN  IF Signed(op) THEN g.wire \in Sent(op, params)
                      ELSE g.wire = [params |-> params]
<1> DEFINE params(arg) == ParamsOf(Ops[op].takes, arg)
           frame(arg) == [IdleFrame EXCEPT !.op = op, !.arg = arg, !.async = async]
           Failed(arg) == [frame(arg) EXCEPT !.pc = "done",
                             !.result = Throws("AuthenticationException")]
           OnWire(arg, w) == [frame(arg) EXCEPT !.pc = "sent", !.wire = w, !.sends = 1]
<1>1. PICK arg \in ArgsOf(Ops[op].takes) :
        \/ call' = [call EXCEPT ![c] = Failed(arg)]
        \/ /\ Signed(op)
           /\ \E w \in Sent(op, params(arg)) :
                call' = [call EXCEPT ![c] = OnWire(arg, w)]
        \/ /\ ~Signed(op)
           /\ call' = [call EXCEPT ![c] = OnWire(arg, [params |-> params(arg)])]
  BY Zenon DEF Begin
<1>2. /\ IsFrame(IdleFrame) /\ IdleFrame.reply = NoReply /\ IdleFrame.pc = "idle"
      /\ IdleFrame.placed = {} /\ IdleFrame.sends = 0
  BY DEF IdleFrame, NoReply, IsFrame, Fields, ReplyFields
<1>3. /\ IsFrame(Failed(arg)) /\ Failed(arg).reply = NoReply /\ Failed(arg).placed = {}
      /\ Failed(arg).op = op /\ Failed(arg).arg = arg /\ Failed(arg).pc = "done"
      /\ Failed(arg).sends = 0
  BY <1>2 DEF IsFrame, Fields
<1>4. \A w : /\ IsFrame(OnWire(arg, w)) /\ OnWire(arg, w).reply = NoReply
             /\ OnWire(arg, w).placed = {} /\ OnWire(arg, w).sends = 1
             /\ OnWire(arg, w).op = op /\ OnWire(arg, w).arg = arg
             /\ OnWire(arg, w).pc = "sent" /\ OnWire(arg, w).wire = w
  BY <1>2 DEF IsFrame, Fields
<1> HIDE DEF params, Failed, OnWire
<1>5. Others(c) /\ call[c].pc = "idle"
  BY <1>1, Zenon DEF Frames, Others, Begin
<1>6. CASE call' = [call EXCEPT ![c] = Failed(arg)]
  BY <1>3, <1>5, <1>6 DEF Frames
<1>7. CASE \E w \in Sent(op, params(arg)) :
             Signed(op) /\ call' = [call EXCEPT ![c] = OnWire(arg, w)]
  BY <1>4, <1>5, <1>7 DEF Frames, params
<1>8. CASE ~Signed(op) /\ call' = [call EXCEPT ![c] = OnWire(arg, [params |-> params(arg)])]
  BY <1>4, <1>5, <1>8 DEF Frames, params
<1> QED BY <1>1, <1>6, <1>7, <1>8

\* The exchange's answer.
Answer(c, e, w) ==
  LET f == call[c]
      effect == IF Accepts(f.wire) THEN Effect(f) ELSE {}
      placed == IF f.op = "new_order" /\ effect # {} THEN {Len(orders) + 1} ELSE {}
  IN  [status |-> IF effect = {} THEN 400 ELSE 200, body |-> e.body,
       headers |-> HeadersOf(f, w, placed), own |-> TRUE, at |-> weight + 1]

\* What it does to the orders, and the frame of a call that it answers.
LEMMA ProcessesFrame ==
  ASSUME Frames, NEW c \in Calls, Processes(c)
  PROVE  LET f == call[c]
             g == call'[c]
         IN  /\ Others(c) /\ IsFrame(g)
             /\ f.pc = "sent" /\ g.pc = "processed" /\ SameCall(f, g)
             /\ g.sends = f.sends
             /\ \E x : g.placed \in {f.placed, f.placed \cup {x}}
             /\ weight' = weight + 1
             /\ \E e, w :
                  /\ orders' = e.orders
                  /\ e.orders = orders \/ e \in Effect(f)
                  /\ g.reply = Answer(c, e, w)
<1> DEFINE f == call[c]
           effect == IF Accepts(f.wire) THEN Effect(f) ELSE {}
           placed == IF f.op = "new_order" /\ effect # {} THEN {Len(orders) + 1} ELSE {}
           reply(e, w) == [status |-> IF effect = {} THEN 400 ELSE 200, body |-> e.body,
                           headers |-> HeadersOf(f, w, placed), own |-> TRUE,
                           at |-> weight + 1]
<1>1. PICK w \in {weight + 1} \cup (IF f.op \in Garbled THEN {Junk} ELSE {}) :
        \E e \in IF effect = {} THEN {[orders |-> orders, body |-> ApiError]} ELSE effect :
          /\ orders' = e.orders
          /\ call' = [call EXCEPT ![c].pc = "processed", ![c].placed = @ \cup placed,
                        ![c].reply = reply(e, w)]
  BY Zenon DEF Processes
<1> HIDE DEF placed, reply
<1>2. PICK e \in IF effect = {} THEN {[orders |-> orders, body |-> ApiError]} ELSE effect :
        /\ orders' = e.orders
        /\ call' = [call EXCEPT ![c].pc = "processed", ![c].placed = @ \cup placed,
                      ![c].reply = reply(e, w)]
  BY <1>1, Zenon
<1>3. e.orders = orders \/ e \in Effect(f)
  BY <1>2
<1>4. reply(e, w) = Answer(c, e, w)
  BY DEF Answer, reply, placed
<1>5. DOMAIN Answer(c, e, w) = ReplyFields
  BY DEF Answer, ReplyFields
<1> HIDE DEF effect
<1>6. /\ Others(c) /\ IsFrame(call'[c]) /\ SameCall(f, call'[c])
      /\ call'[c].sends = f.sends /\ call'[c].placed = f.placed \cup placed
      /\ call'[c].pc = "processed" /\ call'[c].reply = Answer(c, e, w)
  BY <1>2, <1>4, <1>5 DEF Frames, IsFrame, Fields, Others, SameCall
<1>7. f.pc = "sent" /\ weight' = weight + 1
  BY Zenon DEF Processes
<1>8. \E x : call'[c].placed \in {f.placed, f.placed \cup {x}}
  BY <1>6, Zenon DEF placed
<1> QED BY <1>2, <1>3, <1>6, <1>7, <1>8, Zenon

\* The frames of a call that goes on.
LEMMA GoesOnFrame ==
  ASSUME Frames, NEW c \in Calls
  PROVE  LET f == call[c]
             g == call'[c]
         IN  /\ GoesOn(c) => Others(c) /\ IsFrame(g)
             /\ Processes(c) => /\ f.pc = "sent" /\ g.pc = "processed"
                                /\ SameCall(f, g)
             /\ Intercepted(c) => /\ f.pc = "sent" /\ g.pc = "processed"
                                  /\ SameCall(f, g)
                                  /\ g.reply.headers = <<>> /\ g.reply.at = 0
             /\ SendsAgain(c) => /\ f.pc \in {"sent", "processed"} /\ g.pc = "sent"
                                 /\ SameCall(f, g)
             /\ TransportFails(c) => f.pc \in {"sent", "processed"} /\ g.pc = "done"
             /\ Arrives(c) => /\ f.pc = "processed" /\ g.pc = "counting"
                              /\ g.reply = f.reply
             /\ Counts(c) => /\ f.pc = "counting" /\ g.pc = "counting"
                             /\ g.reply.headers = Tail(f.reply.headers)
                             /\ g.reply.at = f.reply.at
             /\ Finishes(c) => f.pc = "counting" /\ g.pc = "done"
             /\ Returns(c) => f.pc = "done" /\ g.pc = "idle"
<1> USE DEF Frames, IsFrame, Fields, ReplyFields, Others, SameCall, NoReply
<1>1. ASSUME Processes(c)
      PROVE  /\ Others(c) /\ IsFrame(call'[c])
             /\ call[c].pc = "sent" /\ call'[c].pc = "processed"
             /\ SameCall(call[c], call'[c])
  BY <1>1, ProcessesFrame
<1>2. ASSUME Intercepted(c)
      PROVE  /\ Others(c) /\ IsFrame(call'[c])
             /\ call[c].pc = "sent" /\ call'[c].pc = "processed"
             /\ SameCall(call[c], call'[c])
             /\ call'[c].reply.headers = <<>> /\ call'[c].reply.at = 0
  BY <1>2 DEF Intercepted
<1>3. ASSUME SendsAgain(c)
      PROVE  /\ Others(c) /\ IsFrame(call'[c])
             /\ call[c].pc \in {"sent", "processed"} /\ call'[c].pc = "sent"
             /\ SameCall(call[c], call'[c])
  BY <1>3 DEF SendsAgain
<1>4. ASSUME TransportFails(c)
      PROVE  /\ Others(c) /\ IsFrame(call'[c])
             /\ call[c].pc \in {"sent", "processed"} /\ call'[c].pc = "done"
  BY <1>4 DEF TransportFails
<1>5. ASSUME Arrives(c)
      PROVE  /\ Others(c) /\ IsFrame(call'[c])
             /\ call[c].pc = "processed" /\ call'[c].pc = "counting"
             /\ call'[c].reply = call[c].reply
  BY <1>5 DEF Arrives
<1>6. ASSUME Counts(c)
      PROVE  /\ Others(c) /\ IsFrame(call'[c])
             /\ call[c].pc = "counting" /\ call'[c].pc = "counting"
             /\ call'[c].reply.headers = Tail(call[c].reply.headers)
             /\ call'[c].reply.at = call[c].reply.at
  BY <1>6 DEF Counts
<1>7. ASSUME Finishes(c)
      PROVE  /\ Others(c) /\ IsFrame(call'[c])
             /\ call[c].pc = "counting" /\ call'[c].pc = "done"
  BY <1>7 DEF Finishes
<1>8. ASSUME Returns(c)
      PROVE  /\ Others(c) /\ IsFrame(call'[c])
             /\ call[c].pc = "done" /\ call'[c].pc = "idle"
  BY <1>8 DEF Returns, IdleFrame
<1> QED BY <1>1, <1>2, <1>3, <1>4, <1>5, <1>6, <1>7, <1>8 DEF GoesOn

-----------------------------------------------------------------------------
(* The headers of an answer *)

Weighs(x) == <<"x-mbx-used-weight-1m", x>>
TenSeconds(x) == <<"x-mbx-order-count-10s", x>>
OneDay(x) == <<"x-mbx-order-count-1d", x>>

\* What is left of them while update_rate_limits() goes through them.
IsHeaders(hs) ==
  \E x, y, z :
    hs \in {<<>>, <<Weighs(x)>>, <<Weighs(x), TenSeconds(y), OneDay(z)>>,
           <<TenSeconds(y), OneDay(z)>>, <<OneDay(z)>>}

Left(hs) == {hs[i] : i \in DOMAIN hs}

\* No counter is named twice, and the headers are stored one by one.
LEMMA HeadersFacts ==
  ASSUME NEW hs, IsHeaders(hs)
  PROVE  /\ \A p \in Left(hs) : p[1] \in Counters
         /\ \A p, q \in Left(hs) : p[1] = q[1] => p = q
         /\ hs = <<>> => Left(hs) = {}
         /\ hs # <<>> => /\ Head(hs) \in Left(hs)
                        /\ IsHeaders(Tail(hs))
                        /\ Left(Tail(hs)) = Left(hs) \ {Head(hs)}
<1>1. Left(<<>>) = {}
  BY DEF Left
<1>2. \A a : Left(<<a>>) = {a} /\ Head(<<a>>) = a /\ Tail(<<a>>) = <<>>
  BY DEF Left
<1>3. \A a, b : /\ Left(<<a, b>>) = {a, b} /\ Head(<<a, b>>) = a
               /\ Tail(<<a, b>>) = <<b>>
  BY DEF Left
<1>4. \A a, b, d : /\ Left(<<a, b, d>>) = {a, b, d} /\ Head(<<a, b, d>>) = a
                  /\ Tail(<<a, b, d>>) = <<b, d>>
  BY DEF Left
<1>5. \A x : /\ Weighs(x)[1] = "x-mbx-used-weight-1m"
             /\ TenSeconds(x)[1] = "x-mbx-order-count-10s"
             /\ OneDay(x)[1] = "x-mbx-order-count-1d"
  BY DEF Weighs, TenSeconds, OneDay
<1>6. PICK x, y, z :
        hs \in {<<>>, <<Weighs(x)>>, <<Weighs(x), TenSeconds(y), OneDay(z)>>,
               <<TenSeconds(y), OneDay(z)>>, <<OneDay(z)>>}
  BY DEF IsHeaders
<1>7. /\ IsHeaders(<<>>) /\ IsHeaders(<<OneDay(z)>>)
      /\ IsHeaders(<<TenSeconds(y), OneDay(z)>>)
  BY DEF IsHeaders
<1>8. CASE hs = <<>>
  BY <1>1, <1>8
<1>9. CASE hs = <<Weighs(x)>>
  BY <1>1, <1>2, <1>5, <1>7, <1>9 DEF Counters
<1>10. CASE hs = <<OneDay(z)>>
  BY <1>1, <1>2, <1>5, <1>7, <1>10 DEF Counters
<1>11. CASE hs = <<TenSeconds(y), OneDay(z)>>
  BY <1>2, <1>3, <1>5, <1>7, <1>11 DEF Counters
<1>12. CASE hs = <<Weighs(x), TenSeconds(y), OneDay(z)>>
  BY <1>3, <1>4, <1>5, <1>7, <1>12 DEF Counters
<1> QED BY <1>6, <1>8, <1>9, <1>10, <1>11, <1>12

\* The exchange sends such headers.
LEMMA AnswerHeaders ==
  ASSUME NEW f, NEW w, NEW placed
  PROVE  IsHeaders(HeadersOf(f, w, placed))
<1> DEFINE a == Weighs(w)
           b == TenSeconds(Len(orders) + 1)
           d == OneDay(Len(orders) + 2)
<1>1. HeadersOf(f, w, placed) = IF placed = {} THEN <<a>> \o <<>> ELSE <<a>> \o <<b, d>>
  BY Zenon DEF HeadersOf, Weighs, TenSeconds, OneDay
<1> HIDE DEF a, b, d
<1>2. <<a>> \in Seq({a, b, d}) /\ <<b, d>> \in Seq({a, b, d})
  OBVIOUS
<1>3. <<a>> \o <<>> = <<a>>
  BY <1>2, ConcatEmptySeq
<1>4. <<a>> \o <<b, d>> = <<a, b, d>>
  <2> DEFINE s == <<a>> \o <<b, d>>
             t == <<a, b, d>>
  <2>1. t \in Seq({a, b, d}) /\ Len(t) = 3 /\ t[1] = a /\ t[2] = b /\ t[3] = d
    OBVIOUS
  <2>2. s \in Seq({a, b, d}) /\ Len(s) = 3 /\ s[1] = a /\ s[2] = b /\ s[3] = d
    BY <1>2, ConcatProperties
  <2> HIDE DEF s, t
  <2>3. s = t
    BY <2>1, <2>2, SeqEqual
  <2> QED BY <2>3 DEF s, t
<1> QED BY <1>1, <1>3, <1>4 DEF IsHeaders, a, b, d

-----------------------------------------------------------------------------
(* Requests *)

\* The request that a frame holds, until its answer is there.
HasRequest(f) ==
  /\ f.op \in DOMAIN Ops
  /\ f.arg \in ArgsOf(Ops[f.op].takes)
  /\ LET params == ParamsOf(Ops[f.op].takes, f.arg)
     IN  IF Signed(f.op) THEN f.wire \in Sent(f.op, params)
         ELSE f.wire = [params |-> params]

Requests ==
  Frames /\ \A c \in Calls : call[c].pc \in {"sent", "processed"} => HasRequest(call[c])

\* The operations of the clients are those of the table.
LEMMA OpsOfClients ==
  DOMAIN Ops = DOMAIN BasicOps \cup DOMAIN MarketDataOps \cup DOMAIN AccountOps
                 \cup DOMAIN TradingOps \cup DOMAIN CancelOps
  BY DEF Ops, Joined

\* A step begins a call, takes one on, or blocks the loop.
LEMMA NextIsOneOf ==
  Next => \/ \E c \in Calls, op \in DOMAIN Ops, async \in BOOLEAN : Begin(c, op, async)
          \/ \E c \in Calls : GoesOn(c)
          \/ Blocks
  BY OpsOfClients, Zenon
     DEF Next, BasicCall, AsyncBasicCall, MarketDataCall, AsyncMarketDataCall,
         AccountCall, AsyncAccountCall, TradingCall, AsyncTradingCall

\* A frame keeps its request until it is answered, also when it is sent again.
LEMMA RequestsStep ==
  ASSUME Requests, [Next]_vars
  PROVE  Requests'
<1> USE DEF Requests
<1>1. ASSUME NEW c \in Calls, NEW op \in DOMAIN Ops, NEW async \in BOOLEAN,
             Begin(c, op, async)
      PROVE  Requests'
  <2>1. Frames'
    BY <1>1, BeginFrame, Zenon DEF Frames, Others
  <2>2. call'[c].pc \in {"sent", "processed"} => HasRequest(call'[c])
    <3>1. /\ call'[c].op = op /\ call'[c].arg \in ArgsOf(Ops[op].takes)
          /\ call'[c].pc \in {"sent", "done"}
          /\ call'[c].pc = "sent" =>
               LET params == ParamsOf(Ops[op].takes, call'[c].arg)
               IN  IF Signed(op) THEN call'[c].wire \in Sent(op, params)
                   ELSE call'[c].wire = [params |-> params]
      BY <1>1, BeginFrame, Zenon
    <3> QED BY <3>1, Zenon DEF HasRequest
  <2> QED BY <1>1, <2>1, <2>2, BeginFrame, Zenon DEF Others
<1>2. ASSUME NEW c \in Calls, GoesOn(c)
      PROVE  Requests'
  <2>1. Frames'
    BY <1>2, GoesOnFrame DEF Frames, Others
  <2>2. call'[c].pc \in {"sent", "processed"} =>
          call[c].pc \in {"sent", "processed"} /\ SameCall(call[c], call'[c])
    BY <1>2, GoesOnFrame DEF GoesOn
  <2>3. SameCall(call[c], call'[c]) /\ HasRequest(call[c]) => HasRequest(call'[c])
    BY DEF SameCall, HasRequest
  <2> QED BY <1>2, <2>1, <2>2, <2>3, GoesOnFrame DEF Others
<1>3. CASE Blocks \/ UNCHANGED vars
  BY <1>3 DEF Blocks, vars, Frames, HasRequest
<1> QED BY <1>1, <1>2, <1>3, NextIsOneOf

\* Every frame holds the request that its operation and its arguments make.
THEOREM RequestsInOrder == Spec => []Requests
<1>1. Init => Requests
  BY DEF Init, Requests, Frames, IdleFrame, NoReply, IsFrame, Fields, ReplyFields
<1>2. Requests /\ [Next]_vars => Requests'
  BY RequestsStep
<1> QED BY <1>1, <1>2, PTL DEF Spec

\* A list names no more than its length.
LEMMA AtMost ==
  ASSUME NEW n \in Nat, NEW f, NEW T, \A x \in T : \E i \in 1..n : f[i] = x
  PROVE  IsFiniteSet(T) /\ Cardinality(T) \in 0..n
<1> DEFINE I == {i \in 1..n : f[i] \in T}
           g == [i \in I |-> f[i]]
<1>1. IsFiniteSet(1..n) /\ Cardinality(1..n) = n
  BY FS_Interval
<1>2. IsFiniteSet(I) /\ Cardinality(I) <= n
  BY <1>1, FS_Subset
<1>3. g \in Surjection(I, T)
  BY DEF Surjection
<1>4. IsFiniteSet(T) /\ Cardinality(T) <= Cardinality(I)
  BY <1>2, <1>3, FS_Surjection
<1>5. Cardinality(T) \in Nat /\ Cardinality(I) \in Nat
  BY <1>2, <1>4, FS_CardinalityType
<1> QED BY <1>2, <1>4, <1>5

\* What a signed operation takes.
LEMMA SignedTakes ==
  ASSUME NEW op \in DOMAIN Ops, Signed(op)
  PROVE  Ops[op].takes \in {"request", "name", "cancel", "symbol", "page", "nothing"}
<1> DEFINE Takes == {"request", "name", "cancel", "symbol", "page", "nothing"}
<1>1. op \notin DOMAIN BasicOps
  BY DEF Signed, Ops, Joined, BasicOps, Operation
<1>2. op \in DOMAIN MarketDataOps => MarketDataOps[op].via = "public_get"
  BY DEF MarketDataOps, Operation
<1>3. op \in DOMAIN AccountOps => AccountOps[op].takes \in Takes
  BY DEF AccountOps, Operation
<1>4. op \in DOMAIN TradingOps => TradingOps[op].takes \in Takes
  BY DEF TradingOps, Operation
<1>5. op \in DOMAIN CancelOps => CancelOps[op].takes \in Takes
  BY DEF CancelOps, Operation
<1>6. op \notin DOMAIN MarketDataOps
  <2> SUFFICES ASSUME op \in DOMAIN MarketDataOps PROVE FALSE
    OBVIOUS
  <2>1. Ops[op].via = "public_get"
    BY <1>1, <1>2, Zenon DEF Ops, Joined
  <2> QED BY <2>1 DEF Signed
<1>7. Ops[op] \in {AccountOps[op], TradingOps[op], CancelOps[op]}
  BY <1>1, <1>6 DEF Ops, Joined
<1> QED BY <1>1, <1>3, <1>4, <1>5, <1>6, Zenon DEF Ops, Joined

\* The arguments that are sent as they are.
LEMMA PlainArgs ==
  \A takes \in {"symbol", "page", "nothing"} : \A arg \in ArgsOf(takes) :
    DOMAIN arg \subseteq {"symbol", "orderId", "origClientOrderId", "limit"}
<1>1. /\ ArgsOf("symbol") = [symbol : Symbols]
      /\ ArgsOf("page") = [symbol : Symbols, limit : {500}]
      /\ ArgsOf("nothing") = {Empty}
  BY Zenon DEF ArgsOf
<1>2. \A arg \in [symbol : Symbols] : DOMAIN arg = {"symbol"}
  OBVIOUS
<1>3. \A arg \in [symbol : Symbols, limit : {500}] : DOMAIN arg = {"symbol", "limit"}
  OBVIOUS
<1>4. DOMAIN Empty = {}
  BY DEF Empty
<1>5. \A arg \in ArgsOf("symbol") : DOMAIN arg = {"symbol"}
  BY <1>1, <1>2, Zenon
<1>6. \A arg \in ArgsOf("page") : DOMAIN arg = {"symbol", "limit"}
  BY <1>1, <1>3, Zenon
<1>7. \A arg \in ArgsOf("nothing") : DOMAIN arg = {}
  BY <1>1, <1>4, Zenon
<1> QED BY <1>5, <1>6, <1>7

\* A signed request has at most nine parameters, the timestamp included.
LEMMA NineParameters ==
  ASSUME NEW op \in DOMAIN Ops, Signed(op), NEW arg \in ArgsOf(Ops[op].takes)
  PROVE  Cardinality(DOMAIN Timed(ParamsOf(Ops[op].takes, arg))) \in 0..9
<1> DEFINE takes == Ops[op].takes
           p == ParamsOf(takes, arg)
           Order == <<"symbol", "side", "type", "quantity", "timeInForce", "price",
                      "newClientOrderId", "stopPrice", "timestamp">>
           Name == <<"symbol", "orderId", "origClientOrderId", "limit", "timestamp">>
<1>1. takes \in {"request", "name", "cancel", "symbol", "page", "nothing"}
  BY SignedTakes
<1>2. DOMAIN Timed(p) = {"timestamp"} \cup DOMAIN p
  BY DEF Timed, Joined
<1>3. CASE takes = "request"
  <2>1. p = build_new_order_params(arg)
    BY <1>3 DEF ParamsOf
  <2>2. DOMAIN p \subseteq {"symbol", "side", "type", "quantity", "timeInForce", "price",
                            "newClientOrderId", "stopPrice"}
    BY <2>1, Zenon DEF build_new_order_params, Present, Restrict
  <2>3. \A x \in DOMAIN Timed(p) : \E i \in 1..9 : Order[i] = x
    BY <1>2, <2>2
  <2> HIDE DEF Order
  <2>4. \E f : \A x \in DOMAIN Timed(p) : \E i \in 1..9 : f[i] = x
    BY <2>3, Zenon
  <2> HIDE DEF p
  <2> QED BY <2>4, AtMost DEF p
<1>4. CASE takes # "request"
  <2>1. DOMAIN p \subseteq {"symbol", "orderId", "origClientOrderId", "limit"}
    <3>1. CASE takes \in {"name", "cancel"}
      <4>1. p = build_cancel_params(arg)
        BY <3>1 DEF ParamsOf
      <4> QED BY <4>1, Zenon DEF build_cancel_params, Present, Restrict
    <3>2. CASE takes \in {"symbol", "page", "nothing"}
      <4>1. p = arg /\ arg \in ArgsOf(takes)
        BY <3>2 DEF ParamsOf
      <4> QED BY <3>2, <4>1, PlainArgs, Zenon
    <3> QED BY <1>1, <1>4, <3>1, <3>2
  <2>2. \A x \in DOMAIN Timed(p) : \E i \in 1..5 : Name[i] = x
    BY <1>2, <2>1
  <2> HIDE DEF Name, p
  <2>3. Cardinality(DOMAIN Timed(p)) \in 0..5
    BY <2>2, AtMost
  <2> QED BY <2>3 DEF p
<1> QED BY <1>3, <1>4

\* Where a copy of a map keeps its order, and its table does not grow when it
\* gets its third to tenth entry (that of libstdc++ grows at the first and at the
\* fourteenth), the exchange receives the query that was signed, for every
\* operation, every order and however often the request is sent.
THEOREM SignaturesHold ==
  ASSUME CopyKeeps, Rehashes \cap 3..10 = {}
  PROVE  Spec => []SignedIsAccepted
<1>1. \A f : HasRequest(f) => Accepts(f.wire)
  <2> SUFFICES ASSUME NEW f, HasRequest(f) PROVE Accepts(f.wire)
    OBVIOUS
  <2> DEFINE params == ParamsOf(Ops[f.op].takes, f.arg)
             timed == Timed(params)
             wire == [params |-> timed, order |-> 1,
                      signature |-> [params |-> timed, order |-> 1]]
  <2>1. CASE Signed(f.op)
    <3>1. f.wire \in Sent(f.op, params)
      BY <2>1 DEF HasRequest
    <3>2. Cardinality(DOMAIN timed) \in 0..9
      BY <2>1, NineParameters DEF HasRequest
    <3> HIDE DEF params
    <3>3. Iterated(timed, 1, Cardinality(DOMAIN timed) + 1 \in Rehashes) = {1}
      <4> HIDE DEF timed
      <4> QED BY <3>2 DEF Iterated
    <3>4. sign_parameters(params) = {wire}
      BY <3>3 DEF sign_parameters
    <3>5. Sent(f.op, params) = {[wire EXCEPT !.order = wire.order]}
      <4>1. Iterated(wire.params, wire.order,
                     Ops[f.op].via # "signed_post" /\ ~CopyKeeps) = {wire.order}
        BY DEF Iterated
      <4> HIDE DEF wire
      <4> QED BY <3>4, <4>1 DEF Sent
    <3>6. f.wire = wire
      BY <3>1, <3>5
    <3> QED BY <3>6 DEF Accepts
  <2>2. CASE ~Signed(f.op)
    <3>1. f.wire = [params |-> params]
      BY <2>2 DEF HasRequest
    <3> HIDE DEF params
    <3> QED BY <3>1 DEF Accepts
  <2> QED BY <2>1, <2>2
<1>2. Requests => SignedIsAccepted
  BY <1>1 DEF Requests, SignedIsAccepted
<1> QED BY <1>2, RequestsInOrder, PTL

-----------------------------------------------------------------------------
(* The rate-limit counters *)

\* What the exchange said is not newer than its own count.
Counted ==
  /\ weight \in Nat
  /\ DOMAIN used = Counters
  /\ \A h \in Counters : reported[h].at \in 0..weight
  /\ \A c \in Calls : call[c].pc \in {"processed", "counting"} =>
       /\ IsHeaders(call[c].reply.headers)
       /\ call[c].reply.at \in 0..weight

\* An answer that arrives is the latest.
Latest ==
  \A c \in Calls : call[c].pc = "processed" =>
    \/ call[c].reply.headers = <<>>
    \/ \A h \in Counters : reported[h].at < call[c].reply.at

\* What is still to be stored is what was said last.
ToStore ==
  \A c \in Calls : call[c].pc = "counting" =>
    \A p \in Left(call[c].reply.headers) : p[2] = reported[p[1]].value

\* The header of h is still to be stored.
Waits(h) ==
  \E c \in Calls : /\ call[c].pc = "counting"
                  /\ \E p \in Left(call[c].reply.headers) : p[1] = h

\* While calls do not overlap, the counters are what was said last, but for the
\* headers that are still to be stored.
Sequential ==
  ~overlapped =>
    /\ \A c, d \in InFlight : c = d
    /\ Latest /\ ToStore
    /\ \A h \in Counters : used[h] = Stored(reported[h].value) \/ Waits(h)

\* A call begins.
LEMMA BeginCounts ==
  ASSUME Frames, Counted, Sequential,
         NEW c \in Calls, NEW op, NEW async, Begin(c, op, async)
  PROVE  Counted' /\ Sequential'
<1>1. Others(c) /\ call'[c].pc \in {"sent", "done"} /\ call[c].pc = "idle"
  BY BeginFrame, Zenon
<1>2. /\ UNCHANGED <<used, weight, reported>>
      /\ overlapped' = (overlapped \/ InFlight # {})
  BY Zenon DEF Begin, exchangeVars
<1>3. Counted'
  BY <1>1, <1>2 DEF Counted, Others
<1>4. ASSUME ~overlapped'
      PROVE  /\ \A a, b \in InFlight' : a = b
             /\ Latest' /\ ToStore'
             /\ \A h \in Counters : used'[h] = Stored(reported'[h].value)
  <2>1. ~overlapped /\ InFlight = {}
    BY <1>2, <1>4, Zenon
  <2>2. \A d \in Calls : call'[d].pc \notin {"processed", "counting"}
    BY <1>1, <2>1 DEF InFlight, Others
  <2>3. \A a, b \in InFlight' : a = b
    BY <1>1, <2>1 DEF InFlight, Others
  <2>4. \A h \in Counters : ~Waits(h)
    BY <2>1 DEF Waits, InFlight
  <2> QED BY <1>2, <2>1, <2>2, <2>3, <2>4 DEF Sequential, Latest, ToStore
<1> QED BY <1>3, <1>4 DEF Sequential

\* The exchange answers: its count is new, so the answer is the latest.
LEMMA ProcessesCounts ==
  ASSUME Frames, Counted, Sequential, NEW c \in Calls, Processes(c)
  PROVE  Counted' /\ Sequential'
<1>1. /\ Others(c) /\ call[c].pc = "sent" /\ call'[c].pc = "processed"
      /\ weight' = weight + 1
  BY ProcessesFrame
<1>2. IsHeaders(call'[c].reply.headers) /\ call'[c].reply.at = weight + 1
  <2>1. PICK e, w : call'[c].reply = Answer(c, e, w)
    BY ProcessesFrame
  <2>2. PICK placed : /\ Answer(c, e, w).headers = HeadersOf(call[c], w, placed)
                      /\ Answer(c, e, w).at = weight + 1
    BY DEF Answer
  <2> QED BY <2>1, <2>2, AnswerHeaders
<1>3. UNCHANGED <<used, reported, overlapped>>
  BY Zenon DEF Processes
<1>4. Counted'
  BY <1>1, <1>2, <1>3 DEF Counted, Others
<1>5. ASSUME ~overlapped
      PROVE  /\ \A a, b \in InFlight' : a = b
             /\ Latest' /\ ToStore'
             /\ \A h \in Counters : used'[h] = Stored(reported'[h].value) \/ Waits(h)'
  <2>1. InFlight' = InFlight
    BY <1>1 DEF InFlight, Others
  <2>2. Latest'
    BY <1>1, <1>2, <1>3, <1>5 DEF Sequential, Latest, Others, Counted
  <2>3. ToStore'
    BY <1>1, <1>3, <1>5 DEF Sequential, ToStore, Others
  <2>4. \A h \in Counters : Waits(h)' <=> Waits(h)
    BY <1>1 DEF Waits, Others
  <2> QED BY <1>3, <1>5, <2>1, <2>2, <2>3, <2>4 DEF Sequential
<1> QED BY <1>3, <1>4, <1>5 DEF Sequential

\* The request is intercepted, sent again or given up: nothing is said.
LEMMA FaultCounts ==
  ASSUME Frames, Counted, Sequential, NEW c \in Calls,
         Intercepted(c) \/ SendsAgain(c) \/ TransportFails(c)
  PROVE  Counted' /\ Sequential'
<1>1. /\ Others(c) /\ call[c].pc \in {"sent", "processed"}
      /\ call'[c].pc \in {"sent", "processed", "done"}
      /\ call'[c].pc = "processed" => call'[c].reply.headers = <<>> /\ call'[c].reply.at = 0
  BY GoesOnFrame DEF GoesOn
<1>2. UNCHANGED <<used, reported, overlapped, weight>>
  BY Zenon DEF Intercepted, SendsAgain, TransportFails, exchangeVars
<1>3. Counted'
  BY <1>1, <1>2 DEF Counted, Others, IsHeaders
<1>4. ASSUME ~overlapped
      PROVE  /\ \A a, b \in InFlight' : a = b
             /\ Latest' /\ ToStore'
             /\ \A h \in Counters : used'[h] = Stored(reported'[h].value) \/ Waits(h)'
  <2>1. InFlight' \subseteq InFlight
    BY <1>1 DEF InFlight, Others
  <2>2. Latest' /\ ToStore'
    BY <1>1, <1>2, <1>4 DEF Sequential, Latest, ToStore, Others
  <2>3. \A h \in Counters : Waits(h)' <=> Waits(h)
    BY <1>1 DEF Waits, Others
  <2> QED BY <1>2, <1>4, <2>1, <2>2, <2>3 DEF Sequential
<1> QED BY <1>2, <1>3, <1>4 DEF Sequential

\* The answer arrives.
LEMMA ArrivesCounts ==
  ASSUME Frames, Counted, Sequential, NEW c \in Calls, Arrives(c)
  PROVE  Counted' /\ Sequential'
<1> DEFINE hs == call[c].reply.headers
           n == call[c].reply.at
<1>1. /\ Others(c) /\ call[c].pc = "processed" /\ call'[c].pc = "counting"
      /\ call'[c].reply = call[c].reply
  BY GoesOnFrame DEF GoesOn
<1>2. UNCHANGED <<used, overlapped, weight>>
  BY DEF Arrives, exchangeVars
<1> DEFINE New(h) == CHOOSE v \in Left(hs) : v[1] = h
<1>3. \A h \in Counters :
        reported'[h] = IF reported[h].at < n /\ \E v \in Left(hs) : v[1] = h
                       THEN [at |-> n, value |-> New(h)[2]] ELSE reported[h]
  BY DEF Arrives, Left
<1>4. IsHeaders(hs) /\ n \in 0..weight
  BY <1>1 DEF Counted
<1> HIDE DEF hs, n
<1>5. \A p \in Left(hs) : New(p[1]) = p
  BY <1>4, HeadersFacts
<1> HIDE DEF New
<1>6. ASSUME NEW h \in Counters PROVE reported'[h].at \in 0..weight
  <2>1. CASE reported[h].at < n /\ \E v \in Left(hs) : v[1] = h
    <3>1. reported'[h] = [at |-> n, value |-> New(h)[2]]
      BY <1>3, <2>1
    <3> QED BY <1>4, <3>1
  <2>2. CASE ~(reported[h].at < n /\ \E v \in Left(hs) : v[1] = h)
    <3>1. reported'[h] = reported[h]
      BY <1>3, <2>2, Zenon
    <3> QED BY <3>1 DEF Counted
  <2> QED BY <2>1, <2>2
<1>7. Counted'
  BY <1>1, <1>2, <1>4, <1>6 DEF Counted, Others
<1>8. ASSUME ~overlapped
      PROVE  /\ \A a, b \in InFlight' : a = b
             /\ Latest' /\ ToStore'
             /\ \A h \in Counters : used'[h] = Stored(reported'[h].value) \/ Waits(h)'
  <2>1. InFlight' = InFlight /\ \A d \in InFlight : d = c
    BY <1>1, <1>8 DEF InFlight, Others, Sequential
  <2>2. \A d \in Calls \ {c} : call'[d].pc \notin {"processed", "counting"}
    BY <1>1, <2>1 DEF InFlight, Others
  <2>3. Latest'
    BY <1>1, <2>2 DEF Latest
  <2>4. ASSUME NEW p \in Left(hs)
        PROVE  p[2] = reported'[p[1]].value
    <3>1. p[1] \in Counters /\ hs # <<>>
      BY <1>4, HeadersFacts, Zenon
    <3>2. reported[p[1]].at < n
      BY <1>1, <1>8, <3>1 DEF Sequential, Latest, hs, n
    <3>3. reported'[p[1]] = [at |-> n, value |-> New(p[1])[2]]
      BY <1>3, <3>1, <3>2
    <3> QED BY <1>5, <3>3
  <2>5. ToStore'
    BY <1>1, <2>2, <2>4 DEF ToStore, hs
  <2>6. ASSUME NEW h \in Counters, \A p \in Left(hs) : p[1] # h
        PROVE  used'[h] = Stored(reported'[h].value)
    <3>1. ~Waits(h) /\ reported'[h] = reported[h]
      BY <1>1, <1>3, <2>1, <2>6, Zenon DEF Waits, InFlight
    <3> QED BY <1>2, <1>8, <3>1 DEF Sequential
  <2>7. ASSUME NEW h \in Counters, \E p \in Left(hs) : p[1] = h
        PROVE  Waits(h)'
    BY <1>1, <2>7 DEF Waits, hs
  <2> QED BY <1>8, <2>1, <2>3, <2>5, <2>6, <2>7 DEF Sequential
<1> QED BY <1>2, <1>7, <1>8 DEF Sequential

\* One header is stored.
LEMMA CountsCounts ==
  ASSUME Frames, Counted, Sequential, NEW c \in Calls, Counts(c)
  PROVE  Counted' /\ Sequential'
<1> DEFINE hs == call[c].reply.headers
<1>1. /\ Others(c) /\ call[c].pc = "counting" /\ call'[c].pc = "counting"
      /\ call'[c].reply.headers = Tail(hs) /\ call'[c].reply.at = call[c].reply.at
  BY GoesOnFrame DEF GoesOn
<1>2. /\ UNCHANGED <<reported, overlapped, weight>> /\ hs # <<>>
      /\ used' = [used EXCEPT ![Head(hs)[1]] = Stored(Head(hs)[2])]
  BY DEF Counts, exchangeVars
<1>3. IsHeaders(hs)
  BY <1>1 DEF Counted
<1> HIDE DEF hs
<1>4. /\ Head(hs) \in Left(hs) /\ IsHeaders(Tail(hs))
      /\ Left(Tail(hs)) = Left(hs) \ {Head(hs)} /\ Head(hs)[1] \in Counters
  BY <1>2, <1>3, HeadersFacts
<1>5. Counted'
  BY <1>1, <1>2, <1>4, Zenon DEF Counted, Others
<1>6. ASSUME ~overlapped
      PROVE  /\ \A a, b \in InFlight' : a = b
             /\ Latest' /\ ToStore'
             /\ \A h \in Counters : used'[h] = Stored(reported'[h].value) \/ Waits(h)'
  <2>1. InFlight' = InFlight
    BY <1>1 DEF InFlight, Others
  <2>2. Latest'
    BY <1>1, <1>2, <1>6 DEF Sequential, Latest, Others
  <2>3. ToStore'
    BY <1>1, <1>2, <1>4, <1>6 DEF Sequential, ToStore, Others, hs
  <2>4. ASSUME NEW h \in Counters
        PROVE  used'[h] = Stored(reported'[h].value) \/ Waits(h)'
    <3>1. CASE h = Head(hs)[1]
      <4>1. Head(hs)[2] = reported[h].value
        BY <1>1, <1>4, <1>6, <3>1 DEF Sequential, ToStore, hs
      <4> QED BY <1>2, <3>1, <4>1 DEF Counted
    <3>2. CASE h # Head(hs)[1]
      <4>1. used'[h] = used[h]
        BY <1>2, <3>2 DEF Counted
      <4>2. Waits(h) => Waits(h)'
        BY <1>1, <1>4, <3>2 DEF Waits, Others, hs
      <4> QED BY <1>2, <1>6, <4>1, <4>2 DEF Sequential
    <3> QED BY <3>1, <3>2
  <2> QED BY <1>6, <2>1, <2>2, <2>3, <2>4 DEF Sequential
<1> QED BY <1>2, <1>5, <1>6 DEF Sequential

\* The call ends, with no header left to store, or returns.
LEMMA EndCounts ==
  ASSUME Frames, Counted, Sequential, NEW c \in Calls, Finishes(c) \/ Returns(c)
  PROVE  Counted' /\ Sequential'
<1>1. /\ Others(c) /\ call'[c].pc \in {"done", "idle"}
      /\ call[c].pc = "done" \/ (call[c].pc = "counting" /\ call[c].reply.headers = <<>>)
  BY GoesOnFrame DEF GoesOn, Finishes
<1>2. UNCHANGED <<used, reported, overlapped, weight>>
  BY DEF Finishes, Returns, exchangeVars
<1>3. Counted'
  BY <1>1, <1>2 DEF Counted, Others
<1>4. ASSUME ~overlapped
      PROVE  /\ \A a, b \in InFlight' : a = b
             /\ Latest' /\ ToStore'
             /\ \A h \in Counters : used'[h] = Stored(reported'[h].value) \/ Waits(h)'
  <2>1. InFlight' \subseteq InFlight
    BY <1>1 DEF InFlight, Others
  <2>2. Latest' /\ ToStore'
    BY <1>1, <1>2, <1>4 DEF Sequential, Latest, ToStore, Others
  <2>3. \A h \in Counters : Waits(h) => Waits(h)'
    BY <1>1 DEF Waits, Others, Left
  <2> QED BY <1>2, <1>4, <2>1, <2>2, <2>3 DEF Sequential
<1> QED BY <1>2, <1>3, <1>4 DEF Sequential

\* A program that makes one call at a time always finds in each counter what the
\* last response that named it said: for any calls, headers that are missing or
\* malformed, and any faults in between.
THEOREM CountersAreExact == Spec => []SequentialIsExact
<1>1. Init => Counted /\ Sequential
  BY DEF Init, Counted, Sequential, Latest, ToStore, InFlight, IdleFrame, Stored
<1>2. Requests /\ Counted /\ Sequential /\ [Next]_vars => Counted' /\ Sequential'
  <2> SUFFICES ASSUME Requests, Counted, Sequential, [Next]_vars
               PROVE  Counted' /\ Sequential'
    OBVIOUS
  <2> USE DEF Requests
  <2>1. ASSUME NEW c \in Calls, GoesOn(c) PROVE Counted' /\ Sequential'
    BY <2>1, ProcessesCounts, FaultCounts, ArrivesCounts, CountsCounts, EndCounts
       DEF GoesOn
  <2>2. CASE Blocks \/ UNCHANGED vars
    BY <2>2 DEF Blocks, vars, exchangeVars, Counted, Sequential, Latest, ToStore,
       Waits, InFlight
  <2> QED BY <2>1, <2>2, BeginCounts, NextIsOneOf
<1>3. Sequential => SequentialIsExact
  BY DEF Sequential, Waits, InFlight, SequentialIsExact
<1> QED BY <1>1, <1>2, <1>3, RequestsInOrder, PTL DEF Spec

-----------------------------------------------------------------------------
(* Cancellations *)

\* The orders of the exchange are a sequence.
Listing == orders \in Seq({orders[i] : i \in DOMAIN orders})

\* The two operations that delete, and what is not one of them.
LEMMA DeletingOps ==
  ASSUME NEW op \in DOMAIN Ops, Ops[op].via = "signed_delete"
  PROVE  \/ /\ op = "cancel_order"
            /\ Ops[op].path = "order" /\ Ops[op].takes = "cancel"
         \/ /\ op = "cancel_all_orders"
            /\ Ops[op].path = "openOrders" /\ Ops[op].takes = "symbol"
<1>1. op \in DOMAIN BasicOps => BasicOps[op].via # "signed_delete"
  BY DEF BasicOps, Operation
<1>2. op \in DOMAIN MarketDataOps => MarketDataOps[op].via # "signed_delete"
  BY DEF MarketDataOps, Operation
<1>3. op \in DOMAIN AccountOps => AccountOps[op].via # "signed_delete"
  BY DEF AccountOps, Operation
<1>4. op \in DOMAIN TradingOps => TradingOps[op].via # "signed_delete"
  BY DEF TradingOps, Operation
<1>5. op \in DOMAIN CancelOps /\ Ops[op] = CancelOps[op]
  BY <1>1, <1>2, <1>3, <1>4, Zenon DEF Ops, Joined
<1> QED BY <1>5 DEF CancelOps, Operation

\* What the exchange does to its orders.
LEMMA EffectOnOrders ==
  ASSUME NEW f, NEW e \in Effect(f)
  PROVE  \/ e.orders = orders
         \/ /\ Ops[f.op].via = "signed_post" /\ Ops[f.op].path = "order"
            /\ Cardinality(Open \cup Filled) # Funds
            /\ \E status \in Statuses : e = Placing(f, status)
         \/ /\ Ops[f.op].via = "signed_delete" /\ Ops[f.op].path = "order"
            /\ e.orders = Cancelled(Named(f.wire.params) \cap Open)
         \/ /\ Ops[f.op].via = "signed_delete" /\ Ops[f.op].path = "openOrders"
            /\ e.orders = Cancelled(OfSymbol(f.wire.params) \cap Open)
<1> DEFINE op == Ops[f.op]
<1>1. CASE op.via = "signed_post" /\ op.path \in {"order", "order/test"}
  <2>1. CASE op.path = "order/test"
    BY <1>1, <2>1 DEF Effect
  <2>2. CASE op.path = "order"
    <3>1. \/ e.orders = orders
          \/ /\ Cardinality(Open \cup Filled) # Funds
             /\ \E status \in Statuses : e = Placing(f, status)
      BY <1>1, <2>2 DEF Effect
    <3> QED BY <1>1, <2>2, <3>1
  <2> QED BY <1>1, <2>1, <2>2
<1>2. CASE op.via = "signed_delete" /\ op.path = "order"
  BY <1>2 DEF Effect
<1>3. CASE op.via = "signed_delete" /\ op.path = "openOrders"
  BY <1>3 DEF Effect
<1>4. CASE /\ ~(op.via = "signed_post" /\ op.path \in {"order", "order/test"})
           /\ ~(op.via = "signed_delete" /\ op.path = "order")
           /\ ~(op.via = "signed_delete" /\ op.path = "openOrders")
  BY <1>4 DEF Effect
<1> QED BY <1>1, <1>2, <1>3, <1>4, Zenon

\* An order that is placed goes to the end of them.
LEMMA PlacingAppends ==
  ASSUME NEW f, NEW status
  PROVE  LET o == PlacedOrder(f.wire.params, Len(orders) + 1, status)
         IN  /\ Placing(f, status).orders = Append(orders, [json |-> o, asked |-> f.arg])
             /\ Placing(f, status).body = Object(o)
  BY Zenon DEF Placing

\* The parameters of a cancellation name the order as its arguments do.
LEMMA CancelParams ==
  ASSUME NEW arg \in OrderNames
  PROVE  LET params == Timed(build_cancel_params(arg))
         IN  /\ "symbol" \in DOMAIN params /\ params.symbol = arg.symbol
             /\ "orderId" \in DOMAIN params => params.orderId = arg.order_id
             /\ "origClientOrderId" \in DOMAIN params =>
                  params.origClientOrderId = arg.client_order_id
<1> DEFINE all == [symbol |-> arg.symbol, orderId |-> arg.order_id,
                   origClientOrderId |-> arg.client_order_id]
           absent == (IF arg.order_id = None THEN {"orderId"} ELSE {})
             \cup (IF arg.client_order_id = "" THEN {"origClientOrderId"} ELSE {})
           p == build_cancel_params(arg)
<1>1. p = [x \in {"symbol", "orderId", "origClientOrderId"} \ absent |-> all[x]]
  BY DEF build_cancel_params, Present, Restrict
<1>2. "symbol" \notin absent
  OBVIOUS
<1> HIDE DEF absent, p
<1>3. /\ "symbol" \in DOMAIN p /\ p["symbol"] = arg.symbol
      /\ "orderId" \in DOMAIN p => p["orderId"] = arg.order_id
      /\ "origClientOrderId" \in DOMAIN p => p["origClientOrderId"] = arg.client_order_id
  BY <1>1, <1>2
<1>4. \A x \in DOMAIN Timed(p) : x # "timestamp" => x \in DOMAIN p
  BY DEF Timed, Joined
<1>5. \A x \in DOMAIN p : x # "timestamp" => x \in DOMAIN Timed(p) /\ Timed(p)[x] = p[x]
  BY DEF Timed, Joined
<1> QED BY <1>3, <1>4, <1>5 DEF p

\* The map that is sent holds the parameters and the time.
LEMMA SentParams ==
  ASSUME NEW f, HasRequest(f), Signed(f.op)
  PROVE  f.wire.params = Timed(ParamsOf(Ops[f.op].takes, f.arg))
<1> DEFINE params == ParamsOf(Ops[f.op].takes, f.arg)
<1>1. f.wire \in Sent(f.op, params)
  BY DEF HasRequest
<1> HIDE DEF params
<1>2. f.wire.params = Timed(params)
  BY <1>1 DEF Sent, sign_parameters
<1> QED BY <1>2 DEF params
\* An open order stays open unless its cancellation was processed.
LEMMA CancelStep ==
  ASSUME Listing, Requests, NEW c \in Calls, Processes(c), NEW i \in Open,
         orders'[i].json.status = "CANCELED"
  PROVE  /\ call[c].pc = "sent" /\ call[c] # call'[c]
         /\ call[c].arg.symbol = orders[i].json.symbol
         /\ \/ call[c].op = "cancel_all_orders"
            \/ /\ call[c].op = "cancel_order"
               /\ \/ call[c].arg.order_id = i
                  \/ call[c].arg.client_order_id = orders[i].json.clientOrderId
<1> DEFINE f == call[c]
           params == f.wire.params
<1>1. call[c].pc = "sent" /\ call[c] # call'[c]
  BY ProcessesFrame, Zenon DEF Requests
<1>2. HasRequest(f)
  BY <1>1 DEF Requests
<1>3. PICK e : orders' = e.orders /\ (e.orders = orders \/ e \in Effect(f))
  BY ProcessesFrame DEF Requests
<1> HIDE DEF f
<1>4. i \in DOMAIN orders /\ orders[i].json.status = "NEW"
  BY DEF Open
<1>5. orders' # orders
  BY <1>4
<1>6. \A o : orders' # Append(orders, o)
  BY <1>4 DEF Listing
<1>7. \/ /\ Ops[f.op].via = "signed_delete" /\ Ops[f.op].path = "order"
         /\ orders' = Cancelled(Named(params) \cap Open)
      \/ /\ Ops[f.op].via = "signed_delete" /\ Ops[f.op].path = "openOrders"
         /\ orders' = Cancelled(OfSymbol(params) \cap Open)
  <2>1. e \in Effect(f)
    BY <1>3, <1>5
  <2>2. \A status : \E o : Placing(f, status).orders = Append(orders, o)
    BY PlacingAppends, Zenon
  <2> QED BY <1>3, <1>5, <1>6, <2>1, <2>2, EffectOnOrders, Zenon
<1>8. \A S : orders' = Cancelled(S) => i \in S
  BY <1>4 DEF Cancelled
<1>9. params = Timed(ParamsOf(Ops[f.op].takes, f.arg)) /\ f.op \in DOMAIN Ops
      /\ f.arg \in ArgsOf(Ops[f.op].takes)
  BY <1>2, <1>7, SentParams DEF Signed, HasRequest
<1>10. CASE f.op = "cancel_order" /\ Ops[f.op].path = "order" /\ Ops[f.op].takes = "cancel"
  <2>1. i \in Named(params)
    BY <1>7, <1>8, <1>10
  <2>2. f.arg \in OrderNames /\ params = Timed(build_cancel_params(f.arg))
    BY <1>9, <1>10 DEF ArgsOf, ParamsOf
  <2>3. /\ "symbol" \in DOMAIN params /\ params.symbol = f.arg.symbol
        /\ "orderId" \in DOMAIN params => params.orderId = f.arg.order_id
        /\ "origClientOrderId" \in DOMAIN params =>
             params.origClientOrderId = f.arg.client_order_id
    BY <2>2, CancelParams
  <2> HIDE DEF params
  <2>4. /\ f.arg.symbol = orders[i].json.symbol
        /\ f.arg.order_id = i \/ f.arg.client_order_id = orders[i].json.clientOrderId
    BY <2>1, <2>3 DEF Named, Given
  <2> QED BY <1>1, <1>10, <2>4 DEF f
<1>11. CASE f.op = "cancel_all_orders" /\ Ops[f.op].path = "openOrders"
            /\ Ops[f.op].takes = "symbol"
  <2>1. i \in OfSymbol(params)
    BY <1>7, <1>8, <1>11
  <2>2. f.arg \in [symbol : Symbols] /\ params = Timed(f.arg)
    BY <1>9, <1>11 DEF ArgsOf, ParamsOf
  <2>3. "symbol" \in DOMAIN params /\ params.symbol = f.arg.symbol
    BY <2>2 DEF Timed, Joined
  <2> HIDE DEF params
  <2>4. f.arg.symbol = orders[i].json.symbol
    BY <2>1, <2>3 DEF OfSymbol, Given
  <2> QED BY <1>1, <1>11, <2>4 DEF f
<1> QED BY <1>7, <1>9, <1>10, <1>11, DeletingOps

\* The orders stay a sequence.
LEMMA ListingStep ==
  ASSUME Listing, Requests, [Next]_vars
  PROVE  Listing'
<1>1. ASSUME NEW c \in Calls, Processes(c) PROVE Listing'
  <2>1. PICK e : orders' = e.orders /\ (e.orders = orders \/ e \in Effect(call[c]))
    BY <1>1, ProcessesFrame DEF Requests
  <2>2. ASSUME NEW o, orders' = Append(orders, o) PROVE Listing'
    BY <2>2 DEF Listing
  <2>3. ASSUME NEW S, orders' = Cancelled(S) PROVE Listing'
    BY <2>3 DEF Listing, Cancelled
  <2>4. CASE orders' = orders
    BY <2>4 DEF Listing
  <2>5. \A status : \E o : Placing(call[c], status).orders = Append(orders, o)
    BY PlacingAppends, Zenon
  <2>6. \/ orders' = orders \/ (\E o : orders' = Append(orders, o))
        \/ \E S : orders' = Cancelled(S)
    <3> DEFINE f == call[c]
    <3> HIDE DEF f
    <3>1. CASE e \in Effect(f)
      <4>1. \/ e.orders = orders
            \/ \E status \in Statuses : e = Placing(f, status)
            \/ e.orders = Cancelled(Named(f.wire.params) \cap Open)
            \/ e.orders = Cancelled(OfSymbol(f.wire.params) \cap Open)
        BY <3>1, EffectOnOrders, Zenon
      <4> QED BY <2>1, <2>5, <4>1, Zenon DEF f
    <3> QED BY <2>1, <3>1, Zenon DEF f
  <2> QED BY <2>2, <2>3, <2>4, <2>6, Zenon
<1>2. (\A c \in Calls : ~Processes(c)) => orders' = orders
  BY NextIsOneOf, Zenon DEF Begin, GoesOn, Intercepted, SendsAgain, TransportFails, Arrives,
     Counts, Finishes, Returns, Blocks, exchangeVars, vars
<1> QED BY <1>1, <1>2 DEF Listing

\* An order is cancelled only by a request that names it, or by one for all the
\* orders of its symbol, whatever the order of the answers and the faults.
THEOREM CancelsWhatIsNamed == Spec => OnlyNamedIsCancelled
<1>1. Init => Listing
  BY DEF Init, Listing
<1>2. Listing /\ Requests /\ [Next]_vars => Listing'
  BY ListingStep
<1>3. ASSUME Listing, Requests, Next, NEW i \in Open,
             orders'[i].json.status = "CANCELED"
      PROVE  \E c \in Calls : Processes(c)
  <2>1. orders' # orders
    BY <1>3 DEF Open
  <2> QED
    BY <1>3, <2>1, NextIsOneOf, Zenon DEF Begin, GoesOn, Intercepted, SendsAgain,
       TransportFails, Arrives, Counts, Finishes, Returns, Blocks, exchangeVars
<1>4. Listing /\ Requests /\ [Next]_vars =>
        [\A i \in Open :
           orders'[i].json.status = "CANCELED" =>
             \E c \in Calls :
               LET f == call[c]
               IN  /\ f.pc = "sent" /\ f # call'[c]
                   /\ f.arg.symbol = orders[i].json.symbol
                   /\ \/ f.op = "cancel_all_orders"
                      \/ /\ f.op = "cancel_order"
                         /\ \/ f.arg.order_id = i
                            \/ f.arg.client_order_id = orders[i].json.clientOrderId]_vars
  BY <1>3, CancelStep
<1> QED BY <1>1, <1>2, <1>4, RequestsInOrder, PTL DEF Spec, OnlyNamedIsCancelled

=============================================================================
