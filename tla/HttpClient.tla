------------------------------ MODULE HttpClient ------------------------------
(***************************************************************************)
(* The connection pool of bintrade::rest::detail::HttpClient (src/rest/    *)
(* detail/http_client.cpp) and the requests that run on it.                *)
(*                                                                         *)
(* All coroutines run on the one thread of the io_context, so an action is *)
(* what a coroutine does between two suspensions.  A pooled connection is  *)
(* a heap object, here an address of Slots that may be used again after it *)
(* is freed.  pool_ is a vector of pointers: acquire_connection() keeps a  *)
(* reference to an element of it while it connects, modelled as the        *)
(* element's index and the vector's capacity, which names the buffer (a    *)
(* vector never shrinks, and growing it moves it to another buffer).       *)
(*                                                                         *)
(* The model stops where the code's behaviour becomes undefined: the      *)
(* variable undefined is then set and no action is enabled.                *)
(***************************************************************************)
EXTENDS Integers, Sequences, FiniteSetsExt

CONSTANTS
  Requests,     \* the calls of get(), post(), del() and their async forms
  Slots,        \* the addresses of pooled connections
  NoSlot,
  PoolSize,     \* pool_size_
  InFlight      \* how many calls an application may have in flight at once

ASSUME PoolAssumption ==
  /\ PoolSize \in Nat \ {0}
  /\ InFlight \subseteq Nat \ {0}
  /\ NoSlot \notin Slots

VARIABLES
  pool,       \* pool_
  capacity,   \* the capacity of that vector
  slot,       \* the connections by address
  req,        \* the requests: the frame of execute() and its callees
  maxInFlight, \* the calls this application has in flight at most
  undefined   \* the code's behaviour is undefined

vars == <<pool, capacity, slot, req, maxInFlight, undefined>>

\* A connection: its flags, whether the server has closed it, and the requests
\* written to it whose responses have not been read.
Connection ==
  [inUse : BOOLEAN, connected : BOOLEAN, closed : BOOLEAN,
   owed : SUBSET Requests]

NewConnection ==
  [inUse |-> TRUE, connected |-> FALSE, closed |-> FALSE, owed |-> {}]

Causes == {"none", "reset", "timeout", "other"}

\* pc: where the request is; attempt: the loop's counter; conn: the connection
\* it uses or opens; index and buffer: the reference into pool_ it holds while
\* it opens one; overflow: that connection is new; pre: was_preconnected.
\* History: fresh, it opened conn itself; cause, of its last transport error;
\* first, what made it retry.
Frame ==
  [pc : {"idle", "connecting", "requesting", "failed"},
   attempt : 0..1, conn : Slots \cup {NoSlot}, index : Nat, buffer : Nat,
   overflow : BOOLEAN, pre : BOOLEAN, fresh : BOOLEAN, cause : Causes,
   first : [fresh : BOOLEAN, cause : Causes]]

NoRetry == [fresh |-> FALSE, cause |-> "none"]

IdleFrame ==
  [pc |-> "idle", attempt |-> 0, conn |-> NoSlot, index |-> 0, buffer |-> 0,
   overflow |-> FALSE, pre |-> FALSE, fresh |-> FALSE, cause |-> "none",
   first |-> NoRetry]

\* What remains of a call that ended in an exception.
FailedFrame(r, cause) ==
  [IdleFrame EXCEPT !.pc = "failed", !.attempt = req[r].attempt,
     !.fresh = req[r].fresh, !.cause = cause]

Init ==
  /\ pool = <<>>
  /\ capacity = 0
  /\ slot = [s \in Slots |-> NewConnection]
  /\ req = [r \in Requests |-> IdleFrame]
  /\ maxInFlight \in InFlight
  /\ undefined = FALSE

\* Operations of the vector.
back(pl) == pl[Len(pl)]
pop_back(pl) == SubSeq(pl, 1, Len(pl) - 1)
erase(pl, i) == SubSeq(pl, 1, i - 1) \o SubSeq(pl, i + 1, Len(pl))

Active == {r \in Requests : req[r].pc \in {"connecting", "requesting"}}

Users(s) == {r \in Active : req[r].conn = s}

-----------------------------------------------------------------------------
(***************************************************************************)
(* acquire_connection() up to its first suspension, then, when it needs    *)
(* none, execute() up to the write of the request.  The arguments are the  *)
(* pool and the connections as the caller leaves them.                     *)
(***************************************************************************)
\* Mutated: the connection is not marked as taken.
WriteUnmarked(sl, r, s) == [sl EXCEPT ![s].owed = @ \cup {r}]

\* The connection is taken (line 177) and the request is written to it (309).
Write(sl, r, s) == [sl EXCEPT ![s].inUse = TRUE, ![s].owed = @ \cup {r}]

WasPreconnected(attempt, pl, sl, s) ==
  attempt = 0 /\ (Len(pl) > 1 \/ ~sl[s].connected)

\* The capacity of a vector of n elements after one more: doubled when full.
Grown(n) == IF n < capacity THEN capacity
            ELSE IF capacity = 0 THEN 1 ELSE 2 * capacity

\* Mutated: one past the new element.
NewIndexPastEnd(pl) == Len(pl) + 2

\* The reference to the element emplace_back() adds.
NewIndex(pl) == Len(pl) + 1

Acquire(r, attempt, first, pl, sl) ==
  LET idle == {i \in DOMAIN pl : ~sl[pl[i]].inUse}
      ready == {i \in idle : sl[pl[i]].connected}
      start == [IdleFrame EXCEPT !.attempt = attempt, !.first = first]
  IN  CASE ready # {} ->
             LET s == pl[Min(ready)]
             IN  /\ pool' = pl
                 /\ capacity' = capacity
                 /\ slot' = Write(sl, r, s)
                 /\ req' = [req EXCEPT ![r] =
                      [start EXCEPT !.pc = "requesting", !.conn = s,
                         !.pre = WasPreconnected(attempt, pl, sl, s)]]
        [] ready = {} /\ idle # {} ->
             LET i == Min(idle)
             IN  /\ pool' = pl
                 /\ capacity' = capacity
                 /\ slot' = [sl EXCEPT ![pl[i]].inUse = TRUE]
                 /\ req' = [req EXCEPT ![r] =
                      [start EXCEPT !.pc = "connecting", !.conn = pl[i],
                         !.index = i, !.buffer = capacity]]
        [] OTHER ->
             \E s \in Slots \ Range(pl) :
               /\ pool' = Append(pl, s)
               /\ capacity' = Grown(Len(pl))
               /\ slot' = [sl EXCEPT ![s] = NewConnection]
               /\ req' = [req EXCEPT ![r] =
                    [start EXCEPT !.pc = "connecting", !.conn = s,
                       !.index = NewIndex(pl), !.buffer = Grown(Len(pl)),
                       !.overflow = TRUE]]

\* release_connection(): the pool and the connections it leaves.  A connection
\* is kept when the caller says so and the pool is not over its size.
Found(s) == s \in Range(pool)

Place(s) == CHOOSE i \in DOMAIN pool : pool[i] = s

\* Mutated: keep is ignored.
KeptAnyway(keep) == Len(pool) <= PoolSize

\* Mutated: the pool keeps one connection too many.
KeptOneMore(keep) == keep /\ Len(pool) <= PoolSize + 1

Kept(keep) == keep /\ Len(pool) <= PoolSize

ReleasedPool(s, keep) ==
  IF Found(s) /\ ~Kept(keep) THEN erase(pool, Place(s)) ELSE pool

\* Mutated: a connection that is kept stays in use.
ReleasedSlotsInUse(sl, s, keep) ==
  IF Found(s) /\ ~Kept(keep) THEN [sl EXCEPT ![s] = NewConnection] ELSE sl

ReleasedSlots(sl, s, keep) ==
  CASE ~Found(s) -> sl
    [] Found(s) /\ Kept(keep) -> [sl EXCEPT ![s].inUse = FALSE]
    [] Found(s) /\ ~Kept(keep) -> [sl EXCEPT ![s] = NewConnection]

-----------------------------------------------------------------------------
\* A call reaches the io_context, which runs execute().
Start(r) ==
  /\ ~undefined
  /\ r \notin Active
  /\ Cardinality(Active) < maxInFlight
  /\ Acquire(r, 0, NoRetry, pool, slot)
  /\ UNCHANGED <<maxInFlight, undefined>>

\* do_connect() succeeds; acquire_connection() reads its reference.  An erase
\* before its element has invalidated it (another element is there now), and so
\* has a move to another buffer, where the freed memory may still be intact.
ReferenceHolds(r) ==
  /\ req[r].buffer = capacity
  /\ req[r].index <= Len(pool)
  /\ pool[req[r].index] = req[r].conn

ConnectOk(r) ==
  LET s == req[r].conn
      connected == [slot EXCEPT ![s].connected = TRUE]
  IN  /\ ~undefined
      /\ req[r].pc = "connecting"
      /\ \/ /\ ReferenceHolds(r) \/ req[r].buffer # capacity
            /\ slot' = Write(connected, r, s)
            /\ req' = [req EXCEPT ![r].pc = "requesting", ![r].fresh = TRUE,
                 ![r].pre = WasPreconnected(req[r].attempt, pool, connected, s)]
            /\ UNCHANGED undefined
         \/ /\ ~ReferenceHolds(r)
            /\ undefined' = TRUE
            /\ UNCHANGED <<slot, req>>
      /\ UNCHANGED <<pool, capacity, maxInFlight>>

\* do_connect() throws.  For a new connection acquire_connection() pops the last
\* element of pool_, whosever it is, and rethrows; execute() does not catch it.
ConnectFail(r) ==
  LET last == back(pool)
  IN  /\ ~undefined
      /\ req[r].pc = "connecting"
      /\ req' = [req EXCEPT ![r] = FailedFrame(r, "other")]
      /\ IF req[r].overflow
         THEN /\ pool' = pop_back(pool)
              /\ slot' = [slot EXCEPT ![last] = NewConnection]
              /\ undefined' = (Users(last) \ {r} # {})
         ELSE UNCHANGED <<pool, slot, undefined>>
      /\ UNCHANGED <<capacity, maxInFlight>>

\* The response is read; keep is res_keep_alive() of its headers.
Respond(r, keep) ==
  LET s == req[r].conn
  IN  /\ ~undefined
      /\ req[r].pc = "requesting"
      /\ ~slot[s].closed
      /\ pool' = ReleasedPool(s, keep)
      /\ slot' = ReleasedSlots([slot EXCEPT ![s].owed = @ \ {r}], s, keep)
      /\ req' = [req EXCEPT ![r] = IdleFrame]
      /\ UNCHANGED <<capacity, maxInFlight, undefined>>

\* The write or the read fails: a connection the server closed (reset or EOF), a
\* timeout (also a system_error), or another exception.  execute() releases the
\* connection and, on the first attempt, may go round its loop.
\* Mutated: every attempt that fails is retried.
RetriedAlways(r, cause) == cause \in {"reset", "timeout"}

Retried(r, cause) ==
  cause \in {"reset", "timeout"} /\ req[r].pre /\ req[r].attempt = 0

\* Mutated: the retry starts the loop again from its first attempt.
RequestFailsNoCount(r, cause) ==
  LET s == req[r].conn
  IN  /\ ~undefined
      /\ req[r].pc = "requesting"
      /\ cause = "reset" => slot[s].closed
      /\ IF Retried(r, cause)
         THEN Acquire(r, 0, NoRetry, ReleasedPool(s, FALSE),
                      ReleasedSlots(slot, s, FALSE))
         ELSE /\ pool' = ReleasedPool(s, FALSE)
              /\ slot' = ReleasedSlots(slot, s, FALSE)
              /\ req' = [req EXCEPT ![r] = FailedFrame(r, cause)]
              /\ UNCHANGED capacity
      /\ UNCHANGED <<maxInFlight, undefined>>

RequestFails(r, cause) ==
  LET s == req[r].conn
  IN  /\ ~undefined
      /\ req[r].pc = "requesting"
      /\ cause = "reset" => slot[s].closed
      /\ IF Retried(r, cause)
         THEN Acquire(r, req[r].attempt + 1, [fresh |-> req[r].fresh, cause |-> cause],
                      ReleasedPool(s, FALSE), ReleasedSlots(slot, s, FALSE))
         ELSE /\ pool' = ReleasedPool(s, FALSE)
              /\ slot' = ReleasedSlots(slot, s, FALSE)
              /\ req' = [req EXCEPT ![r] = FailedFrame(r, cause)]
              /\ UNCHANGED capacity
      /\ UNCHANGED <<maxInFlight, undefined>>

\* The server closes a connection, idle or not; the client does not look.
ServerCloses(s) ==
  /\ ~undefined
  /\ s \in Range(pool)
  /\ slot[s].connected
  /\ ~slot[s].closed
  /\ slot' = [slot EXCEPT ![s].closed = TRUE]
  /\ UNCHANGED <<pool, capacity, req, maxInFlight, undefined>>

Next ==
  \/ \E r \in Requests :
       \/ Start(r)
       \/ ConnectOk(r)
       \/ ConnectFail(r)
       \/ \E keep \in BOOLEAN : Respond(r, keep)
       \/ \E cause \in {"reset", "timeout", "other"} : RequestFails(r, cause)
  \/ \E s \in Slots : ServerCloses(s)

Spec == Init /\ [][Next]_vars

(***************************************************************************)
(* Every network operation ends: expires_after() bounds connecting,        *)
(* handshaking, writing and reading, and the resolver is assumed to answer. *)
(***************************************************************************)
Advance(r) ==
  \/ ConnectOk(r)
  \/ ConnectFail(r)
  \/ \E keep \in BOOLEAN : Respond(r, keep)
  \/ \E cause \in {"reset", "timeout", "other"} : RequestFails(r, cause)

Fairness == \A r \in Requests : WF_vars(Advance(r))

FairSpec == Spec /\ Fairness

-----------------------------------------------------------------------------
(***************************************************************************)
(* Properties.                                                             *)
(***************************************************************************)

\* The type of every variable; no connection is in the pool twice, and no
\* request makes a third attempt.
TypeOK ==
  /\ pool \in Seq(Slots)
  /\ IsInjective(pool)
  /\ capacity \in Nat
  /\ Len(pool) <= capacity
  /\ slot \in [Slots -> Connection]
  /\ req \in [Requests -> Frame]
  /\ maxInFlight \in InFlight
  /\ undefined \in BOOLEAN

\* A connection that acquire_connection() may hand out is connected and no
\* response is owed on it: a request never reads the answer to an earlier one
\* that timed out, and the loop for idle unconnected slots never finds one.
IdleIsClean ==
  \A i \in DOMAIN pool :
    LET c == slot[pool[i]]
    IN  ~c.inUse => c.connected /\ c.owed = {}

\* Two requests never use one connection.
OneUser ==
  ~undefined =>
    \A r, q \in Active : req[r].conn = req[q].conn => r = q

\* The pool never holds more than pool_size_ connections beyond what the
\* requests in flight need: overflow slots are not kept.
PoolBounded == Len(pool) <= PoolSize + Cardinality(Active)

\* An application that has one call in flight at a time loses no connection:
\* one marked in use is used by a request, so acquire_connection() will hand it
\* out again.
NoneIsLost ==
  maxInFlight = 1 =>
    \A i \in DOMAIN pool : slot[pool[i]].inUse => Users(pool[i]) # {}

\* The code's behaviour is defined: every reference and connection outlives the
\* coroutine that holds it.
Defined == ~undefined

\* Without concurrent calls it is: no reference of acquire_connection() into
\* pool_ survives an erase or a reallocation.
DefinedAlone == maxInFlight = 1 => Defined

\* A call ends with a response or an exception.
CallsEnd == \A r \in Requests : r \in Active ~> (r \notin Active \/ undefined)

\* A reset or EOF on a reused connection is not reported before the request
\* was retried.
StaleIsRetried ==
  \A r \in Requests :
    req[r].pc = "failed" /\ req[r].cause = "reset" /\ ~req[r].fresh =>
      req[r].attempt = 1

\* An error on a connection the request opened itself is not retried.
FreshIsNotRetried ==
  \A r \in Active : req[r].attempt = 1 => ~req[r].first.fresh

\* Only a connection that appears stale makes a request go out again; one that
\* timed out may have been executed.
OnlyStaleIsRetried ==
  \A r \in Active : req[r].attempt = 1 => req[r].first.cause = "reset"

\* The retry runs on a fresh connection.
RetryIsFresh ==
  \A r \in Requests :
    req[r].attempt = 1 /\ req[r].pc = "requesting" => req[r].fresh

=============================================================================
