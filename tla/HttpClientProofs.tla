-------------------------- MODULE HttpClientProofs --------------------------
(***************************************************************************)
(* Proofs about the connection pool of HttpClient, for any number of       *)
(* requests, addresses and calls in flight and for every pool size.        *)
(***************************************************************************)
EXTENDS HttpClient, SequenceTheorems, FiniteSetTheorems, WellFoundedInduction,
        TLAPS

-----------------------------------------------------------------------------
(* The first of several indices *)

\* Where < is well founded, a set of numbers has a least element.
LEMMA MinimalIsLeast ==
  ASSUME NEW R, \A x, y \in Nat : x < y => <<x, y>> \in R,
         IsWellFoundedOn(R, Nat), NEW S \in SUBSET Nat, S # {}
  PROVE  Min(S) \in S
<1>1. S \subseteq Nat
  OBVIOUS
<1>2. PICK x \in S : \A y \in S : ~(<<y, x>> \in R)
  <2>1. IsWellFoundedOn(R, Nat) /\ S \subseteq Nat /\ S # {}
    OBVIOUS
  <2>2. \A Q, U, T : IsWellFoundedOn(Q, U) /\ T \subseteq U /\ T # {} =>
                       \E x \in T : \A y \in T : ~(<<y, x>> \in Q)
    BY WFMin
  <2> QED BY ONLY Zenon, <2>1, <2>2
<1>3. \A y \in S : ~(y < x)
  BY <1>1, <1>2, Zenon
<1>4. \A y \in S : x <= y
  BY <1>1, <1>3
<1> QED BY Zenon, <1>4 DEF Min

\* The first index at which a loop over pool_ finds what it looks for.
LEMMA MinIsIn ==
  ASSUME NEW S \in SUBSET Nat, S # {}
  PROVE  Min(S) \in S
<1>1. \A x, y \in Nat : x < y => <<x, y>> \in OpToRel(<, Nat)
  BY DEF OpToRel
<1> QED BY Zenon, <1>1, NatLessThanWellFounded, MinimalIsLeast

-----------------------------------------------------------------------------
(* pool_ as a vector without repetitions *)

Vector(pl) == pl \in Seq(Slots) /\ IsInjective(pl)

\* push_back() of an address that the vector does not hold.
LEMMA Pushed ==
  ASSUME NEW pl, Vector(pl), NEW s \in Slots \ Range(pl)
  PROVE  /\ Vector(Append(pl, s))
         /\ Len(Append(pl, s)) = Len(pl) + 1
         /\ Range(Append(pl, s)) = Range(pl) \cup {s}
         /\ Append(pl, s)[Len(pl) + 1] = s
<1> DEFINE q == Append(pl, s)
           n == Len(pl)
<1>1. n \in Nat /\ DOMAIN pl = 1..n
  BY DEF Vector
<1>2. /\ q \in Seq(Slots) /\ Len(q) = n + 1 /\ DOMAIN q = 1..(n + 1)
      /\ \A j \in 1..n : q[j] = pl[j]
      /\ q[n + 1] = s
  BY <1>1 DEF Vector
<1> HIDE DEF q, n
<1>3. IsInjective(q)
  BY <1>1, <1>2 DEF Vector, IsInjective, Range
<1>4. Range(q) = Range(pl) \cup {s}
  BY <1>1, <1>2 DEF Range
<1> QED BY <1>2, <1>3, <1>4 DEF Vector, q, n

\* erase() of one element.
LEMMA Erased ==
  ASSUME NEW pl, Vector(pl), NEW i \in DOMAIN pl
  PROVE  /\ Vector(erase(pl, i))
         /\ Len(erase(pl, i)) = Len(pl) - 1
         /\ Range(erase(pl, i)) = Range(pl) \ {pl[i]}
<1> DEFINE q == erase(pl, i)
           n == Len(pl)
           a == SubSeq(pl, 1, i - 1)
           b == SubSeq(pl, i + 1, n)
<1>1. n \in Nat /\ i \in 1..n /\ DOMAIN pl = 1..n /\ \A j \in 1..n : pl[j] \in Slots
  BY DEF Vector
<1>2. /\ a \in Seq(Slots) /\ Len(a) = i - 1
      /\ \A j \in 1..(i - 1) : a[j] = pl[j]
  BY <1>1 DEF Vector
<1>3. /\ b \in Seq(Slots) /\ Len(b) = n - i
      /\ \A j \in 1..(n - i) : b[j] = pl[i + j]
  <2> HIDE DEF n
  <2>1. i + 1 \in Int /\ n \in Int /\ \A j \in (i + 1)..n : pl[j] \in Slots
    BY <1>1
  <2>2. /\ b \in Seq(Slots)
        /\ Len(b) = IF i + 1 <= n THEN n - (i + 1) + 1 ELSE 0
        /\ \A j \in 1..(n - (i + 1) + 1) : b[j] = pl[(i + 1) + j - 1]
    BY <2>1, SubSeqProperties
  <2> HIDE DEF b
  <2>3. Len(b) = n - i
    BY <2>2, <1>1
  <2>4. ASSUME NEW j \in 1..(n - i) PROVE b[j] = pl[i + j]
    <3>1. j \in 1..(n - (i + 1) + 1) /\ (i + 1) + j - 1 = i + j
      BY <1>1
    <3> QED BY <3>1, <2>2
  <2> QED BY <2>2, <2>3, <2>4
<1>q. q = a \o b
  BY DEF erase
<1> HIDE DEF a, b, n, q
<1>4. /\ q \in Seq(Slots) /\ Len(q) = Len(a) + Len(b)
      /\ \A j \in 1..(Len(a) + Len(b)) :
           q[j] = IF j <= Len(a) THEN a[j] ELSE b[j - Len(a)]
  BY <1>2, <1>3, <1>q, ConcatProperties
<1>5. Len(q) = n - 1 /\ DOMAIN q = 1..(n - 1)
  BY <1>1, <1>2, <1>3, <1>4
<1>6. \A j \in 1..(n - 1) : j < i => q[j] = pl[j]
  BY <1>1, <1>2, <1>3, <1>4
<1>7. \A j \in 1..(n - 1) : j >= i => q[j] = pl[j + 1]
  <2> SUFFICES ASSUME NEW j \in 1..(n - 1), j >= i PROVE q[j] = pl[j + 1]
    OBVIOUS
  <2>1. j - (i - 1) \in 1..(n - i) /\ i + (j - (i - 1)) = j + 1
    BY <1>1
  <2>2. q[j] = b[j - (i - 1)]
    BY <1>1, <1>2, <1>3, <1>4
  <2> QED BY <2>1, <2>2, <1>3
<1>8. IsInjective(q)
  BY <1>1, <1>5, <1>6, <1>7 DEF Vector, IsInjective
<1>9. Range(q) \subseteq Range(pl) \ {pl[i]}
  <2> SUFFICES ASSUME NEW j \in 1..(n - 1)
               PROVE  q[j] \in Range(pl) /\ q[j] # pl[i]
    BY <1>5 DEF Range
  <2>1. PICK k \in 1..n : k # i /\ q[j] = pl[k]
    <3>1. CASE j < i
      BY <3>1, <1>1, <1>6
    <3>2. CASE j >= i
      BY <3>2, <1>1, <1>7
    <3> QED BY <3>1, <3>2, <1>1
  <2> QED BY <2>1, <1>1 DEF Vector, IsInjective, Range
<1>10. Range(pl) \ {pl[i]} \subseteq Range(q)
  <2> SUFFICES ASSUME NEW j \in 1..n, pl[j] # pl[i]
               PROVE  pl[j] \in Range(q)
    BY <1>1 DEF Range
  <2>1. CASE j < i
    BY <2>1, <1>1, <1>5, <1>6 DEF Range
  <2>2. CASE j > i
    <3>1. j - 1 \in 1..(n - 1) /\ q[j - 1] = pl[j]
      BY <2>2, <1>1, <1>7
    <3> QED BY <3>1, <1>5 DEF Range
  <2> QED BY <2>1, <2>2, <1>1
<1> QED BY Zenon, <1>4, <1>5, <1>8, <1>9, <1>10 DEF Vector, q, n

\* pop_back().
LEMMA Popped ==
  ASSUME NEW pl, Vector(pl), pl # <<>>
  PROVE  /\ Vector(pop_back(pl))
         /\ Len(pop_back(pl)) = Len(pl) - 1
         /\ back(pl) \in Range(pl)
         /\ Range(pop_back(pl)) = Range(pl) \ {back(pl)}
<1> DEFINE n == Len(pl)
<1>1. n \in Nat \ {0} /\ DOMAIN pl = 1..n
  BY DEF Vector
<1>2. /\ pop_back(pl) \in Seq(Slots)
      /\ Len(pop_back(pl)) = n - 1
      /\ \A j \in 1..(n - 1) : pop_back(pl)[j] = pl[j]
  BY <1>1 DEF Vector, pop_back
<1> QED BY <1>1, <1>2 DEF Vector, IsInjective, Range, back

-----------------------------------------------------------------------------
(* The inductive invariant *)

\* A connection that is not in use is connected and owes no response.
Clean(pl, sl) ==
  \A s \in Range(pl) : ~sl[s].inUse => sl[s].connected /\ sl[s].owed = {}

\* Each request of A has its connection in the pool, marked as in use, and has
\* it alone; one that connects has opened an overflow slot.
Held(pl, sl, rq, A) ==
  \A q \in A :
    /\ rq[q].conn \in Range(pl)
    /\ sl[rq[q].conn].inUse
    /\ rq[q].pc = "requesting" => sl[rq[q].conn].connected
    /\ rq[q].pc = "connecting" => rq[q].overflow
    /\ \A p \in A : rq[p].conn = rq[q].conn => p = q

\* Responses are owed to the requests that hold the connection.
Owed(sl, rq, A) ==
  \A s \in Slots : \A q \in sl[s].owed :
    q \in A /\ rq[q].conn = s /\ rq[q].pc = "requesting"

Bounded(pl, A) == IsFiniteSet(A) /\ Len(pl) <= PoolSize + Cardinality(A)

\* The pool pl and the connections sl are in order for the requests A.
Safe(pl, sl, rq, A) ==
  /\ Vector(pl) /\ sl \in [Slots -> Connection]
  /\ Clean(pl, sl) /\ Held(pl, sl, rq, A) /\ Owed(sl, rq, A) /\ Bounded(pl, A)

IInv ==
  /\ TypeOK
  /\ Clean(pool, slot)
  /\ Bounded(pool, Active)
  /\ ~undefined => Safe(pool, slot, req, Active)

\* What a request remembers of the error that made it retry.
Retry == [fresh : BOOLEAN, cause : Causes]

\* The reference a request keeps while it connects is to the last element.
Refers(r) ==
  /\ req[r].index = Len(pool) /\ pool[Len(pool)] = req[r].conn
  /\ req[r].buffer = capacity

\* acquire_connection() takes an idle connection or opens an overflow slot, and
\* leaves the pool in order for one request more.
LEMMA AcquireIsSafe ==
  ASSUME NEW r \in Requests, NEW attempt \in 0..1,
         NEW first \in Retry,
         NEW pl, NEW sl, Safe(pl, sl, req, Active \ {r}),
         req \in [Requests -> Frame], capacity \in Nat, Len(pl) <= capacity,
         Acquire(r, attempt, first, pl, sl)
  PROVE  /\ Safe(pool', slot', req', Active')
         /\ req' \in [Requests -> Frame]
         /\ capacity' \in Nat /\ Len(pool') <= capacity'
         /\ Active' = (Active \ {r}) \cup {r}
         /\ \A t \in Range(pool') : slot'[t].inUse =>
              t = req'[r].conn \/ (t \in Range(pl) /\ sl[t].inUse)
         /\ req'[r].pc = "connecting" => Refers(r)'
<1> DEFINE A == Active \ {r}
           idle == {i \in DOMAIN pl : ~sl[pl[i]].inUse}
           ready == {i \in idle : sl[pl[i]].connected}
           start == [IdleFrame EXCEPT !.attempt = attempt, !.first = first]
           f == req'[r]
<1>0. Safe(pl, sl, req, A)
  OBVIOUS
<1>1. /\ Vector(pl) /\ Len(pl) \in Nat /\ DOMAIN pl = 1..Len(pl)
      /\ A \subseteq Requests /\ r \notin A
      /\ \A q \in Requests \ {r} : q \in A <=> q \in Active
  BY DEF Safe, Vector, Active
<1> HIDE DEF A
<1>2. idle # {} => ready # {}
  BY <1>0 DEF Safe, Clean, Range
<1>3. IsFiniteSet(A \cup {r}) /\ Cardinality(A \cup {r}) = Cardinality(A) + 1
      /\ Cardinality(A) \in Nat
  BY <1>0, <1>1, FS_AddElement, FS_CardinalityType DEF Safe, Bounded
<1>4. CASE ready # {}
  <2> DEFINE s == pl[Min(ready)]
  <2>1. /\ pool' = pl /\ capacity' = capacity /\ slot' = Write(sl, r, s)
        /\ req' = [req EXCEPT ![r] =
             [start EXCEPT !.pc = "requesting", !.conn = s,
                !.pre = WasPreconnected(attempt, pl, sl, s)]]
    BY ZenonT(30), <1>4 DEF Acquire
  <2>2. s \in Range(pl) /\ s \in Slots /\ sl[s] \in Connection
        /\ ~sl[s].inUse /\ sl[s].connected /\ sl[s].owed = {}
    <3>1. ready \subseteq Nat
      BY <1>1
    <3>2. Min(ready) \in ready
      BY Zenon, <3>1, <1>4, MinIsIn
    <3> DEFINE i == Min(ready)
    <3>3. i \in 1..Len(pl) /\ ~sl[pl[i]].inUse /\ sl[pl[i]].connected
      BY Zenon, <3>2, <1>1
    <3> HIDE DEF i
    <3>4. pl[i] \in Slots /\ pl[i] \in Range(pl)
      BY <3>3, <1>1 DEF Vector, Range
    <3>5. sl[pl[i]] \in Connection /\ sl[pl[i]].owed = {}
      BY <1>0, <3>3, <3>4 DEF Safe, Clean
    <3> QED BY Zenon, <3>3, <3>4, <3>5 DEF i
  <2> HIDE DEF s
  <2>3. /\ req'[r].pc = "requesting" /\ req'[r].conn = s
        /\ \A q \in Requests \ {r} : req'[q] = req[q]
        /\ req' \in [Requests -> Frame]
    BY Zenon, <1>0, <2>1, <2>2 DEF Frame, IdleFrame, NoRetry, Retry, Causes,
       WasPreconnected, Safe, Connection
  <2>4. /\ slot' \in [Slots -> Connection]
        /\ slot'[s].inUse /\ slot'[s].connected /\ slot'[s].owed = {r}
        /\ \A t \in Slots \ {s} : slot'[t] = sl[t]
    BY Zenon, <1>0, <2>1, <2>2 DEF Safe, Write, Connection
  <2>5. Clean(pool', slot')
    BY <1>0, <2>1, <2>4, <1>1 DEF Safe, Clean, Vector, Range
  <2>6. Held(pool', slot', req', A \cup {r})
    BY <1>0, <2>1, <2>2, <2>3, <2>4, <1>1 DEF Safe, Held, Vector, Range
  <2>7. Owed(slot', req', A \cup {r})
    BY <1>0, <2>2, <2>3, <2>4, <1>1 DEF Safe, Owed
  <2>8. Bounded(pool', A \cup {r})
    BY <1>0, <2>1, <1>1, <1>3, PoolAssumption DEF Safe, Bounded
  <2>9. Active' = A \cup {r}
    BY <2>3, <1>1 DEF Active
  <2>10. \A t \in Range(pool') : slot'[t].inUse =>
           t = req'[r].conn \/ (t \in Range(pl) /\ sl[t].inUse)
    <3>1. Range(pl) \subseteq Slots
      BY <1>1 DEF Vector, Range
    <3> QED BY <3>1, <2>1, <2>3, <2>4
  <2>11. Safe(pool', slot', req', Active')
    BY <1>0, <2>1, <2>4, <2>5, <2>6, <2>7, <2>8, <2>9 DEF Safe
  <2> QED BY <2>1, <2>3, <2>9, <2>10, <2>11 DEF A
<1>5. CASE ready = {}
  <2>1. PICK s \in Slots \ Range(pl) :
        /\ pool' = Append(pl, s)
        /\ capacity' = Grown(Len(pl))
        /\ slot' = [sl EXCEPT ![s] = NewConnection]
        /\ req' = [req EXCEPT ![r] =
             [start EXCEPT !.pc = "connecting", !.conn = s,
                !.index = NewIndex(pl), !.buffer = Grown(Len(pl)),
                !.overflow = TRUE]]
    BY Zenon, <1>2, <1>5 DEF Acquire
  <2>2. capacity' \in Nat /\ Len(pl) + 1 <= capacity'
    BY <2>1, <1>1 DEF Grown
  <2>3. /\ req'[r].pc = "connecting" /\ req'[r].conn = s /\ req'[r].overflow
        /\ req'[r].index = Len(pl) + 1 /\ req'[r].buffer = capacity'
        /\ \A q \in Requests \ {r} : req'[q] = req[q]
        /\ req' \in [Requests -> Frame]
    <3> DEFINE i == NewIndex(pl)
               b == Grown(Len(pl))
    <3>1. i \in Nat /\ i = Len(pl) + 1 /\ b \in Nat /\ b = capacity'
      BY <2>1, <2>2, <1>1 DEF NewIndex
    <3>2. req' = [req EXCEPT ![r] =
             [start EXCEPT !.pc = "connecting", !.conn = s, !.index = i,
                           !.buffer = b, !.overflow = TRUE]]
      BY <2>1
    <3> HIDE DEF i, b
    <3> QED BY Zenon, <3>1, <3>2 DEF Frame, IdleFrame, NoRetry, Retry, Causes
  <2>4. /\ slot' \in [Slots -> Connection]
        /\ slot'[s].inUse /\ slot'[s].owed = {}
        /\ \A t \in Slots \ {s} : slot'[t] = sl[t]
    BY <1>0, <2>1 DEF Safe, NewConnection, Connection
  <2>5. /\ Vector(pool') /\ Len(pool') = Len(pl) + 1
        /\ Range(pool') = Range(pl) \cup {s} /\ pool'[Len(pl) + 1] = s
    BY <2>1, <1>1, Pushed
  <2>6. Range(pl) \subseteq Slots
    BY <1>1 DEF Vector, Range
  <2>7. Clean(pool', slot')
    BY <1>0, <2>4, <2>5, <2>6 DEF Safe, Clean
  <2>8. Held(pool', slot', req', A \cup {r})
    BY <1>0, <2>3, <2>4, <2>5, <2>6, <1>1 DEF Safe, Held
  <2>9. Owed(slot', req', A \cup {r})
    BY <1>0, <2>3, <2>4, <1>1 DEF Safe, Owed
  <2>10. Bounded(pool', A \cup {r})
    BY <1>0, <2>5, <1>1, <1>3, PoolAssumption DEF Safe, Bounded
  <2>11. Active' = A \cup {r}
    BY <2>3, <1>1 DEF Active
  <2>12. \A t \in Range(pool') : slot'[t].inUse =>
           t = req'[r].conn \/ (t \in Range(pl) /\ sl[t].inUse)
    BY <2>3, <2>4, <2>5, <2>6
  <2>13. Safe(pool', slot', req', Active')
    BY <1>0, <2>4, <2>5, <2>7, <2>8, <2>9, <2>10, <2>11 DEF Safe
  <2>14. Refers(r)'
    BY <2>3, <2>5 DEF Refers
  <2> QED BY <2>2, <2>3, <2>5, <2>11, <2>12, <2>13, <2>14 DEF A
<1> QED BY <1>4, <1>5

\* release_connection() leaves the pool in order for one request less: the
\* connection is idle and owes nothing, or it is gone.
LEMMA ReleaseIsSafe ==
  ASSUME NEW r \in Requests, req[r].pc = "requesting",
         NEW keep \in BOOLEAN, NEW sl,
         Safe(pool, slot, req, Active), req \in [Requests -> Frame],
         \/ sl = [slot EXCEPT ![req[r].conn].owed = @ \ {r}]
         \/ sl = slot /\ ~keep
  PROVE  /\ Safe(ReleasedPool(req[r].conn, keep),
                  ReleasedSlots(sl, req[r].conn, keep), req, Active \ {r})
         /\ Len(ReleasedPool(req[r].conn, keep)) <= Len(pool)
         /\ \A t \in Range(ReleasedPool(req[r].conn, keep)) :
              ReleasedSlots(sl, req[r].conn, keep)[t].inUse =>
                t \in Range(pool) \ {req[r].conn} /\ slot[t].inUse
<1> DEFINE s == req[r].conn
           A == Active \ {r}
           pl == ReleasedPool(s, keep)
           to == ReleasedSlots(sl, s, keep)
<1>a. r \in Active
  BY DEF Active
<1>1. /\ Vector(pool) /\ Len(pool) \in Nat /\ DOMAIN pool = 1..Len(pool)
      /\ Range(pool) \subseteq Slots /\ slot \in [Slots -> Connection]
  BY DEF Safe, Vector, Range
<1>2. /\ IsFiniteSet(A) /\ Cardinality(A) \in Nat
      /\ Cardinality(Active) = Cardinality(A) + 1
  <2>1. IsFiniteSet(Active) /\ Cardinality(Active) \in Nat
    BY FS_CardinalityType DEF Safe, Bounded
  <2>2. IsFiniteSet(A) /\ Cardinality(A) = Cardinality(Active) - 1
    BY <2>1, <1>a, FS_RemoveElement
  <2>3. Cardinality(A) \in Nat
    BY <2>2, FS_CardinalityType
  <2> HIDE DEF A
  <2> QED BY <2>1, <2>2, <2>3
<1>3. s \in Range(pool) /\ s \in Slots /\ slot[s].inUse /\ Found(s)
  BY <1>a, <1>1 DEF Safe, Held, Found
<1>4. slot[s].connected
  BY <1>a DEF Safe, Held
<1>5. /\ \A q \in A :
           /\ req[q].conn \in Range(pool) \ {s}
           /\ slot[req[q].conn].inUse
           /\ req[q].pc = "requesting" => slot[req[q].conn].connected
           /\ req[q].pc = "connecting" => req[q].overflow
      /\ \A p, q \in A : req[p].conn = req[q].conn => p = q
  BY <1>a DEF Safe, Held
<1>6. slot[s].owed \subseteq {r} /\ \A t \in Slots \ {s} : slot[t].owed \cap {r} = {}
  BY <1>a, <1>3 DEF Safe, Owed, Held
<1>7. \A t \in Slots \ {s} : \A q \in slot[t].owed :
        q \in A /\ req[q].conn = t /\ req[q].pc = "requesting"
  BY <1>6 DEF Safe, Owed
<1>8. /\ sl \in [Slots -> Connection] /\ \A t \in Slots \ {s} : sl[t] = slot[t]
      /\ keep => sl[s].owed = {} /\ sl[s].connected = slot[s].connected
  BY <1>1, <1>3, <1>6 DEF Connection
<1> HIDE DEF A, s
<1>9. CASE Kept(keep)
  <2>1. pl = pool /\ to = [sl EXCEPT ![s].inUse = FALSE]
    BY <1>3, <1>9 DEF ReleasedPool, ReleasedSlots
  <2>2. /\ to \in [Slots -> Connection] /\ to[s].connected /\ to[s].owed = {}
        /\ ~to[s].inUse
        /\ \A t \in Slots \ {s} : to[t] = slot[t]
    <3>1. sl[s].owed = {} /\ sl[s].connected /\ sl[s] \in Connection
      BY Zenon, <1>3, <1>4, <1>8, <1>9 DEF Kept
    <3>2. /\ to[s] = [sl[s] EXCEPT !.inUse = FALSE]
          /\ \A t \in Slots \ {s} : to[t] = sl[t]
          /\ DOMAIN to = Slots /\ to = [t \in Slots |-> to[t]]
      BY Zenon, <2>1, <1>3, <1>8
    <3> HIDE DEF to
    <3>3. to[s] \in Connection /\ to[s].connected /\ to[s].owed = {} /\ ~to[s].inUse
      BY Zenon, <3>1, <3>2 DEF Connection
    <3> QED BY <3>2, <3>3, <1>8
  <2> HIDE DEF to, pl
  <2>3. Clean(pl, to)
    BY <2>1, <2>2, <1>1 DEF Safe, Clean
  <2>4. Held(pl, to, req, A)
    <3>1. \A q \in A : to[req[q].conn] = slot[req[q].conn]
      BY <2>2, <1>1, <1>5
    <3> QED BY <3>1, <2>1, <1>5 DEF Held
  <2>5. Owed(to, req, A)
    BY <2>2, <1>7 DEF Owed
  <2>6. Bounded(pl, A)
    BY <2>1, <1>1, <1>2, <1>9, PoolAssumption DEF Bounded, Kept
  <2>7. \A t \in Range(pl) : to[t].inUse => t \in Range(pool) \ {s} /\ slot[t].inUse
    BY <2>1, <2>2, <1>1
  <2> QED BY <2>1, <2>2, <2>3, <2>4, <2>5, <2>6, <2>7, <1>1 DEF Safe, to, pl, A, s
<1>10. CASE ~Kept(keep)
  <2>1. pl = erase(pool, Place(s)) /\ to = [sl EXCEPT ![s] = NewConnection]
    BY <1>3, <1>10 DEF ReleasedPool, ReleasedSlots
  <2>2. Place(s) \in DOMAIN pool /\ pool[Place(s)] = s
    BY <1>3 DEF Place, Range
  <2>3. Vector(pl) /\ Len(pl) = Len(pool) - 1 /\ Range(pl) = Range(pool) \ {s}
    <3> DEFINE i == Place(s)
    <3> HIDE DEF i
    <3>1. i \in DOMAIN pool /\ pool[i] = s /\ pl = erase(pool, i)
      BY <2>1, <2>2 DEF i
    <3> HIDE DEF pl
    <3> QED BY Zenon, <3>1, <1>1, Erased
  <2>4. /\ to \in [Slots -> Connection] /\ to[s].owed = {}
        /\ \A t \in Slots \ {s} : to[t] = slot[t]
    BY <2>1, <1>3, <1>8 DEF Connection, NewConnection
  <2> HIDE DEF to, pl
  <2>5. Clean(pl, to)
    BY <2>3, <2>4, <1>1 DEF Safe, Clean
  <2>6. Held(pl, to, req, A)
    <3>1. \A q \in A : to[req[q].conn] = slot[req[q].conn]
      BY <2>4, <1>1, <1>5
    <3> QED BY <3>1, <2>3, <1>5 DEF Held
  <2>7. Owed(to, req, A)
    BY <2>4, <1>7 DEF Owed
  <2>8. Bounded(pl, A)
    BY <2>3, <1>1, <1>2, PoolAssumption DEF Safe, Bounded
  <2>9. Len(pl) <= Len(pool)
    BY <2>3, <1>1
  <2>10. \A t \in Range(pl) : to[t].inUse => t \in Range(pool) \ {s} /\ slot[t].inUse
    BY <2>3, <2>4, <1>1
  <2> QED BY <2>3, <2>4, <2>5, <2>6, <2>7, <2>8, <2>9, <2>10 DEF Safe, to, pl, A, s
<1> QED BY <1>9, <1>10

-----------------------------------------------------------------------------
(* The steps *)

\* The pool is empty at first.
LEMMA InitSafe == Init => IInv
<1> SUFFICES ASSUME Init PROVE IInv
  OBVIOUS
<1>1. Active = {}
  BY DEF Init, Active, IdleFrame
<1>2. Vector(pool) /\ Len(pool) = 0 /\ Range(pool) = {}
  BY DEF Init, Vector, IsInjective, Range
<1>3. slot \in [Slots -> Connection] /\ \A s \in Slots : slot[s].owed = {}
  BY DEF Init, NewConnection, Connection
<1>4. req \in [Requests -> Frame]
  BY DEF Init, IdleFrame, Frame, NoRetry, Retry, Causes
<1>5. Bounded(pool, Active)
  BY <1>1, <1>2, FS_EmptySet, PoolAssumption DEF Bounded
<1>6. Clean(pool, slot) /\ Held(pool, slot, req, Active) /\ Owed(slot, req, Active)
  BY <1>1, <1>2, <1>3 DEF Clean, Held, Owed
<1>7. TypeOK
  <2>1. capacity = 0 /\ maxInFlight \in InFlight /\ undefined = FALSE
    BY DEF Init
  <2>2. Len(pool) <= capacity /\ capacity \in Nat
    BY <2>1, <1>2
  <2> QED BY Zenon, <2>1, <2>2, <1>2, <1>3, <1>4 DEF TypeOK, Vector
<1> QED BY <1>2, <1>3, <1>5, <1>6, <1>7 DEF IInv, Safe

\* A call starts: acquire_connection() on the pool as it is.
LEMMA StartSafe ==
  ASSUME IInv, NEW r \in Requests, Start(r)
  PROVE  IInv'
<1>1. /\ ~undefined /\ undefined' = undefined /\ maxInFlight' = maxInFlight
      /\ Acquire(r, 0, NoRetry, pool, slot) /\ Active = Active \ {r}
  BY DEF Start
<1>2. /\ Safe(pool', slot', req', Active')
      /\ req' \in [Requests -> Frame] /\ capacity' \in Nat /\ Len(pool') <= capacity'
  <2>1. 0 \in 0..1 /\ NoRetry \in Retry
    BY DEF NoRetry, Retry, Causes
  <2>2. Safe(pool, slot, req, Active \ {r})
    BY <1>1 DEF IInv
  <2>3. req \in [Requests -> Frame] /\ capacity \in Nat /\ Len(pool) <= capacity
    BY DEF IInv, TypeOK
  <2> QED BY Zenon, <2>1, <2>2, <2>3, <1>1, AcquireIsSafe
<1> QED BY <1>1, <1>2 DEF IInv, TypeOK, Safe, Vector

\* What Safe says of other requests does not depend on the frame of r.
LEMMA SafeForOthers ==
  ASSUME NEW pl, NEW sl, NEW A, Safe(pl, sl, req, A), \A q \in A : req'[q] = req[q]
  PROVE  Safe(pl, sl, req', A)
<1>1. Held(pl, sl, req', A)
  BY DEF Safe, Held
<1>2. Owed(sl, req', A)
  BY DEF Safe, Owed
<1> QED BY <1>1, <1>2 DEF Safe

\* The frame of a call that ended.
LEMMA FailedIsFrame ==
  ASSUME NEW r \in Requests, NEW cause \in Causes, req \in [Requests -> Frame]
  PROVE  FailedFrame(r, cause) \in Frame /\ FailedFrame(r, cause).pc = "failed"
  BY Zenon DEF FailedFrame, IdleFrame, Frame, NoRetry, Causes

\* do_connect() succeeded: the request is written, or a stale reference is read.
LEMMA ConnectOkSafe ==
  ASSUME IInv, NEW r \in Requests, ConnectOk(r)
  PROVE  IInv'
<1> DEFINE s == req[r].conn
           connected == [slot EXCEPT ![s].connected = TRUE]
<1>1. /\ ~undefined /\ req[r].pc = "connecting"
      /\ pool' = pool /\ capacity' = capacity /\ maxInFlight' = maxInFlight
      /\ Safe(pool, slot, req, Active) /\ TypeOK
  BY DEF ConnectOk, IInv
<1>2. CASE undefined' = TRUE /\ slot' = slot /\ req' = req
  BY <1>1, <1>2 DEF IInv, TypeOK, Active
<1>3. CASE /\ slot' = Write(connected, r, s)
           /\ req' = [req EXCEPT ![r].pc = "requesting", ![r].fresh = TRUE,
                ![r].pre = WasPreconnected(req[r].attempt, pool, connected, s)]
           /\ undefined' = undefined
  <2>1. r \in Active /\ s \in Range(pool) /\ s \in Slots /\ Range(pool) \subseteq Slots
        /\ \A q \in Active \ {r} : req[q].conn # s
    BY <1>1 DEF Active, Safe, Held, Vector, Range
  <2>2. /\ slot' \in [Slots -> Connection]
        /\ slot'[s].inUse /\ slot'[s].connected /\ slot'[s].owed = slot[s].owed \cup {r}
        /\ \A t \in Slots \ {s} : slot'[t] = slot[t]
    <3>1. /\ connected \in [Slots -> Connection] /\ connected[s].connected
          /\ connected[s].owed = slot[s].owed
          /\ \A t \in Slots \ {s} : connected[t] = slot[t]
      BY ZenonT(30), <1>1, <2>1 DEF TypeOK, Connection
    <3> HIDE DEF connected, s
    <3> QED BY ZenonT(30), <1>3, <2>1, <3>1 DEF Write, Connection
  <2>3. /\ req' \in [Requests -> Frame]
        /\ req'[r].pc = "requesting" /\ req'[r].conn = s
        /\ \A q \in Requests \ {r} : req'[q] = req[q]
    <3>1. WasPreconnected(req[r].attempt, pool, connected, s) \in BOOLEAN
      BY <2>1, <1>1 DEF WasPreconnected, TypeOK, Frame, Connection
    <3> DEFINE w == WasPreconnected(req[r].attempt, pool, connected, s)
    <3>2. req' = [req EXCEPT ![r].pc = "requesting", ![r].fresh = TRUE, ![r].pre = w]
      BY <1>3
    <3>3. req[r] \in Frame
      BY <1>1 DEF TypeOK
    <3> HIDE DEF w
    <3>4. /\ req'[r] = [req[r] EXCEPT !.pc = "requesting", !.fresh = TRUE, !.pre = w]
          /\ \A q \in Requests \ {r} : req'[q] = req[q]
          /\ req' = [q \in Requests |-> req'[q]]
      BY Zenon, <3>2, <1>1 DEF TypeOK
    <3>5. req'[r] \in Frame /\ req'[r].pc = "requesting" /\ req'[r].conn = req[r].conn
      BY Zenon, <3>1, <3>3, <3>4 DEF Frame, w
    <3>6. \A q \in Requests : req'[q] \in Frame
      BY <3>4, <3>5, <1>1 DEF TypeOK
    <3>7. req' \in [Requests -> Frame]
      <4>1. req' = [q \in Requests |-> req'[q]]
        BY <3>4
      <4> QED BY ONLY <4>1, <3>6
    <3> QED BY <3>4, <3>5, <3>7
  <2>4. Active' = Active
    BY <1>1, <2>1, <2>3 DEF Active
  <2>5. Clean(pool', slot')
    <3> HIDE DEF s
    <3> QED BY <1>1, <2>1, <2>2 DEF Safe, Clean
  <2>6. Held(pool', slot', req', Active)
    <3>1. ASSUME NEW q \in Active, q # r
          PROVE  /\ req'[q] = req[q] /\ req[q].conn \in Range(pool)
                 /\ slot'[req[q].conn] = slot[req[q].conn]
      <4>1. q \in Requests /\ req[q].conn \in Range(pool)
        BY <3>1, <1>1 DEF Safe, Held, Active
      <4>2. req[q].conn \in Slots /\ req[q].conn # s
        BY <3>1, <4>1, <2>1
      <4> QED BY <3>1, <4>1, <4>2, <2>2, <2>3
    <3>2. \A q \in Active : req'[q].conn = req[q].conn
      BY <3>1, <2>3
    <3> QED BY <1>1, <2>1, <2>2, <2>3, <3>1, <3>2 DEF Safe, Held
  <2>7. Owed(slot', req', Active)
    <3> SUFFICES ASSUME NEW t \in Slots, NEW q \in slot'[t].owed
                 PROVE  q \in Active /\ req'[q].conn = t /\ req'[q].pc = "requesting"
      BY DEF Owed
    <3>1. CASE q = r
      <4>1. t = s
        BY <3>1, <1>1, <2>2 DEF Safe, Owed
      <4> QED BY <4>1, <3>1, <2>1, <2>3
    <3>2. CASE q # r
      <4>1. q \in slot[t].owed
        BY <3>2, <2>2
      <4> QED BY <4>1, <3>2, <2>3, <1>1 DEF Safe, Owed, Active
    <3> QED BY <3>1, <3>2
  <2>8. Safe(pool', slot', req', Active')
    BY <1>1, <2>2, <2>4, <2>5, <2>6, <2>7 DEF Safe
  <2> QED BY ZenonT(30), <1>1, <1>3, <2>2, <2>3, <2>8 DEF IInv, TypeOK, Safe
<1> QED BY Zenon, <1>2, <1>3 DEF ConnectOk

\* do_connect() threw: pool_.pop_back() drops an element, which another request
\* may be using; the behaviour is then undefined and nothing is claimed.
LEMMA ConnectFailSafe ==
  ASSUME IInv, NEW r \in Requests, ConnectFail(r)
  PROVE  IInv'
<1> DEFINE last == back(pool)
           A == Active \ {r}
<1>1. /\ ~undefined /\ req[r].pc = "connecting" /\ r \in Active
      /\ capacity' = capacity /\ maxInFlight' = maxInFlight
      /\ req' = [req EXCEPT ![r] = FailedFrame(r, "other")]
      /\ Safe(pool, slot, req, Active) /\ TypeOK
  BY DEF ConnectFail, IInv, Active
<1>2. req[r].overflow /\ req[r].conn \in Range(pool)
  BY <1>1 DEF Safe, Held
<1>3. /\ pool' = pop_back(pool) /\ slot' = [slot EXCEPT ![last] = NewConnection]
      /\ undefined' = (Users(last) \ {r} # {})
  BY <1>2 DEF ConnectFail
<1>4. /\ Vector(pool') /\ Len(pool') = Len(pool) - 1 /\ Len(pool) \in Nat
      /\ last \in Range(pool) /\ Range(pool') = Range(pool) \ {last}
      /\ Range(pool) \subseteq Slots
  <2>1. Vector(pool) /\ pool # <<>>
    BY <1>1, <1>2 DEF Safe, Range
  <2>2. Len(pool) \in Nat /\ Range(pool) \subseteq Slots
    BY <2>1 DEF Vector, Range
  <2> QED BY <2>1, <2>2, <1>3, Popped
<1>5. /\ slot' \in [Slots -> Connection] /\ slot'[last].owed = {}
      /\ \A t \in Slots \ {last} : slot'[t] = slot[t]
  BY <1>1, <1>3, <1>4 DEF TypeOK, NewConnection, Connection
<1>6. /\ req' \in [Requests -> Frame] /\ req'[r].pc = "failed"
      /\ \A q \in Requests \ {r} : req'[q] = req[q]
  <2>1. "other" \in Causes
    BY DEF Causes
  <2> QED BY <2>1, <1>1, FailedIsFrame DEF TypeOK
<1>7. Active' = A
  BY <1>1, <1>6 DEF Active
<1>8. /\ IsFiniteSet(A) /\ Cardinality(A) = Cardinality(Active) - 1
      /\ Cardinality(Active) \in Nat
  BY <1>1, FS_RemoveElement, FS_CardinalityType DEF Safe, Bounded
<1> HIDE DEF last
<1>9. Clean(pool', slot')
  BY <1>1, <1>4, <1>5 DEF Safe, Clean
<1>10. Bounded(pool', Active')
  <2> HIDE DEF A
  <2> QED BY <1>1, <1>4, <1>7, <1>8, PoolAssumption DEF Safe, Bounded
<1>11. ASSUME ~undefined' PROVE Safe(pool', slot', req', Active')
  <2>1. \A q \in A : req[q].conn # last
    BY ZenonT(30), <1>3, <1>11 DEF Users
  <2>2. Held(pool', slot', req, A)
    <3>1. \A q \in A : slot'[req[q].conn] = slot[req[q].conn]
      BY <2>1, <1>1, <1>4, <1>5 DEF Safe, Held
    <3> QED BY <2>1, <3>1, <1>1, <1>4 DEF Safe, Held
  <2>3. Owed(slot', req, A)
    BY <1>1, <1>5 DEF Safe, Owed
  <2>4. Safe(pool', slot', req, A)
    BY <2>2, <2>3, <1>4, <1>5, <1>7, <1>9, <1>10 DEF Safe
  <2>5. \A q \in A : req'[q] = req[q]
    BY <1>6 DEF Active
  <2> QED BY <2>4, <2>5, <1>7, SafeForOthers
<1>12. TypeOK'
  <2>1. undefined' \in BOOLEAN
    BY <1>3
  <2>2. Len(pool') <= capacity
    BY <1>1, <1>4 DEF TypeOK
  <2> QED BY <2>1, <2>2, <1>1, <1>4, <1>5, <1>6 DEF TypeOK, Vector
<1> QED BY <1>9, <1>10, <1>11, <1>12 DEF IInv

\* A call that ends, once its connection is released.
LEMMA ReleasedSafe ==
  ASSUME IInv, ~undefined, NEW r \in Active,
         NEW frame \in Frame, frame.pc \notin {"connecting", "requesting"},
         undefined' = undefined, capacity' = capacity, maxInFlight' = maxInFlight,
         req' = [req EXCEPT ![r] = frame],
         Safe(pool', slot', req, Active \ {r}), Len(pool') <= Len(pool)
  PROVE  IInv'
<1> DEFINE A == Active \ {r}
<1>1. TypeOK /\ r \in Requests /\ Safe(pool', slot', req, A) /\ Len(pool') <= Len(pool)
  BY DEF IInv, Active
<1>2. /\ req' \in [Requests -> Frame] /\ req'[r] = frame
      /\ \A q \in Requests \ {r} : req'[q] = req[q]
  BY <1>1 DEF TypeOK
<1>3. Active' = A
  BY <1>1, <1>2 DEF Active
<1>4. \A q \in A : req'[q] = req[q]
  BY <1>2 DEF Active
<1>5. Safe(pool', slot', req', Active')
  BY ZenonT(30), <1>1, <1>3, <1>4, SafeForOthers
<1>6. TypeOK'
  <2>1. Vector(pool') /\ slot' \in [Slots -> Connection]
    BY <1>1 DEF Safe
  <2>2. /\ Len(pool') \in Nat /\ Len(pool) \in Nat /\ capacity \in Nat
        /\ Len(pool) <= capacity
    BY <2>1, <1>1 DEF Vector, TypeOK
  <2> QED BY <2>1, <2>2, <1>1, <1>2 DEF TypeOK, Vector
<1> QED BY <1>5, <1>6 DEF IInv, Safe

\* A response ends the call and releases its connection, kept or not.
LEMMA RespondSafe ==
  ASSUME IInv, NEW r \in Requests, NEW keep \in BOOLEAN, Respond(r, keep)
  PROVE  IInv'
<1> DEFINE sl == [slot EXCEPT ![req[r].conn].owed = @ \ {r}]
<1>1. /\ ~undefined /\ undefined' = undefined /\ req[r].pc = "requesting"
      /\ capacity' = capacity /\ maxInFlight' = maxInFlight
      /\ pool' = ReleasedPool(req[r].conn, keep)
      /\ slot' = ReleasedSlots(sl, req[r].conn, keep)
      /\ req' = [req EXCEPT ![r] = IdleFrame]
  BY DEF Respond
<1>2. Safe(pool, slot, req, Active) /\ req \in [Requests -> Frame] /\ r \in Active
  BY <1>1 DEF IInv, TypeOK, Active
<1>3. Safe(pool', slot', req, Active \ {r}) /\ Len(pool') <= Len(pool)
  <2>1. sl = [slot EXCEPT ![req[r].conn].owed = @ \ {r}]
    OBVIOUS
  <2> HIDE DEF sl
  <2> QED BY Zenon, <1>1, <1>2, <2>1, ReleaseIsSafe
<1>4. IdleFrame \in Frame /\ IdleFrame.pc = "idle"
  BY DEF IdleFrame, Frame, NoRetry, Causes
<1> QED BY Zenon, <1>1, <1>2, <1>3, <1>4, ReleasedSafe

\* execute() catches an error, drops the connection, and retries or rethrows.
LEMMA RequestFailsSafe ==
  ASSUME IInv, NEW r \in Requests, NEW cause \in {"reset", "timeout", "other"},
         RequestFails(r, cause)
  PROVE  IInv'
<1> DEFINE pl == ReleasedPool(req[r].conn, FALSE)
           sl == ReleasedSlots(slot, req[r].conn, FALSE)
           why == [fresh |-> req[r].fresh, cause |-> cause]
<1>1. /\ ~undefined /\ undefined' = undefined /\ req[r].pc = "requesting"
      /\ maxInFlight' = maxInFlight
  BY DEF RequestFails
<1>2. /\ Safe(pool, slot, req, Active) /\ req \in [Requests -> Frame] /\ r \in Active
      /\ capacity \in Nat /\ Len(pool) \in Nat /\ Len(pool) <= capacity
      /\ maxInFlight \in InFlight
  BY <1>1 DEF IInv, TypeOK, Active
<1>3. Safe(pl, sl, req, Active \ {r}) /\ Len(pl) <= Len(pool)
  BY Zenon, <1>1, <1>2, ReleaseIsSafe
<1>4. cause \in Causes
  BY DEF Causes
<1>5. CASE Retried(r, cause)
  <2>1. req[r].attempt + 1 \in 0..1
    BY <1>5 DEF Retried
  <2>2. why \in Retry
    BY <1>2, <1>4 DEF Retry, Frame
  <2>3. Acquire(r, req[r].attempt + 1, why, pl, sl)
    BY Zenon, <1>5 DEF RequestFails
  <2>4. Len(pl) <= capacity
    <3> HIDE DEF pl, sl
    <3>1. Len(pl) \in Nat
      BY <1>3 DEF Safe, Vector
    <3> QED BY <1>2, <1>3, <3>1
  <2>5. /\ Safe(pool', slot', req', Active')
        /\ req' \in [Requests -> Frame] /\ capacity' \in Nat /\ Len(pool') <= capacity'
    <3> HIDE DEF pl, sl, why
    <3> QED BY Zenon, <1>2, <1>3, <2>1, <2>2, <2>3, <2>4, AcquireIsSafe
  <2> QED BY <1>1, <1>2, <2>5 DEF IInv, TypeOK, Safe, Vector
<1>6. CASE ~Retried(r, cause)
  <2>1. /\ pool' = pl /\ slot' = sl /\ capacity' = capacity
        /\ req' = [req EXCEPT ![r] = FailedFrame(r, cause)]
    BY <1>6 DEF RequestFails
  <2>2. FailedFrame(r, cause) \in Frame /\ FailedFrame(r, cause).pc = "failed"
    BY <1>2, <1>4, FailedIsFrame
  <2>3. Safe(pool', slot', req, Active \ {r}) /\ Len(pool') <= Len(pool)
    BY Zenon, <1>3, <2>1
  <2> HIDE DEF pl, sl
  <2> QED BY Zenon, <1>1, <1>2, <2>1, <2>2, <2>3, ReleasedSafe
<1> QED BY <1>5, <1>6

\* The server closes a connection.
LEMMA ServerClosesSafe ==
  ASSUME IInv, NEW s \in Slots, ServerCloses(s)
  PROVE  IInv'
<1>1. /\ ~undefined /\ UNCHANGED <<pool, capacity, req, maxInFlight, undefined>>
      /\ Safe(pool, slot, req, Active) /\ TypeOK
      /\ slot' = [slot EXCEPT ![s].closed = TRUE]
  BY DEF ServerCloses, IInv
<1>2. Active' = Active
  BY <1>1 DEF Active
<1>3. /\ slot' \in [Slots -> Connection]
      /\ \A t \in Slots : /\ slot'[t].inUse = slot[t].inUse
                         /\ slot'[t].connected = slot[t].connected
                         /\ slot'[t].owed = slot[t].owed
  BY Zenon, <1>1 DEF TypeOK, Connection
<1>4. Range(pool) \subseteq Slots
  BY <1>1 DEF Safe, Vector, Range
<1>5. Clean(pool, slot')
  BY <1>1, <1>3, <1>4 DEF Safe, Clean
<1>6. Held(pool, slot', req, Active) /\ Owed(slot', req, Active)
  BY <1>1, <1>3, <1>4 DEF Safe, Held, Owed
<1>7. Safe(pool', slot', req', Active')
  BY <1>1, <1>2, <1>3, <1>5, <1>6 DEF Safe
<1> QED BY <1>1, <1>3, <1>7 DEF IInv, TypeOK, Safe

-----------------------------------------------------------------------------
(* The theorems *)

\* Every step keeps the pool in order.
LEMMA NextSafe == IInv /\ [Next]_vars => IInv'
<1> SUFFICES ASSUME IInv, [Next]_vars PROVE IInv'
  OBVIOUS
<1>1. CASE UNCHANGED vars
  <2>1. Active' = Active
    BY <1>1 DEF vars, Active
  <2> QED BY <1>1, <2>1 DEF vars, IInv, TypeOK
<1>2. CASE \E r \in Requests : Start(r) \/ ConnectOk(r) \/ ConnectFail(r)
  BY <1>2, StartSafe, ConnectOkSafe, ConnectFailSafe
<1>3. CASE \E r \in Requests, keep \in BOOLEAN : Respond(r, keep)
  BY <1>3, RespondSafe
<1>4. CASE \E r \in Requests, cause \in {"reset", "timeout", "other"} :
             RequestFails(r, cause)
  BY <1>4, RequestFailsSafe
<1>5. CASE \E s \in Slots : ServerCloses(s)
  BY <1>5, ServerClosesSafe
<1> QED BY <1>1, <1>2, <1>3, <1>4, <1>5 DEF Next

\* What holds of the pool, whatever the calls in flight do: IInv is inductive.
THEOREM PoolInOrder == Spec => []IInv
  BY InitSafe, NextSafe, PTL DEF Spec

\* For every pool size and any number of calls: the variables keep their types
\* and pool_ holds no connection twice.
THEOREM TypeCorrect == Spec => []TypeOK
<1>1. IInv => TypeOK
  BY DEF IInv
<1> QED BY <1>1, PoolInOrder, PTL

\* acquire_connection() hands out only connections that are connected and owe no
\* response, so no call reads the answer to another.
THEOREM IdleConnectionsAreClean == Spec => []IdleIsClean
<1>1. IInv => IdleIsClean
  BY DEF IInv, Clean, IdleIsClean, Range
<1> QED BY <1>1, PoolInOrder, PTL

\* While the behaviour is defined, two calls never hold the same connection.
THEOREM ConnectionsAreNotShared == Spec => []OneUser
<1>1. IInv => OneUser
  BY DEF IInv, Safe, Held, OneUser
<1> QED BY <1>1, PoolInOrder, PTL

\* Overflow slots are not kept: the pool exceeds pool_size_ by no more than the
\* calls in flight.
THEOREM PoolIsBounded == Spec => []PoolBounded
<1>1. IInv => PoolBounded
  BY DEF IInv, Bounded, PoolBounded
<1> QED BY <1>1, PoolInOrder, PTL

-----------------------------------------------------------------------------
(* One call at a time *)

\* The one request that is active uses the one connection marked as in use, and
\* its reference into pool_ is good.
Alone ==
  /\ ~undefined
  /\ \A p, q \in Active : p = q
  /\ \A s \in Range(pool) : slot[s].inUse => \E q \in Active : req[q].conn = s
  /\ \A q \in Active : req[q].pc = "connecting" => Refers(q)

AInv == IInv /\ (maxInFlight = 1 => Alone)

\* The request that just took a connection is alone if no other was active.
LEMMA AcquireAlone ==
  ASSUME NEW r \in Requests, NEW pl, NEW sl, Active \subseteq {r}, ~undefined',
         \A t \in Range(pl) : ~sl[t].inUse,
         Active' = (Active \ {r}) \cup {r},
         \A t \in Range(pool') : slot'[t].inUse =>
           t = req'[r].conn \/ (t \in Range(pl) /\ sl[t].inUse),
         req'[r].pc = "connecting" => Refers(r)'
  PROVE  Alone'
<1>1. Active' = {r}
  OBVIOUS
<1>2. \A q \in Active' : req'[q].pc = "connecting" => Refers(q)'
  BY <1>1
<1> QED BY <1>1, <1>2 DEF Alone

\* A call starts when none is active.
LEMMA StartAlone ==
  ASSUME IInv, Alone, maxInFlight = 1, NEW r \in Requests, Start(r)
  PROVE  Alone'
<1>1. /\ ~undefined' /\ Cardinality(Active) < 1
      /\ Acquire(r, 0, NoRetry, pool, slot)
  BY DEF Start, Alone
<1>2. Active = {}
  <2>1. IsFiniteSet(Active)
    BY DEF IInv, Bounded
  <2> QED BY <1>1, <2>1, FS_CardinalityType, FS_EmptySet
<1>3. /\ Safe(pool, slot, req, Active \ {r}) /\ req \in [Requests -> Frame]
      /\ capacity \in Nat /\ Len(pool) <= capacity
  <2>1. Active \ {r} = Active
    BY <1>2
  <2> QED BY Zenon, <2>1 DEF IInv, TypeOK, Alone
<1>4. 0 \in 0..1 /\ NoRetry \in Retry
  BY DEF NoRetry, Retry, Causes
<1>5. \A t \in Range(pool) : ~slot[t].inUse
  BY <1>2 DEF Alone
<1>6. /\ Active' = (Active \ {r}) \cup {r}
      /\ \A t \in Range(pool') : slot'[t].inUse =>
           t = req'[r].conn \/ (t \in Range(pool) /\ slot[t].inUse)
      /\ req'[r].pc = "connecting" => Refers(r)'
  BY Zenon, <1>1, <1>3, <1>4, AcquireIsSafe
<1> QED BY <1>1, <1>2, <1>5, <1>6, AcquireAlone

\* The reference of the one request that connects is good, so reading it is.
LEMMA ConnectOkAlone ==
  ASSUME IInv, Alone, NEW r \in Requests, ConnectOk(r)
  PROVE  Alone'
<1> DEFINE s == req[r].conn
           connected == [slot EXCEPT ![s].connected = TRUE]
<1>1. r \in Active /\ req[r].pc = "connecting" /\ pool' = pool
  BY DEF ConnectOk, Active
<1>2. ReferenceHolds(r)
  BY <1>1 DEF Alone, Refers, ReferenceHolds, IInv, TypeOK
<1>3. /\ slot' = Write(connected, r, s) /\ undefined' = undefined
      /\ req' = [req EXCEPT ![r].pc = "requesting", ![r].fresh = TRUE,
                ![r].pre = WasPreconnected(req[r].attempt, pool, connected, s)]
  BY <1>2 DEF ConnectOk
<1>4. req'[r].pc = "requesting" /\ req'[r].conn = s
      /\ \A q \in Requests \ {r} : req'[q] = req[q]
  <2>1. req[r] \in Frame /\ DOMAIN req = Requests
    BY DEF IInv, TypeOK
  <2> DEFINE w == WasPreconnected(req[r].attempt, pool, connected, s)
  <2>2. req' = [req EXCEPT ![r].pc = "requesting", ![r].fresh = TRUE, ![r].pre = w]
    BY <1>3
  <2> HIDE DEF w
  <2> QED BY <2>1, <2>2 DEF Frame
<1>5. Active' = Active
  BY <1>1, <1>4 DEF Active
<1>6. \A t \in Range(pool) \ {s} : slot'[t].inUse = slot[t].inUse
  <2>1. Range(pool) \subseteq Slots /\ slot \in [Slots -> Connection]
    BY DEF IInv, TypeOK, Range
  <2> QED BY Zenon, <1>3, <2>1 DEF Write
<1>7. \A t \in Range(pool) : slot'[t].inUse => t = s
  BY <1>1, <1>6 DEF Alone
<1> QED BY Zenon, <1>1, <1>3, <1>4, <1>5, <1>7 DEF Alone

\* The element that pop_back() drops is the one the request had added.
LEMMA ConnectFailAlone ==
  ASSUME IInv, Alone, NEW r \in Requests, ConnectFail(r)
  PROVE  Alone'
<1> DEFINE last == back(pool)
<1>1. /\ r \in Active /\ req[r].pc = "connecting" /\ Active \subseteq {r}
      /\ req' = [req EXCEPT ![r] = FailedFrame(r, "other")]
      /\ Safe(pool, slot, req, Active) /\ req \in [Requests -> Frame]
  BY DEF ConnectFail, Active, Alone, IInv, TypeOK
<1>2. req[r].overflow /\ last = req[r].conn /\ pool # <<>> /\ Vector(pool)
  BY <1>1 DEF Safe, Held, Alone, Refers, back, Range
<1>3. /\ pool' = pop_back(pool) /\ slot' = [slot EXCEPT ![last] = NewConnection]
      /\ undefined' = (Users(last) \ {r} # {})
  BY <1>2 DEF ConnectFail
<1>4. ~undefined'
  BY ZenonT(30), <1>1, <1>3 DEF Users
<1>5. Active' = {}
  <2>1. "other" \in Causes
    BY DEF Causes
  <2>2. FailedFrame(r, "other").pc = "failed"
    BY <2>1, <1>1, FailedIsFrame
  <2> QED BY <1>1, <2>2 DEF Active
<1>6. \A t \in Range(pool') : ~slot'[t].inUse
  <2>1. Range(pool') = Range(pool) \ {last} /\ Range(pool) \subseteq Slots
    <3>1. Range(pool) \subseteq Slots
      BY <1>2 DEF Vector, Range
    <3> QED BY <3>1, <1>2, <1>3, Popped
  <2>2. \A t \in Range(pool') : slot'[t] = slot[t]
    BY <1>3, <2>1, <1>1 DEF Safe
  <2> QED BY <1>1, <1>2, <2>1, <2>2 DEF Alone
<1> QED BY <1>4, <1>5, <1>6 DEF Alone

\* After release_connection() by the one request, no connection is in use.
LEMMA ReleaseAlone ==
  ASSUME IInv, Alone, NEW r \in Requests, req[r].pc = "requesting",
         NEW keep \in BOOLEAN, NEW sl,
         \/ sl = [slot EXCEPT ![req[r].conn].owed = @ \ {r}]
         \/ sl = slot /\ ~keep
  PROVE  /\ Active \subseteq {r}
         /\ Safe(ReleasedPool(req[r].conn, keep),
                 ReleasedSlots(sl, req[r].conn, keep), req, Active \ {r})
         /\ Len(ReleasedPool(req[r].conn, keep)) <= Len(pool)
         /\ \A t \in Range(ReleasedPool(req[r].conn, keep)) :
              ~ReleasedSlots(sl, req[r].conn, keep)[t].inUse
<1>1. /\ Active \subseteq {r} /\ Safe(pool, slot, req, Active)
      /\ req \in [Requests -> Frame]
  BY DEF Alone, Active, IInv, TypeOK
<1> DEFINE pl == ReleasedPool(req[r].conn, keep)
           to == ReleasedSlots(sl, req[r].conn, keep)
<1>2. /\ Safe(pl, to, req, Active \ {r}) /\ Len(pl) <= Len(pool)
      /\ \A t \in Range(pl) :
           to[t].inUse => t \in Range(pool) \ {req[r].conn} /\ slot[t].inUse
  BY Zenon, <1>1, ReleaseIsSafe
<1> HIDE DEF pl, to
<1>3. \A t \in Range(pl) : ~to[t].inUse
  BY <1>1, <1>2 DEF Alone
<1> QED BY <1>1, <1>2, <1>3 DEF pl, to

\* A response leaves no connection in use.
LEMMA RespondAlone ==
  ASSUME IInv, Alone, NEW r \in Requests, NEW keep \in BOOLEAN, Respond(r, keep)
  PROVE  Alone'
<1> DEFINE sl == [slot EXCEPT ![req[r].conn].owed = @ \ {r}]
<1>1. /\ ~undefined' /\ req[r].pc = "requesting"
      /\ pool' = ReleasedPool(req[r].conn, keep)
      /\ slot' = ReleasedSlots(sl, req[r].conn, keep)
      /\ req' = [req EXCEPT ![r] = IdleFrame]
  BY DEF Respond
<1>2. Active \subseteq {r} /\ \A t \in Range(pool') : ~slot'[t].inUse
  <2>1. sl = [slot EXCEPT ![req[r].conn].owed = @ \ {r}]
    OBVIOUS
  <2> HIDE DEF sl
  <2> QED BY Zenon, <1>1, <2>1, ReleaseAlone
<1>3. Active' = {}
  BY <1>1, <1>2 DEF Active, IdleFrame, IInv, TypeOK
<1> QED BY Zenon, <1>1, <1>2, <1>3 DEF Alone

\* An error leaves no connection in use but the one of the retry.
LEMMA RequestFailsAlone ==
  ASSUME IInv, Alone, NEW r \in Requests, NEW cause \in {"reset", "timeout", "other"},
         RequestFails(r, cause)
  PROVE  Alone'
<1> DEFINE pl == ReleasedPool(req[r].conn, FALSE)
           sl == ReleasedSlots(slot, req[r].conn, FALSE)
           why == [fresh |-> req[r].fresh, cause |-> cause]
<1>1. ~undefined' /\ req[r].pc = "requesting"
  BY DEF RequestFails
<1>2. /\ Active \subseteq {r} /\ \A t \in Range(pl) : ~sl[t].inUse
      /\ Safe(pl, sl, req, Active \ {r}) /\ Len(pl) <= Len(pool)
  BY Zenon, <1>1, ReleaseAlone
<1>3. /\ req \in [Requests -> Frame] /\ capacity \in Nat
      /\ Len(pool) \in Nat /\ Len(pool) <= capacity
  BY DEF IInv, TypeOK
<1>4. cause \in Causes
  BY DEF Causes
<1>5. CASE Retried(r, cause)
  <2>1. req[r].attempt + 1 \in 0..1
    BY <1>5 DEF Retried
  <2>2. why \in Retry
    BY <1>3, <1>4 DEF Retry, Frame
  <2>3. Acquire(r, req[r].attempt + 1, why, pl, sl)
    BY ZenonT(30), <1>5 DEF RequestFails
  <2> HIDE DEF pl, sl, why
  <2>4. Len(pl) <= capacity
    <3>1. Len(pl) \in Nat
      BY <1>2 DEF Safe, Vector
    <3> QED BY <1>2, <1>3, <3>1
  <2>5. /\ Active' = (Active \ {r}) \cup {r}
        /\ \A t \in Range(pool') : slot'[t].inUse =>
             t = req'[r].conn \/ (t \in Range(pl) /\ sl[t].inUse)
        /\ req'[r].pc = "connecting" => Refers(r)'
    <3> DEFINE n == req[r].attempt + 1
    <3>1. n \in 0..1 /\ Acquire(r, n, why, pl, sl) /\ Safe(pl, sl, req, Active \ {r})
      BY <1>2, <2>1, <2>3
    <3> HIDE DEF n
    <3> QED BY ZenonT(30), <3>1, <1>3, <2>2, <2>4, AcquireIsSafe
  <2> QED BY <1>1, <1>2, <2>5, AcquireAlone
<1>6. CASE ~Retried(r, cause)
  <2>1. /\ pool' = pl /\ slot' = sl
        /\ req' = [req EXCEPT ![r] = FailedFrame(r, cause)]
    BY <1>6 DEF RequestFails
  <2>2. FailedFrame(r, cause).pc = "failed"
    BY <1>3, <1>4, FailedIsFrame
  <2>3. \A t \in Range(pool') : ~slot'[t].inUse
    BY Zenon, <1>2, <2>1
  <2> HIDE DEF pl, sl
  <2>4. Active' = {}
    BY <1>2, <1>3, <2>1, <2>2 DEF Active
  <2> QED BY <1>1, <2>3, <2>4 DEF Alone
<1> QED BY <1>5, <1>6

\* The server closes a connection of the one request, or an idle one.
LEMMA ServerClosesAlone ==
  ASSUME IInv, Alone, NEW s \in Slots, ServerCloses(s)
  PROVE  Alone'
<1>1. /\ UNCHANGED <<pool, capacity, req, undefined>>
      /\ slot' = [slot EXCEPT ![s].closed = TRUE]
  BY DEF ServerCloses
<1>2. \A t \in Range(pool) : slot'[t].inUse = slot[t].inUse
  <2>1. Range(pool) \subseteq Slots /\ slot \in [Slots -> Connection]
    BY DEF IInv, TypeOK, Range
  <2> QED BY <1>1, <2>1 DEF Connection
<1>3. Active' = Active /\ \A q \in Active : Refers(q) => Refers(q)'
  BY <1>1 DEF Active, Refers
<1> QED BY <1>1, <1>2, <1>3 DEF Alone

\* Every step of an application with one call in flight keeps Alone.
LEMMA NextAlone == AInv /\ [Next]_vars => AInv'
<1> SUFFICES ASSUME AInv, [Next]_vars, maxInFlight' = 1 PROVE Alone'
  BY NextSafe DEF AInv
<1>1. maxInFlight' = maxInFlight
  BY Zenon DEF Next, vars, Start, ConnectOk, ConnectFail, Respond, RequestFails,
     ServerCloses
<1>2. IInv /\ Alone /\ maxInFlight = 1
  BY <1>1 DEF AInv
<1>3. CASE UNCHANGED vars
  <2>1. UNCHANGED <<pool, capacity, slot, req, undefined>>
    BY <1>3 DEF vars
  <2>2. Active' = Active /\ \A q \in Active : Refers(q) => Refers(q)'
    BY <2>1 DEF Active, Refers
  <2> QED BY <1>2, <2>1, <2>2 DEF Alone
<1>4. CASE \E r \in Requests : Start(r) \/ ConnectOk(r) \/ ConnectFail(r)
  BY <1>2, <1>4, StartAlone, ConnectOkAlone, ConnectFailAlone
<1>5. CASE \E r \in Requests, keep \in BOOLEAN : Respond(r, keep)
  BY <1>2, <1>5, RespondAlone
<1>6. CASE \E r \in Requests, cause \in {"reset", "timeout", "other"} :
             RequestFails(r, cause)
  BY <1>2, <1>6, RequestFailsAlone
<1>7. CASE \E s \in Slots : ServerCloses(s)
  BY <1>2, <1>7, ServerClosesAlone
<1> QED BY <1>3, <1>4, <1>5, <1>6, <1>7 DEF Next

\* AInv is inductive.
THEOREM AloneInOrder == Spec => []AInv
<1>1. Init => AInv
  <2> SUFFICES ASSUME Init PROVE Alone
    BY InitSafe DEF AInv
  <2>1. Active = {} /\ Range(pool) = {} /\ ~undefined
    BY DEF Init, Active, IdleFrame, Range
  <2> QED BY <2>1 DEF Alone
<1> QED BY <1>1, NextAlone, PTL DEF Spec

\* An application with one call in flight at a time never reaches undefined
\* behaviour: no reference of acquire_connection() into pool_ goes stale.
THEOREM AloneIsDefined == Spec => []DefinedAlone
<1>1. AInv => DefinedAlone
  BY DEF AInv, Alone, DefinedAlone, Defined
<1> QED BY <1>1, AloneInOrder, PTL

\* Nor does it lose a connection: one marked in use is used by its call.
THEOREM AloneLosesNothing == Spec => []NoneIsLost
<1>1. AInv => NoneIsLost
  BY DEF AInv, Alone, NoneIsLost, Users, Range
<1> QED BY <1>1, AloneInOrder, PTL

=============================================================================
