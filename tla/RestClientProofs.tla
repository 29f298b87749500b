-------------------------- MODULE RestClientProofs --------------------------
(***************************************************************************)
(* Proofs about RestClient, for any number of goroutines, credentials,     *)
(* Connections and retries: a request that may not be replayed takes       *)
(* effect at most once, and calls with the same credentials share one      *)
(* Connection and one login.                                               *)
(***************************************************************************)
EXTENDS RestClient, FiniteSetTheorems, TLAPS

(***************************************************************************)
(* Types                                                                   *)
(***************************************************************************)

Connections == [bearer : Nat, flight : Nat]

Entries == [key : Keys, conn : Nat]

Outcomes == {"none", "ok", "rejected", "refused", "failed", "ended"}

Calls ==
    [pc : Points, req : Requests, conn : Nat, attempt : 0..MaxRetries, relogged : BOOLEAN,
     tok : Nat, flight : Nat, back : {"send", "next"},
     out : Outcomes,
     applied : Nat, ended : BOOLEAN]

\* What each variable ranges over; TypeOK relates them.
Typed ==
    /\ cache \in Seq(Entries)
    /\ evicted \subseteq Nat
    /\ conns \in Seq(Connections)
    /\ flights \in Seq({"open"} \cup Outcomes)
    /\ valid \subseteq Nat
    /\ next \in Nat \ {0, 1}
    /\ work \in [Workers -> Calls]
    /\ count \in [requests : Nat, faults : Nat]

\* A request and its key, of any worker.
LEMMA RequestTyped ==
    ASSUME Typed, NEW w \in Workers
    PROVE  /\ work[w] \in Calls /\ work[w].req \in Requests
           /\ work[w].req.method \in ReplaySafe \cup {"POST", "DELETE"}
           /\ Key(w) \in Keys
BY RestAssumption DEF Typed, Calls, Key, Outcomes

LEMMA IdleTyped == Idle \in Calls
<1>1. (CHOOSE r \in Requests : TRUE) \in Requests
  BY RestAssumption
<1> QED
  BY <1>1, RestAssumption DEF Idle, Calls, Points, Outcomes

\* Going to a control point, and returning, keep the type of a call.
LEMMA GoTyped ==
    ASSUME Typed, NEW w \in Workers, NEW p \in Points
    PROVE  Go(w, p) \in Calls
BY DEF Typed, Go, Calls, Outcomes

LEMMA GoPoint ==
    ASSUME Typed, NEW w \in Workers, NEW p
    PROVE  Go(w, p).pc = p /\ Go(w, p).conn = work[w].conn /\ Go(w, p).req = work[w].req
BY DEF Typed, Go, Calls, Outcomes

LEMMA UseTyped ==
    ASSUME Typed, NEW w \in Workers, NEW c \in Nat
    PROVE  Use(w, c) \in Calls /\ Use(w, c).pc = "authorize" /\ Use(w, c).conn = c
           /\ Use(w, c).req = work[w].req
<1>1. Go(w, "authorize") \in Calls /\ Go(w, "authorize").pc = "authorize"
      /\ Go(w, "authorize").req = work[w].req
  BY GoTyped, GoPoint DEF Points
<1> QED
  BY <1>1 DEF Use, Calls, Outcomes

LEMMA DoneTyped ==
    ASSUME Typed, NEW w \in Workers,
           NEW out \in Outcomes
    PROVE  Done(w, out) \in Calls
BY IdleTyped DEF Typed, Done, Calls, Outcomes

LEMMA AgainTyped ==
    ASSUME Typed, NEW w \in Workers, NEW out \in {"refused", "failed"}
    PROVE  Again(w, out) \in Calls
<1>1. CASE work[w].attempt < MaxRetries
  <2>1. Go(w, "backoff") \in Calls
    BY GoTyped DEF Points
  <2>2. Go(w, "backoff").attempt = work[w].attempt
    BY DEF Go, Typed, Calls, Outcomes
  <2>3. work[w].attempt + 1 \in 0..MaxRetries
    BY <1>1, RestAssumption DEF Typed, Calls, Outcomes
  <2> QED
    BY <1>1, <2>1, <2>2, <2>3 DEF Again, Calls, Outcomes
<1>2. CASE ~(work[w].attempt < MaxRetries)
  BY <1>2, DoneTyped DEF Again, Outcomes
<1> QED
  BY <1>1, <1>2

\* The state of a single call changes.
LEMMA WorkTyped ==
    ASSUME Typed, NEW w \in Workers, NEW to \in Calls,
           work' = [work EXCEPT ![w] = to]
    PROVE  work' \in [Workers -> Calls]
BY DEF Typed

LEMMA EntryTyped ==
    ASSUME Typed, NEW i \in DOMAIN cache
    PROVE  cache[i].key \in Keys /\ cache[i].conn \in Nat
<1>1. cache \in Seq(Entries) /\ i \in 1..Len(cache)
  BY DEF Typed
<1>2. cache[i] \in Entries
  BY <1>1
<1> QED
  BY <1>2 DEF Entries

LEMMA ConnTyped ==
    ASSUME Typed, NEW c \in DOMAIN conns
    PROVE  conns[c] \in Connections
<1>1. conns \in Seq(Connections) /\ c \in 1..Len(conns)
  BY DEF Typed
<1> QED
  BY <1>1

LEMMA ConnsTyped ==
    ASSUME Typed, NEW c \in DOMAIN conns, NEW r \in Connections
    PROVE  [conns EXCEPT ![c] = r] \in Seq(Connections)
<1>1. conns \in Seq(Connections) /\ c \in 1..Len(conns)
  BY DEF Typed
<1>2. conns \in [1..Len(conns) -> Connections] /\ Len(conns) \in Nat
  BY <1>1
<1>3. [conns EXCEPT ![c] = r] \in [1..Len(conns) -> Connections]
  BY <1>1, <1>2
<1> QED
  BY <1>2, <1>3

\* A call after a relogin that succeeded.
LEMMA ReloggedTyped ==
    ASSUME Typed, NEW w \in Workers, work[w].conn \in DOMAIN conns
    PROVE  Relogged(w) \in Calls
<1>1. Conn(w).bearer \in Nat
  BY ConnTyped DEF Conn, Connections
<1>2. Go(w, "send") \in Calls /\ Again(w, "refused") \in Calls
  BY GoTyped, AgainTyped DEF Points
<1>3. (work[w].attempt < MaxRetries) \in BOOLEAN
  OBVIOUS
<1> QED
  BY <1>1, <1>2, <1>3 DEF Relogged, Calls, Outcomes

LEMMA RetryTyped ==
    ASSUME Typed, NEW w \in Workers
    PROVE  Retry(w) \in Calls
BY AgainTyped, DoneTyped DEF Retry, Outcomes

\* Where an entry of a key is found.
LEMMA PlaceFound ==
    ASSUME NEW key, Cached(key)
    PROVE  Place(key) \in DOMAIN cache /\ cache[Place(key)].key = key
BY DEF Cached, Place

\* Touching an entry permutes the cache.
LEMMA TouchedTyped ==
    ASSUME Typed, NEW k \in DOMAIN cache
    PROVE  /\ Touched(k) \in Seq(Entries)
           /\ Len(Touched(k)) = Len(cache)
           /\ DOMAIN Touched(k) = DOMAIN cache
<1>1. Len(cache) \in Nat /\ DOMAIN cache = 1..Len(cache)
  BY DEF Typed
<1>2. \A i \in 1..Len(cache) : Touched(k)[i] \in Entries
  BY <1>1 DEF Typed, Touched
<1>3. DOMAIN Touched(k) = 1..Len(cache)
  BY DEF Touched
<1>4. Touched(k) \in [1..Len(cache) -> Entries]
  BY <1>2 DEF Touched
<1>5. Touched(k) \in Seq(Entries) /\ Len(Touched(k)) = Len(cache)
  BY <1>1, <1>3, <1>4
<1> QED
  BY <1>1, <1>3, <1>5

\* Where a touched entry has come from.
LEMMA TouchedFrom ==
    ASSUME Typed, NEW k \in DOMAIN cache
    PROVE  /\ \A i \in DOMAIN cache : \E j \in DOMAIN cache : cache[i] = Touched(k)[j]
           /\ \A i \in DOMAIN cache : \E m \in DOMAIN cache : Touched(k)[i] = cache[m]
           /\ \A i, j \in DOMAIN cache : i # j =>
                \E m, n \in DOMAIN cache : m # n /\ Touched(k)[i] = cache[m] /\ Touched(k)[j] = cache[n]
<1>1. Len(cache) \in Nat /\ DOMAIN cache = 1..Len(cache) /\ k \in 1..Len(cache)
  BY DEF Typed
<1>2. ASSUME NEW i \in DOMAIN cache
      PROVE  \E j \in DOMAIN cache : cache[i] = Touched(k)[j]
  <2>1. CASE i < k
    BY <2>1, <1>1 DEF Touched
  <2>2. CASE i = k
    <3>1. Touched(k)[Len(cache)] = cache[k] /\ Len(cache) \in DOMAIN cache
      BY <1>1 DEF Touched
    <3> QED
      BY <2>2, <3>1
  <2>3. CASE i > k
    <3>1. i - 1 \in 1..Len(cache) /\ ~(i - 1 < k) /\ i - 1 < Len(cache) /\ (i - 1) + 1 = i
      BY <2>3, <1>1
    <3>2. Touched(k)[i - 1] = cache[i]
      BY <3>1 DEF Touched
    <3> QED
      BY <3>1, <3>2, <1>1
  <2> QED
    BY <2>1, <2>2, <2>3, <1>1
<1>3. ASSUME NEW i \in DOMAIN cache, NEW j \in DOMAIN cache, i # j
      PROVE  \E m, n \in DOMAIN cache : m # n /\ Touched(k)[i] = cache[m] /\ Touched(k)[j] = cache[n]
  <2> DEFINE From(x) == IF x < k THEN x ELSE IF x < Len(cache) THEN x + 1 ELSE k
  <2>1. From(i) \in DOMAIN cache /\ From(j) \in DOMAIN cache /\ From(i) # From(j)
    BY <1>1, <1>3
  <2>2. Touched(k)[i] = cache[From(i)] /\ Touched(k)[j] = cache[From(j)]
    BY <1>1 DEF Touched
  <2> QED
    BY <2>1, <2>2
<1>4. ASSUME NEW i \in DOMAIN cache
      PROVE  \E m \in DOMAIN cache : Touched(k)[i] = cache[m]
  <2> DEFINE from == IF i < k THEN i ELSE IF i < Len(cache) THEN i + 1 ELSE k
  <2>1. from \in DOMAIN cache
    BY <1>1
  <2>2. Touched(k)[i] = cache[from]
    BY <1>1 DEF Touched
  <2> QED
    BY <2>1, <2>2
<1> QED
  BY <1>2, <1>3, <1>4

(***************************************************************************)
(* Type correctness                                                        *)
(***************************************************************************)

TypeInv == Typed /\ TypeOK

\* A call refers to a Connection and a flight that exist, if it uses them.
Fits(t) ==
    /\ t.pc \notin {"idle", "lookup", "dial"} => t.conn \in DOMAIN conns
    /\ t.pc \in {"login", "logged", "wait"} => t.flight \in DOMAIN flights

LEMMA WorkersFit ==
    ASSUME TypeInv, NEW w \in Workers
    PROVE  Fits(work[w])
BY DEF TypeInv, TypeOK, Fits

LEMMA IdleFits == ASSUME TypeInv PROVE Fits(Idle)
BY DEF Fits, Idle

\* The ways a busy call goes on.
LEMMA GoesOn ==
    ASSUME TypeInv, NEW w \in Workers, Busy(w),
           NEW out \in Outcomes
    PROVE  /\ Done(w, out) \in Calls /\ Fits(Done(w, out))
           /\ \A p \in {"authorize", "relogin", "send", "backoff"} : Go(w, p) \in Calls /\ Fits(Go(w, p))
           /\ \A o \in {"refused", "failed"} : Again(w, o) \in Calls /\ Fits(Again(w, o))
           /\ Retry(w) \in Calls /\ Fits(Retry(w))
           /\ Relogged(w) \in Calls /\ Fits(Relogged(w))
<1>0. Typed /\ work[w] \in Calls /\ work[w].conn \in DOMAIN conns
  BY DEF TypeInv, Typed, TypeOK, Busy
<1>1. Done(w, out) \in Calls /\ Fits(Done(w, out))
  <2>1. Done(w, out).pc = "idle"
    BY DEF Done, Idle
  <2> QED
    BY <1>0, <2>1, DoneTyped DEF Fits
<1>2. ASSUME NEW p \in {"authorize", "relogin", "send", "backoff"}
      PROVE  Go(w, p) \in Calls /\ Fits(Go(w, p))
  <2>1. Go(w, p).pc = p /\ Go(w, p).conn = work[w].conn
    BY <1>0 DEF Go, Calls, Outcomes
  <2> QED
    BY <1>0, <2>1, GoTyped DEF Fits, Points
<1>3. ASSUME NEW o \in {"refused", "failed"}
      PROVE  Again(w, o) \in Calls /\ Fits(Again(w, o))
  <2>1. Again(w, o).pc \in {"idle", "backoff"} /\ (Again(w, o).pc = "backoff" => Again(w, o).conn = work[w].conn)
    BY <1>0 DEF Again, Done, Idle, Go, Calls, Outcomes
  <2> QED
    BY <1>0, <2>1, AgainTyped DEF Fits
<1>4. Retry(w) \in Calls /\ Fits(Retry(w))
  <2>1. Done(w, "failed").pc = "idle"
    BY DEF Done, Idle
  <2> QED
    BY <1>0, <1>3, <2>1, RetryTyped DEF Retry, Fits
<1>5. Relogged(w) \in Calls /\ Fits(Relogged(w))
  <2>1. Relogged(w) \in Calls
    BY <1>0, ReloggedTyped
  <2>2. Relogged(w).pc \in {"idle", "send", "backoff"}
        /\ (Relogged(w).pc # "idle" => Relogged(w).conn = work[w].conn)
    BY <1>0 DEF Relogged, Again, Done, Idle, Go, Calls, Outcomes
  <2> QED
    BY <1>0, <2>1, <2>2 DEF Fits
<1> QED
  BY <1>1, <1>2, <1>3, <1>4, <1>5

\* A step that changes one call, and of the shared state at most takes
\* sessions away.
LEMMA CallStepTyped ==
    ASSUME TypeInv, NEW w \in Workers, NEW to \in Calls, Fits(to),
           work' = [work EXCEPT ![w] = to],
           UNCHANGED <<cache, evicted, conns, flights, next>>,
           valid' \subseteq valid,
           count' \in [requests : Nat, faults : Nat]
    PROVE  TypeInv'
<1>1. Typed'
  BY WorkTyped DEF TypeInv, Typed
<1>2. \A v \in Workers : work'[v] \in Calls /\ Fits(work'[v])
  BY <1>1, WorkersFit DEF TypeInv, Typed
<1>3. TypeOK'
  BY <1>1, <1>2 DEF TypeInv, Typed, TypeOK, Fits, Calls, Outcomes
<1> QED
  BY <1>1, <1>3 DEF TypeInv

LEMMA MoveTyped ==
    ASSUME TypeInv, NEW w \in Workers, NEW to \in Calls, Fits(to), Move(w, to)
    PROVE  TypeInv'
<1>1. count' \in [requests : Nat, faults : Nat]
  BY DEF Move, TypeInv, Typed
<1> QED
  BY <1>1, CallStepTyped DEF Move

LEMMA FaultTyped ==
    ASSUME Typed, Fault
    PROVE  count' \in [requests : Nat, faults : Nat]
BY DEF Typed, Fault

LEMMA LookupTyped ==
    ASSUME TypeInv, NEW w \in Workers, Lookup(w)
    PROVE  TypeInv'
<1>0. Typed /\ TypeOK /\ work[w] \in Calls
  BY DEF TypeInv, Typed
<1>1. CASE ~Cached(Key(w))
  <2>1. Go(w, "dial") \in Calls /\ Go(w, "dial").pc = "dial"
    BY <1>0, GoTyped, GoPoint DEF Points
  <2> QED
    BY <1>1, <2>1, MoveTyped DEF Lookup, Fits
<1>2. CASE Cached(Key(w))
  <2> DEFINE k == Place(Key(w))
  <2>1. k \in DOMAIN cache
    BY <1>2, PlaceFound
  <2>2. cache[k].conn \in DOMAIN conns /\ cache[k].conn \in Nat
    BY <1>0, <2>1 DEF Typed, TypeOK
  <2>3. Hit(w) \in Calls /\ Hit(w).pc = "authorize" /\ Hit(w).conn = cache[k].conn
    BY <1>0, <2>2, UseTyped DEF Hit
  <2>4. /\ cache' = Touched(k) /\ work' = [work EXCEPT ![w] = Hit(w)]
        /\ UNCHANGED <<evicted, conns, flights, valid, next, count>>
    BY <1>2 DEF Lookup
  <2>5. Typed'
    BY <1>0, <2>1, <2>3, <2>4, TouchedTyped, WorkTyped DEF Typed
  <2>6. /\ Len(cache') <= MaxCached
        /\ \A i \in DOMAIN cache' : cache'[i].conn \in DOMAIN conns'
        /\ \A i, j \in DOMAIN cache' : cache'[i].key = cache'[j].key => i = j
    <3>1. DOMAIN cache' = DOMAIN cache /\ Len(cache') = Len(cache)
      BY <1>0, <2>1, <2>4, TouchedTyped
    <3> HIDE DEF k
    <3>2. \A i, j \in DOMAIN cache : i # j =>
             \E m, n \in DOMAIN cache : m # n /\ Touched(k)[i] = cache[m] /\ Touched(k)[j] = cache[n]
      BY <1>0, <2>1, TouchedFrom
    <3>3. \A i \in DOMAIN cache : \E m \in DOMAIN cache : Touched(k)[i] = cache[m]
      BY <1>0, <2>1, TouchedFrom
    <3>4. \A i \in DOMAIN cache' : cache'[i].conn \in DOMAIN conns'
      BY <1>0, <2>4, <3>1, <3>3 DEF TypeOK
    <3>5. ASSUME NEW i \in DOMAIN cache', NEW j \in DOMAIN cache', i # j
          PROVE  cache'[i].key # cache'[j].key
      <4>1. PICK m \in DOMAIN cache, n \in DOMAIN cache :
              m # n /\ cache'[i] = cache[m] /\ cache'[j] = cache[n]
        BY <2>4, <3>1, <3>2, <3>5
      <4> QED
        BY <1>0, <4>1 DEF TypeOK
    <3> QED
      BY <1>0, <3>1, <3>4, <3>5 DEF TypeOK
  <2>7. \A v \in Workers : work'[v] \in Calls /\ Fits(work'[v])
    BY <2>2, <2>3, <2>4, <2>5, WorkersFit DEF Typed, Fits
  <2>8. TypeOK'
    BY <1>0, <2>4, <2>5, <2>6, <2>7 DEF Typed, TypeOK, Fits, Calls, Outcomes
  <2> QED
    BY <2>5, <2>8 DEF TypeInv
<1> QED
  BY <1>1, <1>2

\* What dialing leaves in the cache: the entry made, and of the old ones at
\* least all but the first.
LEMMA Dialed ==
    ASSUME TypeInv, NEW w \in Workers, Dial(w), ~Cached(Key(w))
    PROVE  LET c == Len(conns) + 1
               new == [key |-> Key(w), conn |-> c]
           IN  /\ conns' = Append(conns, NewConnection(Key(w)))
               /\ conns' \in Seq(Connections) /\ DOMAIN conns' = 1..c
               /\ c \in Nat \ DOMAIN conns
               /\ cache' \in Seq(Entries) /\ Len(cache') <= MaxCached
               /\ \E j \in DOMAIN cache' : cache'[j] = new
               /\ \A i \in DOMAIN cache' : cache'[i] = new \/ \E m \in DOMAIN cache : cache'[i] = cache[m]
               /\ \A i, j \in DOMAIN cache' : cache'[i].key = cache'[j].key => i = j
               /\ evicted \subseteq evicted' /\ evicted' \subseteq Nat
               /\ \A m \in DOMAIN cache : \/ \E j \in DOMAIN cache' : cache'[j] = cache[m]
                                          \/ cache[m].conn \in evicted'
<1> DEFINE c == Len(conns) + 1
           new == [key |-> Key(w), conn |-> c]
           full == Len(cache) >= MaxCached
           kept == IF full THEN Tail(cache) ELSE cache
<1>0. /\ Typed /\ TypeOK /\ Key(w) \in Keys
      /\ Len(cache) \in Nat /\ DOMAIN cache = 1..Len(cache)
      /\ Len(conns) \in Nat /\ DOMAIN conns = 1..Len(conns)
      /\ MaxCached \in Nat \ {0}
  BY RequestTyped, RestAssumption DEF TypeInv, Typed
<1>1. /\ conns' = Append(conns, NewConnection(Key(w)))
      /\ cache' = Append(kept, new)
      /\ evicted' = evicted \cup IF full THEN {Head(cache).conn} ELSE {}
  BY DEF Dial
<1>2. NewConnection(Key(w)) \in Connections
  BY DEF NewConnection, Connections
<1>3. conns' \in Seq(Connections) /\ DOMAIN conns' = 1..c
  BY <1>0, <1>1, <1>2 DEF Typed
<1>4. new \in Entries
  BY <1>0 DEF Entries
<1>5. full => cache # <<>> /\ Head(cache) = cache[1] /\ 1 \in DOMAIN cache
  BY <1>0 DEF Typed
<1>6. /\ kept \in Seq(Entries) /\ Len(kept) \in Nat /\ DOMAIN kept = 1..Len(kept)
      /\ Len(kept) < MaxCached
      /\ \A i \in DOMAIN kept : kept[i] = cache[IF full THEN i + 1 ELSE i]
      /\ \A i \in DOMAIN kept : (IF full THEN i + 1 ELSE i) \in DOMAIN cache
      /\ \A m \in DOMAIN cache : (full /\ m = 1) \/ \E j \in DOMAIN kept : kept[j] = cache[m]
  <2>1. CASE full
    <3>1. kept = Tail(cache)
      BY <2>1
    <3> HIDE DEF kept
    <3>2. /\ kept \in Seq(Entries) /\ Len(kept) = Len(cache) - 1
          /\ DOMAIN kept = 1..(Len(cache) - 1)
          /\ \A i \in 1..(Len(cache) - 1) : kept[i] = cache[i + 1]
      BY <1>0, <1>5, <2>1, <3>1 DEF Typed
    <3>3. Len(cache) <= MaxCached
      BY <1>0 DEF TypeOK
    <3>4. ASSUME NEW m \in DOMAIN cache, m # 1
          PROVE  \E j \in DOMAIN kept : kept[j] = cache[m]
      <4>1. m - 1 \in 1..(Len(cache) - 1) /\ (m - 1) + 1 = m
        BY <1>0, <3>4
      <4> QED
        BY <3>2, <4>1
    <3>5. /\ \A i \in DOMAIN kept : kept[i] = cache[i + 1] /\ i + 1 \in DOMAIN cache
          /\ Len(kept) < MaxCached /\ Len(kept) \in Nat
      BY <1>0, <1>5, <2>1, <3>2, <3>3
    <3> QED
      BY <2>1, <3>2, <3>4, <3>5
  <2>2. CASE ~full
    BY <1>0, <2>2 DEF Typed
  <2> QED
    BY <2>1, <2>2
<1> HIDE DEF kept, new
<1>7. /\ cache' \in Seq(Entries) /\ Len(cache') = Len(kept) + 1
      /\ DOMAIN cache' = 1..(Len(kept) + 1)
      /\ cache'[Len(kept) + 1] = new
      /\ \A i \in DOMAIN kept : cache'[i] = kept[i]
  BY <1>1, <1>4, <1>6
<1>8. \E j \in DOMAIN cache' : cache'[j] = new
  BY <1>6, <1>7
<1>9. \A i \in DOMAIN cache' : cache'[i] = new \/ \E m \in DOMAIN cache : cache'[i] = cache[m]
  <2>1. \A i \in DOMAIN kept : \E m \in DOMAIN cache : kept[i] = cache[m]
    BY <1>6
  <2>2. \A i \in DOMAIN cache' : i \in DOMAIN kept \/ i = Len(kept) + 1
    BY <1>6, <1>7
  <2> QED
    BY <1>7, <2>1, <2>2
<1>10. ASSUME NEW i \in DOMAIN cache', NEW j \in DOMAIN cache', cache'[i].key = cache'[j].key
       PROVE  i = j
  <2>1. (i \in DOMAIN kept \/ i = Len(kept) + 1) /\ (j \in DOMAIN kept \/ j = Len(kept) + 1)
    BY <1>6, <1>7
  <2>2. \A m \in DOMAIN kept : kept[m].key # Key(w)
    BY <1>6 DEF Cached
  <2>3. new.key = Key(w)
    BY DEF new
  <2>4. \A m, n \in DOMAIN kept : kept[m].key = kept[n].key => m = n
    <3>1. \A m, n \in DOMAIN cache : cache[m].key = cache[n].key => m = n
      BY <1>0 DEF TypeOK
    <3>2. ASSUME NEW m \in DOMAIN kept, NEW n \in DOMAIN kept, kept[m].key = kept[n].key
          PROVE  (IF full THEN m + 1 ELSE m) = (IF full THEN n + 1 ELSE n)
      BY <1>6, <3>1, <3>2
    <3> QED
      BY <1>6, <3>2
  <2> QED
    BY <1>7, <1>10, <2>1, <2>2, <2>3, <2>4
<1>11. evicted \subseteq evicted' /\ evicted' \subseteq Nat
  <2>1. full => Head(cache).conn \in Nat
    BY <1>0, <1>5, EntryTyped
  <2>2. evicted \subseteq Nat
    BY <1>0 DEF Typed
  <2> QED
    BY <1>1, <2>1, <2>2
<1>12. ASSUME NEW m \in DOMAIN cache
       PROVE  (\E j \in DOMAIN cache' : cache'[j] = cache[m]) \/ cache[m].conn \in evicted'
  <2>1. CASE full /\ m = 1
    BY <1>1, <1>5, <2>1
  <2>2. CASE \E j \in DOMAIN kept : kept[j] = cache[m]
    BY <1>6, <1>7, <2>2
  <2> QED
    BY <1>6, <2>1, <2>2
<1>13. Len(cache') <= MaxCached /\ c \in Nat \ DOMAIN conns
  BY <1>0, <1>6, <1>7
<1> QED
  BY <1>1, <1>3, <1>7, <1>8, <1>9, <1>10, <1>11, <1>12, <1>13 DEF new

LEMMA DialTyped ==
    ASSUME TypeInv, NEW w \in Workers, Dial(w)
    PROVE  TypeInv'
<1>0. Typed /\ TypeOK /\ work[w] \in Calls
  BY DEF TypeInv, Typed
<1>1. CASE Cached(Key(w))
  <2>1. Place(Key(w)) \in DOMAIN cache
    BY <1>1, PlaceFound
  <2>2. cache[Place(Key(w))].conn \in DOMAIN conns /\ cache[Place(Key(w))].conn \in Nat
    BY <1>0, <2>1, EntryTyped DEF TypeOK
  <2>3. Hit(w) \in Calls /\ Fits(Hit(w))
    BY <1>0, <2>2, UseTyped DEF Hit, Fits
  <2> QED
    BY <1>1, <2>3, MoveTyped DEF Dial
<1>2. CASE ~Cached(Key(w))
  <2> DEFINE c == Len(conns) + 1
             new == [key |-> Key(w), conn |-> c]
  <2>1. /\ conns' = Append(conns, NewConnection(Key(w)))
        /\ conns' \in Seq(Connections) /\ DOMAIN conns' = 1..c
        /\ cache' \in Seq(Entries) /\ Len(cache') <= MaxCached
        /\ \A i \in DOMAIN cache' : cache'[i] = new \/ \E m \in DOMAIN cache : cache'[i] = cache[m]
        /\ \A i, j \in DOMAIN cache' : cache'[i].key = cache'[j].key => i = j
        /\ evicted' \subseteq Nat /\ c \in Nat
    BY <1>2, Dialed
  <2>2. /\ work' = [work EXCEPT ![w] = Use(w, c)]
        /\ UNCHANGED <<flights, valid, next, count>>
    BY <1>2 DEF Dial
  <2>3. Use(w, c) \in Calls /\ Use(w, c).pc = "authorize" /\ Use(w, c).conn = c
    BY <1>0, <2>1, UseTyped
  <2>4. Typed'
    BY <1>0, <2>1, <2>2, <2>3, WorkTyped DEF Typed
  <2>5. conns \in Seq(Connections) /\ Len(conns) \in Nat /\ DOMAIN conns = 1..Len(conns)
    BY <1>0 DEF Typed
  <2>6. DOMAIN conns \subseteq DOMAIN conns' /\ c \in DOMAIN conns'
    BY <2>1, <2>5
  <2>7. \A i \in DOMAIN cache' : cache'[i].conn \in DOMAIN conns'
    <3>1. new.conn = c
      OBVIOUS
    <3>2. \A m \in DOMAIN cache : cache[m].conn \in DOMAIN conns'
      BY <1>0, <2>6 DEF TypeOK
    <3> HIDE DEF new, c
    <3> QED
      BY <2>1, <2>6, <3>1, <3>2
  <2>8. \A d \in DOMAIN conns' : conns'[d].bearer \in 0..(next' - 1)
                                   /\ conns'[d].flight \in 0..Len(flights')
    <3>1. next \in Nat \ {0, 1}
      BY <1>0 DEF Typed
    <3>1a. Len(flights) \in Nat
      BY <1>0 DEF Typed
    <3>2. NewConnection(Key(w)).flight = 0
      BY DEF NewConnection
    <3>3. NewConnection(Key(w)).bearer \in 0..(next - 1)
      BY <3>1 DEF NewConnection
    <3>4. conns'[c] = NewConnection(Key(w))
      BY <2>1, <2>5
    <3>5. \A d \in DOMAIN conns' : (d \in DOMAIN conns /\ conns'[d] = conns[d]) \/ d = c
      BY <2>1, <2>5
    <3>6. \A d \in DOMAIN conns : conns[d].bearer \in 0..(next - 1) /\ conns[d].flight \in 0..Len(flights)
      BY <1>0 DEF TypeOK
    <3> HIDE DEF c
    <3> QED
      BY <2>2, <3>1a, <3>2, <3>3, <3>4, <3>5, <3>6
  <2>9. \A v \in Workers :
          /\ work'[v].pc \in Points
          /\ work'[v].attempt \in 0..MaxRetries
          /\ work'[v].pc \notin {"idle", "lookup", "dial"} => work'[v].conn \in DOMAIN conns'
          /\ work'[v].pc \in {"login", "logged", "wait"} => work'[v].flight \in DOMAIN flights'
    <3>1. \A v \in Workers : work'[v] \in Calls
      BY <2>4 DEF Typed
    <3>2. work'[w].pc = "authorize" /\ work'[w].conn = c
      BY <1>0, <2>2, <2>3 DEF Typed
    <3>3. \A v \in Workers : v # w => work'[v] = work[v] /\ Fits(work[v])
      BY <1>0, <2>2, WorkersFit DEF Typed
    <3> HIDE DEF c
    <3> QED
      BY <2>2, <2>6, <3>1, <3>2, <3>3 DEF Calls, Fits, Outcomes
  <2>10. valid' \subseteq 1..(next' - 1)
    BY <1>0, <2>2 DEF TypeOK
  <2> QED
    BY <2>1, <2>4, <2>7, <2>8, <2>9, <2>10 DEF TypeInv, TypeOK
<1> QED
  BY <1>1, <1>2

LEMMA ReloginTyped ==
    ASSUME TypeInv, NEW w \in Workers, Relogin(w)
    PROVE  TypeInv'
<1>0. Typed /\ TypeOK /\ work[w] \in Calls /\ work[w].pc = "relogin" /\ Busy(w)
      /\ work[w].conn \in DOMAIN conns
  BY DEF TypeInv, Typed, TypeOK, Relogin, Is, Busy
<1>1. Conn(w) \in Connections /\ Conn(w).flight \in 0..Len(flights) /\ Conn(w).bearer \in 0..(next - 1)
  BY <1>0, ConnTyped DEF Conn, TypeOK
<1>2. flights \in Seq({"open"} \cup Outcomes) /\ Len(flights) \in Nat
      /\ DOMAIN flights = 1..Len(flights)
  BY <1>0 DEF Typed
<1>3. CASE Key(w) \notin Passwords
  BY <1>0, <1>3, GoesOn, MoveTyped DEF Relogin, Outcomes
<1>4. CASE Key(w) \in Passwords /\ Conn(w).flight # 0
  <2> DEFINE to == [Go(w, "wait") EXCEPT !.flight = Conn(w).flight]
  <2>1. Go(w, "wait") \in Calls /\ Go(w, "wait").conn = work[w].conn /\ Go(w, "wait").pc = "wait"
    BY <1>0, GoTyped, GoPoint DEF Points
  <2>2. Conn(w).flight \in DOMAIN flights /\ Conn(w).flight \in Nat
    BY <1>1, <1>2, <1>4
  <2>3. to \in Calls /\ to.conn = work[w].conn /\ to.flight = Conn(w).flight
    BY <2>1, <2>2 DEF Calls, Outcomes
  <2>4. Fits(to)
    BY <1>0, <2>2, <2>3 DEF Fits
  <2>5. Move(w, to)
    BY <1>4 DEF Relogin
  <2> HIDE DEF to
  <2> QED
    BY <2>3, <2>4, <2>5, MoveTyped
<1>5. CASE Key(w) \in Passwords /\ Conn(w).flight = 0
  <2> DEFINE f == Len(flights) + 1
             to == [Go(w, "login") EXCEPT !.flight = f]
  <2>1. /\ flights' = Append(flights, "open")
        /\ conns' = [conns EXCEPT ![work[w].conn].flight = f]
        /\ work' = [work EXCEPT ![w] = to]
        /\ UNCHANGED <<cache, evicted, valid, next, count>>
    BY <1>5 DEF Relogin
  <2>2. Go(w, "login") \in Calls /\ Go(w, "login").conn = work[w].conn
    BY <1>0, GoTyped, GoPoint DEF Points
  <2>3. f \in Nat
    BY <1>2
  <2>4. to \in Calls /\ to.conn = work[w].conn /\ to.flight = f
    BY <2>2, <2>3 DEF Calls, Outcomes
  <2>5. flights' \in Seq({"open"} \cup Outcomes) /\ DOMAIN flights' = 1..f /\ Len(flights') = f
    BY <1>2, <2>1
  <2>6. conns \in Seq(Connections) /\ DOMAIN conns' = DOMAIN conns /\ Len(conns) \in Nat
        /\ DOMAIN conns = 1..Len(conns)
    BY <1>0, <2>1 DEF Typed
  <2>7. \A d \in DOMAIN conns : conns[d] \in Connections
    BY <1>0, ConnTyped
  <2>8. \A d \in DOMAIN conns : conns'[d] \in Connections /\ conns'[d].bearer = conns[d].bearer
                               /\ conns'[d].flight \in {conns[d].flight, f}
    BY <2>1, <2>3, <2>7 DEF Connections
  <2> HIDE DEF f, to
  <2>9. conns' \in Seq(Connections)
    <3>1. [conns[work[w].conn] EXCEPT !.flight = f] \in Connections
      BY <1>0, <2>3, <2>7 DEF Connections
    <3>2. conns' = [conns EXCEPT ![work[w].conn] = [conns[work[w].conn] EXCEPT !.flight = f]]
      BY <2>1
    <3> QED
      BY <1>0, <3>1, <3>2, ConnsTyped
  <2>10. Typed'
    BY <1>0, <2>1, <2>4, <2>5, <2>9, WorkTyped DEF Typed
  <2>11. \A d \in DOMAIN conns' : conns'[d].bearer \in 0..(next' - 1) /\ conns'[d].flight \in 0..Len(flights')
    BY <1>0, <1>2, <2>1, <2>3, <2>5, <2>6, <2>8 DEF TypeOK, f
  <2>12. \A v \in Workers : Fits(work[v])
    BY WorkersFit
  <2>13. \A v \in Workers : work'[v].pc \notin {"idle", "lookup", "dial"} => work'[v].conn \in DOMAIN conns'
    BY <1>0, <2>1, <2>4, <2>6, <2>12 DEF Typed, Fits
  <2>14. \A v \in Workers : work'[v].pc \in {"login", "logged", "wait"} => work'[v].flight \in DOMAIN flights'
    BY <1>0, <1>2, <2>1, <2>3, <2>4, <2>5, <2>12 DEF Typed, Fits, f
  <2>15. TypeOK'
    BY <1>0, <2>1, <2>6, <2>10, <2>11, <2>13, <2>14 DEF Typed, TypeOK, Calls, Outcomes
  <2> QED
    BY <2>10, <2>15 DEF TypeInv
<1> QED
  BY <1>3, <1>4, <1>5

LEMMA LoginTyped ==
    ASSUME TypeInv, NEW w \in Workers, Login(w)
    PROVE  TypeInv'
<1>0. Typed /\ TypeOK /\ work[w] \in Calls /\ work[w].pc = "login" /\ Fits(work[w])
      /\ work[w].conn \in DOMAIN conns
  BY WorkersFit DEF TypeInv, Typed, TypeOK, Login, Is
<1>1. \A o \in {"ok", "failed"} :
        LET to == [Go(w, "logged") EXCEPT !.out = o]
        IN  to \in Calls /\ to.conn = work[w].conn /\ to.flight = work[w].flight /\ Fits(to)
  <2>1. Go(w, "logged") \in Calls /\ Go(w, "logged").conn = work[w].conn
    BY <1>0, GoTyped, GoPoint DEF Points
  <2>2. Go(w, "logged").flight = work[w].flight
    BY <1>0 DEF Go, Calls, Outcomes
  <2> QED
    BY <1>0, <2>1, <2>2 DEF Calls, Fits, Outcomes
<1>2. CASE /\ valid' = valid \cup {next} /\ next' = next + 1
           /\ conns' = [conns EXCEPT ![work[w].conn].bearer = next]
           /\ work' = [work EXCEPT ![w] = [Go(w, "logged") EXCEPT !.out = "ok"]]
           /\ UNCHANGED count
  <2> DEFINE to == [Go(w, "logged") EXCEPT !.out = "ok"]
  <2>1. to \in Calls /\ Fits(to) /\ work' = [work EXCEPT ![w] = to]
        /\ UNCHANGED <<cache, evicted, flights>>
    BY <1>1, <1>2 DEF Login
  <2>2. next \in Nat /\ next' \in Nat \ {0, 1} /\ valid' \subseteq Nat
    BY <1>0, <1>2 DEF Typed
  <2>3. conns \in Seq(Connections) /\ DOMAIN conns' = DOMAIN conns /\ Len(conns) \in Nat
        /\ DOMAIN conns = 1..Len(conns)
    BY <1>0, <1>2 DEF Typed
  <2>4. \A d \in DOMAIN conns : conns[d] \in Connections
    BY <1>0, ConnTyped
  <2>5. \A d \in DOMAIN conns : conns'[d] \in Connections /\ conns'[d].flight = conns[d].flight
                               /\ conns'[d].bearer \in {conns[d].bearer, next}
    BY <1>2, <2>2, <2>4 DEF Connections
  <2>6. conns' \in Seq(Connections)
    <3>1. [conns[work[w].conn] EXCEPT !.bearer = next] \in Connections
      BY <1>0, <2>2, <2>4 DEF Connections
    <3>2. conns' = [conns EXCEPT ![work[w].conn] = [conns[work[w].conn] EXCEPT !.bearer = next]]
      BY <1>2
    <3> QED
      BY <1>0, <3>1, <3>2, ConnsTyped
  <2> HIDE DEF to
  <2>7. Typed'
    BY <1>0, <1>2, <2>1, <2>2, <2>6, WorkTyped DEF Typed
  <2>8. \A d \in DOMAIN conns' : conns'[d].bearer \in 0..(next' - 1) /\ conns'[d].flight \in 0..Len(flights')
    BY <1>0, <1>2, <2>1, <2>2, <2>3, <2>5 DEF TypeOK
  <2>9. valid' \subseteq 1..(next' - 1)
    <3>1. valid \subseteq 1..(next - 1) /\ next \in Nat \ {0, 1}
      BY <1>0 DEF Typed, TypeOK
    <3> QED
      BY <1>2, <3>1
  <2>10. \A v \in Workers : Fits(work'[v])
    BY <1>0, <2>1, WorkersFit DEF Typed
  <2>11. TypeOK'
    BY <1>0, <2>1, <2>3, <2>7, <2>8, <2>9, <2>10 DEF Typed, TypeOK, Fits, Calls, Outcomes
  <2> QED
    BY <2>7, <2>11 DEF TypeInv
<1>3. CASE /\ IF work[w].ended THEN UNCHANGED count ELSE Fault
           /\ work' = [work EXCEPT ![w] = [Go(w, "logged") EXCEPT !.out = "failed"]]
           /\ UNCHANGED <<valid, next, conns>>
  <2>1. count' \in [requests : Nat, faults : Nat]
    BY <1>0, <1>3, FaultTyped DEF Typed
  <2> DEFINE to == [Go(w, "logged") EXCEPT !.out = "failed"]
  <2>2. to \in Calls /\ Fits(to) /\ work' = [work EXCEPT ![w] = to]
        /\ UNCHANGED <<cache, evicted, conns, flights, next, valid>>
    BY <1>1, <1>3 DEF Login
  <2> HIDE DEF to
  <2> QED
    BY <2>1, <2>2, CallStepTyped
<1> QED
  BY <1>2, <1>3 DEF Login

LEMMA LoginDoneTyped ==
    ASSUME TypeInv, NEW w \in Workers, LoginDone(w)
    PROVE  TypeInv'
<1> DEFINE to == IF work[w].out = "ok" THEN [Relogged(w) EXCEPT !.out = "none"] ELSE Done(w, "failed")
<1>0. Typed /\ TypeOK /\ work[w] \in Calls /\ work[w].pc = "logged" /\ Busy(w)
      /\ work[w].conn \in DOMAIN conns /\ work[w].flight \in DOMAIN flights
  BY WorkersFit DEF TypeInv, Typed, TypeOK, Fits, LoginDone, Is, Busy
<1>1. to \in Calls /\ Fits(to)
  <2>1. Relogged(w) \in Calls /\ Fits(Relogged(w)) /\ Done(w, "failed") \in Calls /\ Fits(Done(w, "failed"))
    BY <1>0, GoesOn DEF Outcomes
  <2> QED
    BY <2>1 DEF Calls, Fits, Outcomes
<1>2. /\ flights' = [flights EXCEPT ![work[w].flight] = work[w].out]
      /\ conns' = [conns EXCEPT ![work[w].conn].flight = 0]
      /\ work' = [work EXCEPT ![w] = to]
      /\ UNCHANGED <<cache, evicted, valid, next, count>>
  BY DEF LoginDone
<1> HIDE DEF to
<1>3. conns' \in Seq(Connections)
  <2>1. [conns[work[w].conn] EXCEPT !.flight = 0] \in Connections
    BY <1>0, ConnTyped DEF Connections
  <2>2. conns' = [conns EXCEPT ![work[w].conn] = [conns[work[w].conn] EXCEPT !.flight = 0]]
    BY <1>2
  <2> QED
    BY <1>0, <2>1, <2>2, ConnsTyped
<1>4. /\ flights' \in Seq({"open"} \cup Outcomes)
      /\ DOMAIN flights' = DOMAIN flights /\ Len(flights') = Len(flights)
  <2>1. flights \in [1..Len(flights) -> {"open"} \cup Outcomes] /\ Len(flights) \in Nat
        /\ DOMAIN flights = 1..Len(flights)
    BY <1>0 DEF Typed
  <2>2. work[w].out \in Outcomes
    BY <1>0 DEF Calls
  <2>3. flights' \in [1..Len(flights) -> {"open"} \cup Outcomes]
    BY <1>2, <2>1, <2>2
  <2> QED
    BY <2>1, <2>3
<1>5. Typed'
  BY <1>0, <1>1, <1>2, <1>3, <1>4, WorkTyped DEF Typed
<1>6. DOMAIN conns' = DOMAIN conns
  BY <1>2
<1>7. \A d \in DOMAIN conns' : conns'[d].bearer \in 0..(next' - 1) /\ conns'[d].flight \in 0..Len(flights')
  <2>1. \A d \in DOMAIN conns : conns[d] \in Connections
    BY <1>0, ConnTyped
  <2>2. \A d \in DOMAIN conns : conns'[d].bearer = conns[d].bearer
                               /\ conns'[d].flight \in {conns[d].flight, 0}
    BY <1>2, <2>1 DEF Connections
  <2>3. 0 \in 0..Len(flights)
    BY <1>0 DEF Typed
  <2> QED
    BY <1>0, <1>2, <1>4, <1>6, <2>2, <2>3 DEF TypeOK
<1>8. \A v \in Workers : Fits(work'[v])
  BY <1>0, <1>1, <1>2, WorkersFit DEF Typed
<1>9. TypeOK'
  BY <1>0, <1>2, <1>4, <1>5, <1>6, <1>7, <1>8 DEF Typed, TypeOK, Fits, Calls
<1> QED
  BY <1>5, <1>9 DEF TypeInv

\* The type invariant is inductive.
LEMMA TypeStep ==
    ASSUME TypeInv, [Next]_vars
    PROVE  TypeInv'
<1>1. CASE UNCHANGED vars
  BY <1>1 DEF TypeInv, Typed, TypeOK, vars
<1>2. ASSUME NEW w \in Workers, Call(w)
      PROVE  TypeInv'
  <2>0. Typed /\ count \in [requests : Nat, faults : Nat]
    BY DEF TypeInv, Typed
  <2>1. PICK r \in Requests : work' = [work EXCEPT ![w] = [Idle EXCEPT !.pc = "lookup", !.req = r]]
    BY <1>2 DEF Call
  <2> DEFINE to == [Idle EXCEPT !.pc = "lookup", !.req = r]
  <2>2. to \in Calls /\ to.pc = "lookup"
    BY IdleTyped DEF Calls, Points, Outcomes
  <2>3. count' \in [requests : Nat, faults : Nat]
    BY <1>2, <2>0 DEF Call
  <2>4. Fits(to)
    BY <2>2 DEF Fits
  <2> QED
    BY <1>2, <2>1, <2>2, <2>3, <2>4, CallStepTyped DEF Call
<1>3. ASSUME NEW w \in Workers, CallerLeaves(w)
      PROVE  TypeInv'
  <2> DEFINE to == [work[w] EXCEPT !.ended = TRUE]
  <2>1. work[w] \in Calls /\ Fits(work[w])
    BY WorkersFit DEF TypeInv, Typed
  <2>2. to \in Calls /\ Fits(to)
    BY <2>1 DEF Calls, Fits, Outcomes
  <2>3. work' = [work EXCEPT ![w] = to]
    BY <1>3 DEF CallerLeaves
  <2>4. count' \in [requests : Nat, faults : Nat]
    BY <1>3, FaultTyped DEF CallerLeaves, TypeInv
  <2> HIDE DEF to
  <2> QED
    BY <1>3, <2>2, <2>3, <2>4, CallStepTyped DEF CallerLeaves
<1>4. CASE SessionEnds
  <2>1. valid' \subseteq valid /\ UNCHANGED <<cache, evicted, conns, flights, next, work>>
    BY <1>4 DEF SessionEnds
  <2>2. count' \in [requests : Nat, faults : Nat]
    BY <1>4, FaultTyped DEF SessionEnds, TypeInv
  <2>3. Typed'
    BY <2>1, <2>2 DEF TypeInv, Typed
  <2>4. TypeOK'
    BY <2>1 DEF TypeInv, TypeOK
  <2> QED
    BY <2>3, <2>4 DEF TypeInv
<1>5. ASSUME NEW w \in Workers, Backoff(w) \/ Authorize(w) \/ Wait(w) \/ Served(w) \/ Unauthorized(w)
                                \/ Lost(w) \/ Cancelled(w)
      PROVE  TypeInv'
  <2>0. Busy(w) /\ Typed /\ work[w] \in Calls
    BY <1>5 DEF Busy, Is, Backoff, Authorize, Wait, Served, Unauthorized, Lost, Cancelled, TypeInv, Typed
  <2>1. CASE Backoff(w)
    BY <2>0, <2>1, GoesOn, MoveTyped DEF Backoff, Outcomes
  <2>2. CASE Authorize(w)
    <3> DEFINE to == IF Conn(w).bearer = 0 THEN [Go(w, "relogin") EXCEPT !.back = "send"]
                     ELSE [Go(w, "send") EXCEPT !.tok = Conn(w).bearer]
    <3>1. Move(w, to)
      BY <2>2 DEF Authorize
    <3>2. /\ Go(w, "relogin") \in Calls /\ Fits(Go(w, "relogin"))
          /\ Go(w, "send") \in Calls /\ Fits(Go(w, "send"))
      BY <2>0, GoesOn DEF Outcomes
    <3>3. Conn(w).bearer \in Nat
      BY <2>0, ConnTyped DEF Conn, Connections, TypeInv, TypeOK, Busy
    <3>4. to \in Calls /\ Fits(to)
      BY <3>2, <3>3 DEF Calls, Fits, Outcomes
    <3> HIDE DEF to
    <3> QED
      BY <3>1, <3>4, MoveTyped
  <2>3. CASE Wait(w)
    BY <2>0, <2>3, GoesOn, MoveTyped DEF Wait, Outcomes
  <2>4. CASE Served(w)
    <3>1. Done(w, "ok") \in Calls /\ Done(w, "rejected") \in Calls /\ Done(w, "ok").pc = "idle"
          /\ Done(w, "rejected").pc = "idle"
      BY <2>0, DoneTyped DEF Outcomes, Done, Idle
    <3>2. [Done(w, "ok") EXCEPT !.applied = @ + 1] \in Calls
          /\ [Done(w, "ok") EXCEPT !.applied = @ + 1].pc = "idle"
      BY <3>1 DEF Calls
    <3> QED
      BY <2>4, <3>1, <3>2, MoveTyped DEF Served, Fits
  <2>5. CASE Unauthorized(w)
    <3> DEFINE to == [Go(w, "relogin") EXCEPT !.back = "next", !.tok = 0]
    <3>1. Go(w, "relogin") \in Calls /\ Fits(Go(w, "relogin"))
          /\ Done(w, "refused") \in Calls /\ Fits(Done(w, "refused"))
      BY <2>0, GoesOn DEF Outcomes
    <3>2. to \in Calls /\ Fits(to)
      BY <3>1 DEF Calls, Fits, Outcomes
    <3>3. Move(w, to) \/ Move(w, Done(w, "refused"))
      BY <2>5 DEF Unauthorized
    <3> HIDE DEF to
    <3> QED
      BY <3>1, <3>2, <3>3, MoveTyped
  <2>6. CASE Lost(w)
    <3>1. PICK n \in {0, 1} :
            work' = [work EXCEPT ![w] = [Retry(w) EXCEPT !.applied = @ + n, !.tok = 0]]
      BY <2>6 DEF Lost
    <3> DEFINE r  == Retry(w)
               to == [r EXCEPT !.applied = @ + n, !.tok = 0]
    <3>2. r \in Calls /\ Fits(r)
      BY <2>0, GoesOn DEF Outcomes
    <3>3. to \in Calls /\ Fits(to)
      <4> HIDE DEF r
      <4>1. r.applied + n \in Nat
        BY <3>2 DEF Calls
      <4> QED
        BY <3>2, <4>1 DEF Calls, Fits
    <3>4. count' \in [requests : Nat, faults : Nat]
      BY <2>0, <2>6, FaultTyped DEF Lost
    <3> HIDE DEF to
    <3>5. work' = [work EXCEPT ![w] = to]
      BY <3>1 DEF to
    <3> QED
      BY <2>6, <3>3, <3>4, <3>5, CallStepTyped DEF Lost
  <2>7. CASE Cancelled(w)
    <3>1. PICK n \in {0, 1} : Move(w, [Done(w, "ended") EXCEPT !.applied = @ + n])
      BY <2>7 DEF Cancelled
    <3> DEFINE to == [Done(w, "ended") EXCEPT !.applied = @ + n]
    <3>2. Done(w, "ended") \in Calls /\ Fits(Done(w, "ended"))
      BY <2>0, GoesOn DEF Outcomes
    <3>3. to \in Calls /\ Fits(to)
      BY <3>2 DEF Calls, Fits, Outcomes
    <3>4. Move(w, to)
      BY <3>1
    <3> HIDE DEF to
    <3> QED
      BY <3>3, <3>4, MoveTyped
  <2> QED
    BY <1>5, <2>1, <2>2, <2>3, <2>4, <2>5, <2>6, <2>7
<1> QED
  BY <1>1, <1>2, <1>3, <1>4, <1>5, LookupTyped, DialTyped, ReloginTyped, LoginTyped, LoginDoneTyped
     DEF Next, Step

LEMMA TypeInit == Init => TypeInv
<1> SUFFICES ASSUME Init PROVE TypeInv
  OBVIOUS
<1>1. Typed
  BY IdleTyped DEF Init, Typed
<1>2. TypeOK
  BY <1>1, RestAssumption DEF Init, Typed, TypeOK, Idle, Calls, Points
<1> QED
  BY <1>1, <1>2 DEF TypeInv

\* The cache stays within its limit and holds one Connection for each key, and
\* calls use Connections and logins that exist (client.go:533, client.go:383).
THEOREM ClientTypeCorrect == Spec => []TypeOK
<1>1. TypeInv => TypeOK
  BY DEF TypeInv
<1> QED
  BY TypeInit, TypeStep, <1>1, PTL DEF Spec

(***************************************************************************)
(* Requests that may not be replayed                                       *)
(***************************************************************************)

\* While such a request is under way it has not been applied yet.
OnceOf(t) ==
    /\ t.out = "ok" /\ t.pc = "idle" => t.applied > 0
    /\ t.req.method \notin ReplaySafe => t.applied <= (IF t.pc = "idle" THEN 1 ELSE 0)

OnceInv == \A w \in Workers : OnceOf(work[w])

\* t is a call of w later on, of which nothing more is known to be applied.
Later(w, t) ==
    /\ t.req = work[w].req /\ t.applied = work[w].applied
    /\ t.pc = "idle" => t.out # "ok"

LEMMA LaterCalls ==
    ASSUME Typed, NEW w \in Workers
    PROVE  /\ \A p \in Points \ {"idle"} : Later(w, Go(w, p))
           /\ \A o \in Outcomes \ {"ok"} : Later(w, Done(w, o))
           /\ \A o \in {"refused", "failed"} : Later(w, Again(w, o))
           /\ Later(w, Retry(w)) /\ Later(w, Relogged(w))
<1>0. work[w] \in Calls
  BY DEF Typed
<1>1. ASSUME NEW p \in Points \ {"idle"} PROVE Later(w, Go(w, p))
  BY <1>0, <1>1 DEF Later, Go, Calls, Outcomes
<1>2. ASSUME NEW o \in Outcomes \ {"ok"} PROVE Later(w, Done(w, o))
  BY <1>0, <1>2 DEF Later, Done, Idle
<1>3. ASSUME NEW o \in {"refused", "failed"} PROVE Later(w, Again(w, o))
  <2>1. Later(w, Done(w, o))
    BY <1>2 DEF Outcomes
  <2>2. Later(w, Go(w, "backoff"))
    BY <1>1 DEF Points
  <2>3. Go(w, "backoff") \in Calls /\ Go(w, "backoff").pc = "backoff"
    BY <1>0, GoTyped, GoPoint DEF Points
  <2>4. Later(w, [Go(w, "backoff") EXCEPT !.attempt = @ + 1])
    BY <2>2, <2>3 DEF Later, Calls
  <2> QED
    BY <2>1, <2>4 DEF Again
<1>4. Later(w, Retry(w))
  BY <1>2, <1>3 DEF Retry, Outcomes
<1>5. Later(w, Relogged(w))
  <2>1. Go(w, "send") \in Calls /\ Later(w, Go(w, "send"))
    BY <1>1, GoTyped DEF Points
  <2>2. Again(w, "refused") \in Calls /\ Later(w, Again(w, "refused"))
    BY <1>3, AgainTyped
  <2> QED
    BY <2>1, <2>2 DEF Relogged, Later, Calls
<1> QED
  BY <1>1, <1>2, <1>3, <1>4, <1>5

\* A step of one call that does not apply its request.
LEMMA OnceKept ==
    ASSUME TypeInv, OnceInv, NEW w \in Workers, Busy(w) \/ work[w].pc \in {"lookup", "dial"},
           NEW t, Later(w, t), work' = [work EXCEPT ![w] = t]
    PROVE  OnceInv'
<1>1. work[w] \in Calls /\ OnceOf(work[w]) /\ work[w].pc # "idle"
  BY DEF TypeInv, Typed, OnceInv, Busy
<1>2. OnceOf(t)
  BY <1>1 DEF Later, OnceOf, Calls
<1> QED
  BY <1>2 DEF OnceInv, TypeInv, Typed

LEMMA OnceStep ==
    ASSUME TypeInv, OnceInv, [Next]_vars
    PROVE  OnceInv'
<1>0. Typed /\ \A w \in Workers : work[w] \in Calls /\ OnceOf(work[w])
  BY DEF TypeInv, Typed, OnceInv
<1>1. CASE UNCHANGED vars \/ SessionEnds
  BY <1>1 DEF OnceInv, OnceOf, vars, SessionEnds
<1>2. ASSUME NEW w \in Workers, Call(w)
      PROVE  OnceInv'
  <2>1. PICK r \in Requests : work' = [work EXCEPT ![w] = [Idle EXCEPT !.pc = "lookup", !.req = r]]
    BY <1>2 DEF Call
  <2>2. OnceOf([Idle EXCEPT !.pc = "lookup", !.req = r])
    BY DEF OnceOf, Idle
  <2> QED
    BY <1>0, <2>1, <2>2 DEF OnceInv, Typed
<1>3. ASSUME NEW w \in Workers, CallerLeaves(w)
      PROVE  OnceInv'
  <2>1. OnceOf([work[w] EXCEPT !.ended = TRUE])
    BY <1>0 DEF OnceOf, Calls
  <2> QED
    BY <1>0, <1>3, <2>1 DEF OnceInv, Typed, CallerLeaves
<1>4. ASSUME NEW w \in Workers, Lookup(w) \/ Dial(w)
      PROVE  OnceInv'
  <2>1. \A c \in Nat : Later(w, Use(w, c))
    <3>1. Go(w, "authorize") \in Calls /\ Later(w, Go(w, "authorize")) /\ Go(w, "authorize").pc = "authorize"
      BY <1>0, GoTyped, GoPoint, LaterCalls DEF Points
    <3> QED
      BY <3>1 DEF Use, Later, Calls
  <2>2. Later(w, Go(w, "dial"))
    BY <1>0, LaterCalls DEF Points
  <2>3. Cached(Key(w)) => Later(w, Hit(w))
    BY <1>0, <2>1, PlaceFound, EntryTyped DEF Hit
  <2>4. Later(w, Use(w, Len(conns) + 1))
    <3>1. Len(conns) + 1 \in Nat
      BY <1>0 DEF Typed
    <3> QED
      BY <2>1, <3>1
  <2>5. \E t : Later(w, t) /\ work' = [work EXCEPT ![w] = t]
    BY <1>4, <2>2, <2>3, <2>4 DEF Lookup, Dial, Move
  <2> QED
    BY <1>4, <2>5, OnceKept DEF Lookup, Dial, Is
<1>5. ASSUME NEW w \in Workers, Backoff(w) \/ Authorize(w) \/ Relogin(w) \/ Wait(w) \/ Unauthorized(w)
      PROVE  OnceInv'
  <2>1. \A p \in {"authorize", "relogin", "send", "wait", "login"} : Go(w, p) \in Calls /\ Later(w, Go(w, p))
                                                                    /\ Go(w, p).pc = p
    BY <1>0, GoTyped, GoPoint, LaterCalls DEF Points
  <2>2. Later(w, [Go(w, "relogin") EXCEPT !.back = "send"])
        /\ Later(w, [Go(w, "relogin") EXCEPT !.back = "next", !.tok = 0])
    BY <2>1 DEF Later, Calls
  <2>3. Later(w, [Go(w, "send") EXCEPT !.tok = Conn(w).bearer])
        /\ Later(w, [Go(w, "wait") EXCEPT !.flight = Conn(w).flight])
        /\ Later(w, [Go(w, "login") EXCEPT !.flight = Len(flights) + 1])
    BY <2>1 DEF Later, Calls
  <2>4. \A o \in {"refused", "failed", "ended"} : Later(w, Done(w, o))
    BY <1>0, LaterCalls DEF Outcomes
  <2>5. Later(w, Relogged(w)) /\ Later(w, Go(w, "authorize"))
    BY <1>0, <2>1, LaterCalls
  <2>6. \E t : Later(w, t) /\ work' = [work EXCEPT ![w] = t]
    BY <1>5, <2>2, <2>3, <2>4, <2>5 DEF Backoff, Authorize, Relogin, Wait, Unauthorized, Move
  <2>7. Busy(w)
    BY <1>5 DEF Backoff, Authorize, Relogin, Wait, Unauthorized, Is, Busy
  <2> QED
    BY <2>6, <2>7, OnceKept
<1>6. ASSUME NEW w \in Workers, Login(w) \/ LoginDone(w)
      PROVE  OnceInv'
  <2>1. Go(w, "logged") \in Calls /\ Later(w, Go(w, "logged")) /\ Go(w, "logged").pc = "logged"
    BY <1>0, GoTyped, GoPoint, LaterCalls DEF Points
  <2>2. \A o \in {"ok", "failed"} : Later(w, [Go(w, "logged") EXCEPT !.out = o])
    BY <2>1 DEF Later, Calls
  <2>3. Later(w, Done(w, "failed"))
    BY <1>0, LaterCalls DEF Outcomes
  <2>4. Busy(w) /\ work[w].conn \in DOMAIN conns
    BY <1>6 DEF Login, LoginDone, Is, Busy, TypeInv, TypeOK
  <2>5. Later(w, [Relogged(w) EXCEPT !.out = "none"])
    <3>1. Relogged(w) \in Calls /\ Later(w, Relogged(w))
      BY <1>0, <2>4, LaterCalls, ReloggedTyped
    <3> QED
      BY <3>1 DEF Later, Calls
  <2>6. \E t : Later(w, t) /\ work' = [work EXCEPT ![w] = t]
    BY <1>6, <2>2, <2>3, <2>5 DEF Login, LoginDone
  <2> QED
    BY <2>4, <2>6, OnceKept
<1>7. ASSUME NEW w \in Workers, Served(w) \/ Lost(w) \/ Cancelled(w)
      PROVE  OnceInv'
  <2>0. work[w] \in Calls /\ OnceOf(work[w]) /\ work[w].pc = "send"
    BY <1>0, <1>7 DEF Served, Lost, Cancelled, Is
  <2>1. \A o \in Outcomes, n \in {0, 1} :
          (o = "ok" => n = 1) => OnceOf([Done(w, o) EXCEPT !.applied = @ + n])
    <3>1. ASSUME NEW o \in Outcomes, NEW n \in {0, 1}, o = "ok" => n = 1
          PROVE  OnceOf([Done(w, o) EXCEPT !.applied = @ + n])
      <4>1. /\ Done(w, o) \in Calls /\ Done(w, o).req = work[w].req /\ Done(w, o).applied = work[w].applied
            /\ Done(w, o).pc = "idle" /\ Done(w, o).out = o
        BY <1>0, DoneTyped DEF Done, Idle
      <4> QED
        BY <2>0, <3>1, <4>1 DEF OnceOf, Calls
    <3> QED
      BY <3>1
  <2>2. OnceOf(Done(w, "rejected"))
    <3>1. Later(w, Done(w, "rejected")) /\ Done(w, "rejected").pc = "idle"
      BY <1>0, LaterCalls DEF Outcomes, Done, Idle
    <3> QED
      BY <2>0, <3>1 DEF Later, OnceOf, Calls
  <2>3. ASSUME NEW n \in {0, 1}
        PROVE  OnceOf([Retry(w) EXCEPT !.applied = @ + n, !.tok = 0])
    <3> DEFINE r == Retry(w)
    <3>1. r \in Calls /\ Later(w, r)
      BY <1>0, RetryTyped, LaterCalls
    <3>2. work[w].req.method \notin ReplaySafe => r.pc = "idle"
      BY DEF Retry, Done, Idle
    <3> HIDE DEF r
    <3>3. [r EXCEPT !.applied = @ + n, !.tok = 0].applied = r.applied + n
      BY <3>1 DEF Calls
    <3>4. /\ [r EXCEPT !.applied = @ + n, !.tok = 0].req = r.req
          /\ [r EXCEPT !.applied = @ + n, !.tok = 0].pc = r.pc
          /\ [r EXCEPT !.applied = @ + n, !.tok = 0].out = r.out
      BY <3>1 DEF Calls
    <3>5. work[w].req.method \notin ReplaySafe => work[w].applied = 0
      BY <2>0 DEF OnceOf, Calls
    <3>6. OnceOf([r EXCEPT !.applied = @ + n, !.tok = 0])
      BY <3>1, <3>2, <3>3, <3>4, <3>5 DEF Later, OnceOf
    <3> QED
      BY <3>6 DEF r
  <2>4. \E t : OnceOf(t) /\ work' = [work EXCEPT ![w] = t]
    <3>1. CASE Served(w)
      <4>1. Move(w, [Done(w, "ok") EXCEPT !.applied = @ + 1]) \/ Move(w, Done(w, "rejected"))
        BY <3>1 DEF Served
      <4>2. OnceOf([Done(w, "ok") EXCEPT !.applied = @ + 1])
        BY <2>1 DEF Outcomes
      <4> QED
        BY <2>2, <4>1, <4>2 DEF Move
    <3>2. CASE Lost(w)
      BY <2>3, <3>2 DEF Lost
    <3>3. CASE Cancelled(w)
      BY <2>1, <3>3 DEF Cancelled, Move, Outcomes
    <3> QED
      BY <1>7, <3>1, <3>2, <3>3
  <2> QED
    BY <1>0, <2>4 DEF OnceInv, Typed
<1> QED
  BY <1>1, <1>2, <1>3, <1>4, <1>5, <1>6, <1>7 DEF Next, Step

\* A POST or DELETE takes effect at most once, and a call that succeeded has
\* taken effect: after an unclear outcome only GET, PUT and PATCH are sent
\* again, and a 401 means that the request was not applied (client.go:197-205).
THEOREM UnsafeCallsAreSentOnce == Spec => []SentOnce
<1>1. Init => OnceInv
  BY DEF Init, OnceInv, OnceOf, Idle
<1>2. TypeInv /\ OnceInv /\ [Next]_vars => OnceInv'
  BY OnceStep
<1>3. TypeInv /\ OnceInv => SentOnce
  BY DEF TypeInv, Typed, Calls, OnceInv, OnceOf, SentOnce, Is
<1> QED
  BY TypeInit, TypeStep, <1>1, <1>2, <1>3, PTL DEF Spec

(***************************************************************************)
(* Calls with the same credentials                                         *)
(***************************************************************************)

\* A busy call's Connection is cached for its key, or has been dropped.
UsesCached(w) ==
    \/ work[w].conn \in evicted
    \/ \E i \in DOMAIN cache : cache[i].key = Key(w) /\ cache[i].conn = work[w].conn

UsesInv == \A w \in Workers : Busy(w) => UsesCached(w)

Leading(t) == t.pc \in {"login", "logged"}

\* Connections share no flight, and a Connection's flight and the call that
\* leads it belong together.
FlightInv ==
    /\ \A c, d \in DOMAIN conns : conns[c].flight = conns[d].flight /\ conns[c].flight # 0 => c = d
    /\ \A c \in DOMAIN conns : conns[c].flight # 0 => \E w \in Workers : Leads(w, c)
    /\ \A w \in Workers : Leading(work[w]) =>
         conns[work[w].conn].flight = work[w].flight /\ flights[work[w].flight] = "open"
    /\ \A v, w \in Workers : Leading(work[v]) /\ Leading(work[w]) /\ work[v].conn = work[w].conn => v = w

\* t is a call of w later on, with the same Connection unless it has returned.
SameConn(w, t) == t.req = work[w].req /\ (t.pc # "idle" => t.conn = work[w].conn)

LEMMA SameConnCalls ==
    ASSUME Typed, NEW w \in Workers
    PROVE  /\ \A p \in Points : SameConn(w, Go(w, p)) /\ (p \notin {"login", "logged"} => ~Leading(Go(w, p)))
           /\ \A o \in Outcomes : SameConn(w, Done(w, o)) /\ ~Leading(Done(w, o))
           /\ \A o \in {"refused", "failed"} : SameConn(w, Again(w, o)) /\ ~Leading(Again(w, o))
           /\ SameConn(w, Retry(w)) /\ ~Leading(Retry(w))
           /\ SameConn(w, Relogged(w)) /\ ~Leading(Relogged(w))
<1>0. work[w] \in Calls
  BY DEF Typed
<1>1. \A p \in Points : SameConn(w, Go(w, p)) /\ (p \notin {"login", "logged"} => ~Leading(Go(w, p)))
  BY <1>0 DEF SameConn, Leading, Go, Calls
<1>2. \A o \in Outcomes : SameConn(w, Done(w, o)) /\ ~Leading(Done(w, o))
  BY DEF SameConn, Leading, Done, Idle
<1>3. ASSUME NEW o \in {"refused", "failed"}
      PROVE  SameConn(w, Again(w, o)) /\ ~Leading(Again(w, o))
  <2>1. /\ Go(w, "backoff") \in Calls /\ SameConn(w, Go(w, "backoff"))
        /\ Go(w, "backoff").pc = "backoff"
    BY <1>1, GoTyped, GoPoint DEF Points
  <2>2. SameConn(w, [Go(w, "backoff") EXCEPT !.attempt = @ + 1])
        /\ ~Leading([Go(w, "backoff") EXCEPT !.attempt = @ + 1])
    BY <2>1 DEF SameConn, Leading, Calls
  <2>3. SameConn(w, Done(w, o)) /\ ~Leading(Done(w, o))
    BY <1>2 DEF Outcomes
  <2> QED
    BY <2>2, <2>3 DEF Again
<1>4. SameConn(w, Retry(w)) /\ ~Leading(Retry(w))
  BY <1>2, <1>3 DEF Retry, Outcomes
<1>5. SameConn(w, Relogged(w)) /\ ~Leading(Relogged(w))
  <2>1. Go(w, "send") \in Calls /\ SameConn(w, Go(w, "send")) /\ Go(w, "send").pc = "send"
    BY <1>1, GoTyped, GoPoint DEF Points
  <2>2. Again(w, "refused") \in Calls /\ SameConn(w, Again(w, "refused")) /\ ~Leading(Again(w, "refused"))
    BY <1>3, AgainTyped
  <2> QED
    BY <2>1, <2>2 DEF Relogged, SameConn, Leading, Calls
<1> QED
  BY <1>1, <1>2, <1>3, <1>4, <1>5

\* A step of a busy call that leaves the cache alone.
LEMMA UsesKept ==
    ASSUME TypeInv, UsesInv, NEW w \in Workers, Busy(w), NEW t, SameConn(w, t),
           work' = [work EXCEPT ![w] = t], UNCHANGED <<cache, evicted>>
    PROVE  UsesInv'
<1>1. ASSUME NEW v \in Workers, Busy(v)'
      PROVE  Busy(v) /\ Key(v)' = Key(v) /\ work'[v].conn = work[v].conn
  BY <1>1 DEF TypeInv, Typed, Busy, Key, SameConn
<1> QED
  BY <1>1 DEF UsesInv, UsesCached

\* A step that changes one call and no login.
LEMMA FlightKept ==
    ASSUME TypeInv, FlightInv, NEW w \in Workers, NEW t,
           work' = [work EXCEPT ![w] = t], UNCHANGED <<conns, flights>>,
           Leading(t) <=> Leading(work[w]),
           Leading(t) => t.conn = work[w].conn /\ t.flight = work[w].flight
    PROVE  FlightInv'
<1>1. ASSUME NEW v \in Workers
      PROVE  /\ Leading(work'[v]) <=> Leading(work[v])
             /\ Leading(work[v]) => work'[v].conn = work[v].conn /\ work'[v].flight = work[v].flight
  BY DEF TypeInv, Typed
<1>2. \A v \in Workers, c \in DOMAIN conns : Leads(v, c) => Leads(v, c)'
  BY <1>1 DEF Leads, Leading
<1> QED
  BY <1>1, <1>2 DEF FlightInv

LEMMA UsesStep ==
    ASSUME TypeInv, UsesInv, [Next]_vars
    PROVE  UsesInv'
<1>0. Typed /\ TypeOK /\ \A w \in Workers : work[w] \in Calls
  BY DEF TypeInv, Typed
<1>1. CASE UNCHANGED vars \/ SessionEnds
  BY <1>1 DEF UsesInv, UsesCached, Busy, Key, vars, SessionEnds
<1>2. ASSUME NEW w \in Workers, Call(w)
      PROVE  UsesInv'
  <2>1. /\ UNCHANGED <<cache, evicted>>
        /\ \A v \in Workers : v # w => work'[v] = work[v]
        /\ work'[w].pc = "lookup"
    BY <1>0, <1>2 DEF Call, Typed, Idle
  <2> QED
    BY <2>1 DEF UsesInv, UsesCached, Busy, Key
<1>3. ASSUME NEW w \in Workers, CallerLeaves(w)
      PROVE  UsesInv'
  <2>1. /\ UNCHANGED <<cache, evicted>>
        /\ \A v \in Workers : /\ work'[v].pc = work[v].pc /\ work'[v].conn = work[v].conn
                              /\ work'[v].req = work[v].req
    BY <1>0, <1>3 DEF CallerLeaves, Typed, Calls
  <2> QED
    BY <2>1 DEF UsesInv, UsesCached, Busy, Key
<1>4. ASSUME NEW w \in Workers, Lookup(w) \/ Dial(w)
      PROVE  UsesInv'
  <2>1. ASSUME NEW v \in Workers, v # w
        PROVE  work'[v] = work[v]
    BY <1>0, <1>4, <2>1 DEF Lookup, Dial, Move, Typed
  <2>2. /\ evicted \subseteq evicted'
        /\ \A m \in DOMAIN cache : cache[m].conn \in evicted' \/ \E j \in DOMAIN cache' : cache'[j] = cache[m]
    <3>1. CASE UNCHANGED <<cache, evicted>>
      BY <3>1
    <3>2. CASE Lookup(w) /\ Cached(Key(w))
      <4> DEFINE k == Place(Key(w))
      <4>1. k \in DOMAIN cache
        BY <3>2, PlaceFound
      <4>2. cache' = Touched(k) /\ evicted' = evicted
        BY <3>2 DEF Lookup
      <4> HIDE DEF k
      <4>3. \A m \in DOMAIN cache : \E j \in DOMAIN cache : cache[m] = Touched(k)[j]
        BY <1>0, <4>1, TouchedFrom
      <4>4. DOMAIN Touched(k) = DOMAIN cache
        BY <1>0, <4>1, TouchedTyped
      <4> QED
        BY <4>2, <4>3, <4>4
    <3>3. CASE Dial(w) /\ ~Cached(Key(w))
      BY <3>3, Dialed
    <3>4. CASE (Lookup(w) /\ ~Cached(Key(w))) \/ (Dial(w) /\ Cached(Key(w)))
      BY <3>4 DEF Lookup, Dial, Move
    <3> QED
      BY <1>4, <3>2, <3>3, <3>4
  <2>3. ASSUME NEW c, NEW key, \E i \in DOMAIN cache : cache[i].key = key /\ cache[i].conn = c
        PROVE  c \in evicted' \/ \E i \in DOMAIN cache' : cache'[i].key = key /\ cache'[i].conn = c
    BY <2>2, <2>3
  <2>4. Busy(w)' => UsesCached(w)'
    <3>1. CASE ~Cached(Key(w)) /\ Lookup(w)
      BY <1>0, <3>1, GoPoint DEF Lookup, Move, Typed, Busy
    <3>2. CASE Cached(Key(w))
      <4>1. work' = [work EXCEPT ![w] = Hit(w)]
        BY <1>4, <3>2 DEF Lookup, Dial, Move
      <4>2. Place(Key(w)) \in DOMAIN cache /\ cache[Place(Key(w))].key = Key(w)
        BY <3>2, PlaceFound
      <4>3. Hit(w).conn = cache[Place(Key(w))].conn /\ Hit(w).req = work[w].req
        BY <1>0, <4>2, EntryTyped, UseTyped DEF Hit
      <4>4. Key(w)' = Key(w) /\ work'[w].conn = cache[Place(Key(w))].conn
        BY <1>0, <4>1, <4>3 DEF Key, Typed
      <4> QED
        BY <2>3, <4>2, <4>4 DEF UsesCached
    <3>3. CASE ~Cached(Key(w)) /\ Dial(w)
      <4>1. work' = [work EXCEPT ![w] = Use(w, Len(conns) + 1)] /\ Len(conns) + 1 \in Nat
        BY <1>0, <3>3 DEF Dial, Typed
      <4>2. Use(w, Len(conns) + 1).conn = Len(conns) + 1 /\ Use(w, Len(conns) + 1).req = work[w].req
        BY <1>0, <4>1, UseTyped
      <4>3. Key(w)' = Key(w) /\ work'[w].conn = Len(conns) + 1
        BY <1>0, <4>1, <4>2 DEF Key, Typed
      <4>4. \E j \in DOMAIN cache' : cache'[j] = [key |-> Key(w), conn |-> Len(conns) + 1]
        BY <3>3, Dialed
      <4> QED
        BY <4>3, <4>4 DEF UsesCached
    <3> QED
      BY <1>4, <3>1, <3>2, <3>3
  <2>5. ASSUME NEW v \in Workers, v # w, Busy(v)'
        PROVE  UsesCached(v)'
    <3>1. Busy(v) /\ Key(v)' = Key(v) /\ work'[v].conn = work[v].conn
      BY <2>1, <2>5 DEF Busy, Key
    <3>2. UsesCached(v)
      BY <3>1 DEF UsesInv
    <3> QED
      BY <2>2, <2>3, <3>1, <3>2 DEF UsesCached
  <2> QED
    BY <2>4, <2>5 DEF UsesInv
<1>5. ASSUME NEW w \in Workers, Backoff(w) \/ Authorize(w) \/ Relogin(w) \/ Wait(w) \/ Unauthorized(w)
                                \/ Login(w) \/ LoginDone(w) \/ Served(w) \/ Lost(w) \/ Cancelled(w)
      PROVE  UsesInv'
  <2>0. Busy(w) /\ UNCHANGED <<cache, evicted>>
    BY <1>5 DEF Backoff, Authorize, Relogin, Wait, Unauthorized, Login, LoginDone, Served, Lost, Cancelled,
                Is, Busy, Move
  <2>1. \A p \in Points : Go(w, p) \in Calls /\ SameConn(w, Go(w, p))
    BY <1>0, GoTyped, SameConnCalls
  <2>2. \A o \in Outcomes : Done(w, o) \in Calls /\ SameConn(w, Done(w, o))
    BY <1>0, DoneTyped, SameConnCalls
  <2>3. Relogged(w) \in Calls /\ SameConn(w, Relogged(w)) /\ Retry(w) \in Calls /\ SameConn(w, Retry(w))
    BY <1>0, <2>0, ReloggedTyped, RetryTyped, SameConnCalls DEF TypeOK, Busy
  <2>4. /\ SameConn(w, [Go(w, "relogin") EXCEPT !.back = "send"])
        /\ SameConn(w, [Go(w, "relogin") EXCEPT !.back = "next", !.tok = 0])
        /\ SameConn(w, [Go(w, "send") EXCEPT !.tok = Conn(w).bearer])
        /\ SameConn(w, [Go(w, "wait") EXCEPT !.flight = Conn(w).flight])
        /\ SameConn(w, [Go(w, "login") EXCEPT !.flight = Len(flights) + 1])
        /\ \A o \in Outcomes : SameConn(w, [Go(w, "logged") EXCEPT !.out = o])
    BY <2>1 DEF SameConn, Calls, Points
  <2>5. \A n \in {0, 1} : SameConn(w, [Retry(w) EXCEPT !.applied = @ + n, !.tok = 0])
    BY <2>3 DEF SameConn, Calls
  <2>6. \A n \in {0, 1}, o \in Outcomes : SameConn(w, [Done(w, o) EXCEPT !.applied = @ + n])
    BY <2>2 DEF SameConn, Calls
  <2>7. SameConn(w, [Relogged(w) EXCEPT !.out = "none"])
    BY <2>3 DEF SameConn, Calls
  <2>8. \E t : SameConn(w, t) /\ work' = [work EXCEPT ![w] = t]
    <3>1. CASE Backoff(w) \/ Authorize(w) \/ Relogin(w) \/ Wait(w) \/ Unauthorized(w)
      BY <2>1, <2>2, <2>3, <2>4, <3>1
         DEF Backoff, Authorize, Relogin, Wait, Unauthorized, Move, Outcomes, Points
    <3>2. CASE Login(w) \/ LoginDone(w)
      BY <2>2, <2>4, <2>7, <3>2 DEF Login, LoginDone, Outcomes
    <3>3. CASE Served(w) \/ Lost(w) \/ Cancelled(w)
      BY <2>2, <2>5, <2>6, <3>3 DEF Served, Lost, Cancelled, Move, Outcomes
    <3> QED
      BY <1>5, <3>1, <3>2, <3>3
  <2> QED
    BY <2>0, <2>8, UsesKept
<1> QED
  BY <1>1, <1>2, <1>3, <1>4, <1>5 DEF Next, Step

LEMMA FlightStep ==
    ASSUME TypeInv, FlightInv, [Next]_vars
    PROVE  FlightInv'
<1>0. Typed /\ TypeOK /\ \A w \in Workers : work[w] \in Calls
  BY DEF TypeInv, Typed
<1>1. CASE UNCHANGED vars \/ SessionEnds
  BY <1>1 DEF FlightInv, Leading, Leads, vars, SessionEnds
<1>2. ASSUME NEW w \in Workers, Call(w)
      PROVE  FlightInv'
  <2>1. PICK r \in Requests : work' = [work EXCEPT ![w] = [Idle EXCEPT !.pc = "lookup", !.req = r]]
    BY <1>2 DEF Call
  <2>2. ~Leading([Idle EXCEPT !.pc = "lookup", !.req = r]) /\ ~Leading(work[w])
        /\ UNCHANGED <<conns, flights>>
    BY <1>2 DEF Leading, Idle, Call, Is
  <2> QED
    BY <2>1, <2>2, FlightKept
<1>3. ASSUME NEW w \in Workers, CallerLeaves(w)
      PROVE  FlightInv'
  <2> DEFINE t == [work[w] EXCEPT !.ended = TRUE]
  <2>1. t.pc = work[w].pc /\ t.conn = work[w].conn /\ t.flight = work[w].flight
    BY <1>0 DEF Calls
  <2>2. work' = [work EXCEPT ![w] = t] /\ UNCHANGED <<conns, flights>>
    BY <1>3 DEF CallerLeaves
  <2> HIDE DEF t
  <2> QED
    BY <2>1, <2>2, FlightKept DEF Leading
<1>4. ASSUME NEW w \in Workers, Lookup(w) \/ Dial(w), UNCHANGED <<conns, flights>>
      PROVE  FlightInv'
  <2>1. ~Leading(work[w])
    BY <1>4 DEF Lookup, Dial, Is, Leading
  <2>2. ~Leading(Go(w, "dial"))
    BY <1>0, GoPoint DEF Leading
  <2>3. Cached(Key(w)) => ~Leading(Hit(w))
    BY <1>0, PlaceFound, EntryTyped, UseTyped DEF Hit, Leading
  <2>4. ~Leading(Use(w, Len(conns) + 1))
    <3>1. Len(conns) + 1 \in Nat
      BY <1>0 DEF Typed
    <3> QED
      BY <1>0, <3>1, UseTyped DEF Leading
  <2>5. \E t : ~Leading(t) /\ work' = [work EXCEPT ![w] = t]
    BY <1>4, <2>2, <2>3, <2>4 DEF Lookup, Dial, Move
  <2> QED
    BY <1>4, <2>1, <2>5, FlightKept
<1>5. ASSUME NEW w \in Workers, Dial(w), ~Cached(Key(w))
      PROVE  FlightInv'
  <2> DEFINE c == Len(conns) + 1
  <2>1. conns' = Append(conns, NewConnection(Key(w))) /\ work' = [work EXCEPT ![w] = Use(w, c)]
        /\ UNCHANGED flights
    BY <1>5 DEF Dial
  <2>2. conns \in Seq(Connections) /\ Len(conns) \in Nat /\ DOMAIN conns = 1..Len(conns)
    BY <1>0 DEF Typed
  <2>3. /\ DOMAIN conns' = DOMAIN conns \cup {c} /\ c \notin DOMAIN conns
        /\ \A d \in DOMAIN conns : conns'[d] = conns[d]
        /\ conns'[c] = NewConnection(Key(w))
    BY <2>1, <2>2 DEF NewConnection, Connections
  <2>4. conns'[c].flight = 0
    BY <2>3 DEF NewConnection
  <2>5. ~Leading(Use(w, c)) /\ ~Leading(work[w])
    BY <1>0, <1>5, <2>2, UseTyped DEF Leading, Dial, Is
  <2>6. \A v \in Workers : (v # w => work'[v] = work[v]) /\ (v = w => ~Leading(work'[v]))
    BY <1>0, <2>1, <2>5 DEF Typed
  <2>7. \A v \in Workers : Leading(work'[v]) => work'[v] = work[v] /\ work[v].conn \in DOMAIN conns
    BY <1>0, <2>6 DEF TypeOK, Leading
  <2>8. \A v \in Workers, d \in DOMAIN conns : Leads(v, d) => Leads(v, d)'
    BY <2>5, <2>6 DEF Leads, Leading
  <2> HIDE DEF c
  <2>9. \A d, e \in DOMAIN conns' : conns'[d].flight = conns'[e].flight /\ conns'[d].flight # 0 => d = e
    BY <2>3, <2>4 DEF FlightInv
  <2>10. \A d \in DOMAIN conns' : conns'[d].flight # 0 => \E v \in Workers : Leads(v, d)'
    BY <2>3, <2>4, <2>8 DEF FlightInv
  <2>11. \A v \in Workers : Leading(work'[v]) =>
            conns'[work'[v].conn].flight = work'[v].flight /\ flights'[work'[v].flight] = "open"
    BY <2>1, <2>3, <2>7 DEF FlightInv
  <2>12. \A u, v \in Workers : Leading(work'[u]) /\ Leading(work'[v]) /\ work'[u].conn = work'[v].conn => u = v
    BY <2>7 DEF FlightInv
  <2> QED
    BY <2>9, <2>10, <2>11, <2>12 DEF FlightInv
<1>6. ASSUME NEW w \in Workers, Backoff(w) \/ Authorize(w) \/ Wait(w) \/ Unauthorized(w)
                                \/ Served(w) \/ Lost(w) \/ Cancelled(w)
                                \/ (Relogin(w) /\ UNCHANGED conns)
      PROVE  FlightInv'
  <2>0. Busy(w) /\ ~Leading(work[w]) /\ UNCHANGED conns
    BY <1>6 DEF Backoff, Authorize, Relogin, Wait, Unauthorized, Served, Lost, Cancelled,
                Is, Busy, Move, Leading
  <2>1. \A p \in Points \ {"login", "logged"} : Go(w, p) \in Calls /\ ~Leading(Go(w, p))
    BY <1>0, GoTyped, SameConnCalls
  <2>2. \A o \in Outcomes : Done(w, o) \in Calls /\ ~Leading(Done(w, o))
    BY <1>0, DoneTyped, SameConnCalls
  <2>3. ~Leading(Relogged(w)) /\ Retry(w) \in Calls /\ ~Leading(Retry(w))
    BY <1>0, RetryTyped, SameConnCalls
  <2>4. /\ ~Leading([Go(w, "relogin") EXCEPT !.back = "send"])
        /\ ~Leading([Go(w, "relogin") EXCEPT !.back = "next", !.tok = 0])
        /\ ~Leading([Go(w, "send") EXCEPT !.tok = Conn(w).bearer])
        /\ ~Leading([Go(w, "wait") EXCEPT !.flight = Conn(w).flight])
    BY <2>1 DEF Leading, Calls, Points
  <2>5. \A n \in {0, 1} : ~Leading([Retry(w) EXCEPT !.applied = @ + n, !.tok = 0])
    BY <2>3 DEF Leading, Calls
  <2>6. \A n \in {0, 1}, o \in Outcomes : ~Leading([Done(w, o) EXCEPT !.applied = @ + n])
    BY <2>2 DEF Leading, Calls
  <2>7. (\E t : ~Leading(t) /\ work' = [work EXCEPT ![w] = t]) /\ UNCHANGED flights
    <3>1. CASE Backoff(w) \/ Authorize(w) \/ Wait(w) \/ Unauthorized(w)
      BY <2>1, <2>2, <2>3, <2>4, <3>1 DEF Backoff, Authorize, Wait, Unauthorized, Move, Outcomes, Points
    <3>2. CASE Served(w) \/ Lost(w) \/ Cancelled(w)
      BY <2>2, <2>5, <2>6, <3>2 DEF Served, Lost, Cancelled, Move, Outcomes
    <3>3. CASE Relogin(w) /\ UNCHANGED conns
      <4>1. ~(Key(w) \in Passwords /\ Conn(w).flight = 0)
        <5> SUFFICES ASSUME Key(w) \in Passwords, Conn(w).flight = 0 PROVE FALSE
          OBVIOUS
        <5>1. conns' = [conns EXCEPT ![work[w].conn].flight = Len(flights) + 1]
          BY <3>3 DEF Relogin
        <5>2. work[w].conn \in DOMAIN conns /\ conns[work[w].conn] \in Connections
          BY <1>0, <2>0, ConnTyped DEF TypeOK, Busy
        <5>3. conns'[work[w].conn].flight = Len(flights) + 1 /\ Len(flights) \in Nat
          BY <1>0, <5>1, <5>2 DEF Connections, Typed
        <5> QED
          BY <3>3, <5>3 DEF Conn
      <4> QED
        BY <2>2, <2>4, <3>3, <4>1 DEF Relogin, Move, Outcomes
    <3> QED
      BY <1>6, <3>1, <3>2, <3>3
  <2> QED
    BY <2>0, <2>7, FlightKept
<1>7. ASSUME NEW w \in Workers, Relogin(w), Key(w) \in Passwords, Conn(w).flight = 0
      PROVE  FlightInv'
  <2> DEFINE c  == work[w].conn
             f  == Len(flights) + 1
             to == [Go(w, "login") EXCEPT !.flight = f]
  <2>1. /\ flights' = Append(flights, "open")
        /\ conns' = [conns EXCEPT ![c].flight = f]
        /\ work' = [work EXCEPT ![w] = to]
    BY <1>7 DEF Relogin
  <2>2. Go(w, "login") \in Calls /\ Go(w, "login").conn = c /\ Go(w, "login").pc = "login"
    BY <1>0, GoTyped, GoPoint DEF Points
  <2>3. to.conn = c /\ to.flight = f /\ Leading(to)
    BY <2>2 DEF Calls, Leading
  <2>4. Len(flights) \in Nat /\ DOMAIN flights = 1..Len(flights) /\ f \in Nat
    BY <1>0 DEF Typed
  <2>5. flights'[f] = "open" /\ \A g \in DOMAIN flights : flights'[g] = flights[g] /\ g # f
    BY <1>0, <2>1, <2>4 DEF Typed
  <2>6. c \in DOMAIN conns /\ conns[c].flight = 0 /\ ~Leading(work[w])
    BY <1>0, <1>7 DEF TypeOK, Relogin, Is, Leading, Conn
  <2>7. \A d \in DOMAIN conns : conns[d] \in Connections /\ conns[d].flight \in 0..Len(flights)
    BY <1>0, ConnTyped DEF TypeOK
  <2>8. DOMAIN conns' = DOMAIN conns /\ conns'[c].flight = f
        /\ \A d \in DOMAIN conns : d # c => conns'[d] = conns[d]
    BY <2>1, <2>6, <2>7 DEF Connections
  <2>9. work'[w] = to /\ \A v \in Workers : v # w => work'[v] = work[v]
    BY <1>0, <2>1 DEF Typed
  <2>10. \A v \in Workers : Leading(work[v]) => work[v].conn \in DOMAIN conns /\ work[v].flight \in DOMAIN flights
    BY <1>0 DEF TypeOK, Leading
  <2> HIDE DEF c, f, to
  <2>11. \A d, e \in DOMAIN conns' : conns'[d].flight = conns'[e].flight /\ conns'[d].flight # 0 => d = e
    <3>1. \A d \in DOMAIN conns : d # c => conns'[d].flight # f
      BY <2>4, <2>7, <2>8 DEF f
    <3> QED
      BY <2>8, <3>1 DEF FlightInv
  <2>12. \A d \in DOMAIN conns' : conns'[d].flight # 0 => \E v \in Workers : Leads(v, d)'
    <3>1. ASSUME NEW d \in DOMAIN conns, d # c, conns[d].flight # 0
          PROVE  \E v \in Workers : Leads(v, d)'
      <4>1. PICK v \in Workers : Leads(v, d)
        BY <3>1 DEF FlightInv
      <4> QED
        BY <2>6, <2>9, <4>1 DEF Leads, Leading
    <3>2. \A d : d = c => Leads(w, d)'
      BY <2>3, <2>9 DEF Leads, Leading
    <3> QED
      BY <2>8, <3>1, <3>2
  \* Nobody led the Connection's flight: it had none.
  <2>13. \A v \in Workers : Leading(work[v]) => work[v].conn # c
    BY <2>4, <2>6, <2>10 DEF FlightInv
  <2>14. \A v \in Workers : Leading(work'[v]) =>
            conns'[work'[v].conn].flight = work'[v].flight /\ flights'[work'[v].flight] = "open"
    <3>1. ASSUME NEW v \in Workers, v # w, Leading(work'[v])
          PROVE  conns'[work'[v].conn].flight = work'[v].flight /\ flights'[work'[v].flight] = "open"
      BY <2>5, <2>8, <2>9, <2>10, <2>13, <3>1 DEF FlightInv
    <3> QED
      BY <2>3, <2>5, <2>8, <2>9, <3>1
  <2>15. \A u, v \in Workers : Leading(work'[u]) /\ Leading(work'[v]) /\ work'[u].conn = work'[v].conn => u = v
    BY <2>3, <2>9, <2>13 DEF FlightInv
  <2> QED
    BY <2>11, <2>12, <2>14, <2>15 DEF FlightInv
<1>8. ASSUME NEW w \in Workers, Login(w)
      PROVE  FlightInv'
  <2>0. Leading(work[w]) /\ UNCHANGED flights /\ work[w].conn \in DOMAIN conns
    BY <1>0, <1>8 DEF Login, Is, Leading, TypeOK
  <2>1. PICK o \in {"ok", "failed"} : work' = [work EXCEPT ![w] = [Go(w, "logged") EXCEPT !.out = o]]
    BY <1>8 DEF Login
  <2>2. work'[w].conn = work[w].conn /\ work'[w].flight = work[w].flight /\ work'[w].pc = "logged"
    <3>1. Go(w, "logged") \in Calls /\ Go(w, "logged").conn = work[w].conn /\ Go(w, "logged").pc = "logged"
      BY <1>0, GoTyped, GoPoint DEF Points
    <3>2. Go(w, "logged").flight = work[w].flight
      BY <1>0 DEF Go, Calls
    <3> QED
      BY <1>0, <2>1, <3>1, <3>2 DEF Typed, Calls
  <2>3. \A v \in Workers : v # w => work'[v] = work[v]
    BY <1>0, <2>1 DEF Typed
  <2>4. \A v \in Workers : /\ Leading(work'[v]) <=> Leading(work[v])
                           /\ work'[v].conn = work[v].conn /\ work'[v].flight = work[v].flight
    BY <2>0, <2>2, <2>3 DEF Leading
  <2>5. DOMAIN conns' = DOMAIN conns /\ \A d \in DOMAIN conns : conns'[d].flight = conns[d].flight
    <3>1. \A d \in DOMAIN conns : conns[d] \in Connections
      BY <1>0, ConnTyped
    <3> QED
      BY <1>8, <2>0, <3>1 DEF Login, Connections
  <2>6. \A v \in Workers, d \in DOMAIN conns : Leads(v, d) => Leads(v, d)'
    BY <2>4 DEF Leads, Leading
  <2>7. \A v \in Workers : Leading(work[v]) => work[v].conn \in DOMAIN conns
    BY <1>0 DEF TypeOK, Leading
  <2> QED
    BY <2>0, <2>4, <2>5, <2>6, <2>7 DEF FlightInv
<1>9. ASSUME NEW w \in Workers, LoginDone(w)
      PROVE  FlightInv'
  <2> DEFINE c == work[w].conn
             f == work[w].flight
  <2>0. Leading(work[w]) /\ c \in DOMAIN conns /\ f \in DOMAIN flights /\ conns[c].flight = f
    BY <1>0, <1>9 DEF LoginDone, Is, Leading, TypeOK, FlightInv
  <2>1. f # 0
    BY <1>0, <2>0 DEF Typed
  <2>2. \E t : ~Leading(t) /\ work' = [work EXCEPT ![w] = t]
    <3>1. ~Leading([Relogged(w) EXCEPT !.out = "none"])
      BY <1>0, <2>0, ReloggedTyped, SameConnCalls DEF Leading, Calls
    <3>2. ~Leading(Done(w, "failed"))
      BY <1>0, SameConnCalls DEF Outcomes
    <3> QED
      BY <1>9, <3>1, <3>2 DEF LoginDone
  <2>3. ~Leading(work'[w]) /\ \A v \in Workers : v # w => work'[v] = work[v]
    BY <1>0, <2>2 DEF Typed
  <2>4. flights' = [flights EXCEPT ![f] = work[w].out] /\ conns' = [conns EXCEPT ![c].flight = 0]
    BY <1>9 DEF LoginDone
  <2>5. \A d \in DOMAIN conns : conns[d] \in Connections
    BY <1>0, ConnTyped
  <2>6. DOMAIN conns' = DOMAIN conns /\ conns'[c].flight = 0
        /\ \A d \in DOMAIN conns : d # c => conns'[d] = conns[d]
    BY <2>0, <2>4, <2>5 DEF Connections
  <2>7. \A g : g # f => flights'[g] = flights[g]
    BY <2>4
  <2> HIDE DEF c, f
  <2>8. \A d, e \in DOMAIN conns' : conns'[d].flight = conns'[e].flight /\ conns'[d].flight # 0 => d = e
    BY <2>6 DEF FlightInv
  <2>9. \A d \in DOMAIN conns' : conns'[d].flight # 0 => \E v \in Workers : Leads(v, d)'
    <3>1. ASSUME NEW d \in DOMAIN conns, d # c, conns[d].flight # 0
          PROVE  \E v \in Workers : Leads(v, d)'
      <4>1. PICK v \in Workers : Leads(v, d)
        BY <3>1 DEF FlightInv
      <4>2. v # w
        BY <3>1, <4>1 DEF Leads, c
      <4> QED
        BY <2>3, <4>1, <4>2 DEF Leads
    <3> QED
      BY <2>6, <3>1
  \* Another leader leads for another Connection, so another flight.
  <2>10. ASSUME NEW v \in Workers, Leading(work'[v])
         PROVE  /\ v # w /\ work'[v] = work[v] /\ Leading(work[v])
                /\ work[v].conn \in DOMAIN conns /\ work[v].conn # c /\ work[v].flight # f
    <3>1. v # w /\ work'[v] = work[v] /\ Leading(work[v])
      BY <2>3, <2>10
    <3>2. work[v].conn \in DOMAIN conns /\ work[v].conn # c
      BY <1>0, <2>0, <3>1 DEF FlightInv, TypeOK, Leading, c
    <3>3. work[v].flight # f
      BY <2>0, <2>1, <3>1, <3>2 DEF FlightInv
    <3> QED
      BY <3>1, <3>2, <3>3
  <2>11. \A v \in Workers : Leading(work'[v]) =>
            conns'[work'[v].conn].flight = work'[v].flight /\ flights'[work'[v].flight] = "open"
    BY <2>6, <2>7, <2>10 DEF FlightInv
  <2>12. \A u, v \in Workers : Leading(work'[u]) /\ Leading(work'[v]) /\ work'[u].conn = work'[v].conn => u = v
    BY <2>10 DEF FlightInv
  <2> QED
    BY <2>8, <2>9, <2>11, <2>12 DEF FlightInv
<1>10. ASSUME NEW w \in Workers, Lookup(w) \/ Dial(w)
       PROVE  UNCHANGED <<conns, flights>> \/ (Dial(w) /\ ~Cached(Key(w)))
  BY <1>10 DEF Lookup, Dial, Move
<1>11. ASSUME NEW w \in Workers, Relogin(w)
       PROVE  UNCHANGED conns \/ (Key(w) \in Passwords /\ Conn(w).flight = 0)
  BY <1>11 DEF Relogin, Move
<1> QED
  BY <1>1, <1>2, <1>3, <1>4, <1>5, <1>6, <1>7, <1>8, <1>9, <1>10, <1>11 DEF Next, Step

\* Calls with the same credentials use one Connection unless the cache dropped
\* theirs, and one call logs in for a Connection at a time while the others
\* wait for it (client.go:383, client.go:528).
THEOREM CallsShareLogins == Spec => []CallsShare
<1>1. Init => UsesInv /\ FlightInv
  BY DEF Init, UsesInv, FlightInv, Busy, Leading, Idle
<1>2. TypeInv /\ UsesInv /\ FlightInv => CallsShare
  <2> SUFFICES ASSUME TypeInv, UsesInv, FlightInv PROVE CallsShare
    OBVIOUS
  <2>1. ASSUME NEW v \in Workers, NEW w \in Workers, Busy(v), Busy(w), Key(v) = Key(w),
               work[v].conn # work[w].conn
        PROVE  {work[v].conn, work[w].conn} \cap evicted # {}
    <3>1. UsesCached(v) /\ UsesCached(w)
      BY <2>1 DEF UsesInv
    <3>2. \A i, j \in DOMAIN cache : cache[i].key = cache[j].key => i = j
      BY DEF TypeInv, TypeOK
    <3> QED
      BY <2>1, <3>1, <3>2 DEF UsesCached
  <2>2. ASSUME NEW c \in DOMAIN conns
        PROVE  LET leaders == {w \in Workers : Leads(w, c)}
               IN  /\ Cardinality(leaders) = (IF conns[c].flight = 0 THEN 0 ELSE 1)
                   /\ \A w \in leaders : /\ work[w].flight = conns[c].flight
                                         /\ flights[conns[c].flight] = "open"
    <3> DEFINE leaders == {w \in Workers : Leads(w, c)}
    <3>1. \A w \in leaders : work[w].flight = conns[c].flight /\ flights[conns[c].flight] = "open"
      BY DEF FlightInv, Leads, Leading
    <3>2. \A w \in leaders : conns[c].flight # 0
      <4>1. \A w \in leaders : work[w].flight \in DOMAIN flights
        BY DEF TypeInv, TypeOK, Leads
      <4>2. 0 \notin DOMAIN flights
        BY DEF TypeInv, Typed
      <4> QED
        BY <3>1, <4>1, <4>2
    <3>3. CASE conns[c].flight = 0
      <4>1. leaders = {}
        BY <3>2, <3>3
      <4> QED
        BY <3>1, <3>3, <4>1, FS_EmptySet
    <3>4. CASE conns[c].flight # 0
      <4>1. PICK w \in Workers : Leads(w, c)
        BY <3>4 DEF FlightInv
      <4>2. leaders = {w}
        BY <4>1 DEF FlightInv, Leads, Leading
      <4>3. Cardinality(leaders) = 1
        BY <4>2, FS_Singleton
      <4> QED
        BY <3>1, <3>4, <4>3
    <3> QED
      BY <3>3, <3>4
  <2> QED
    BY <2>1, <2>2 DEF CallsShare
<1>3. TypeInv /\ UsesInv /\ FlightInv /\ [Next]_vars => UsesInv' /\ FlightInv'
  BY UsesStep, FlightStep
<1> QED
  BY TypeInit, TypeStep, <1>1, <1>2, <1>3, PTL DEF Spec

=============================================================================
