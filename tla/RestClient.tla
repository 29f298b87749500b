----------------------------- MODULE RestClient -----------------------------
(***************************************************************************)
(* The REST client of the COSI and CSI drivers (internal/qumulo/client.go):*)
(* the cache of Connections, and DoJSON with its retries and its shared    *)
(* login.                                                                  *)
(*                                                                         *)
(* A call takes the Connection of its credentials from the cache and sends *)
(* one request, again after some failures.  When the session was refused,  *)
(* one call of a Connection logs in and the others wait for its outcome.   *)
(*                                                                         *)
(* Core is external: it serves a request whose session is valid, and       *)
(* sessions end when it likes.  A request whose answer is lost, or that is *)
(* answered 429 or 5xx, may have been applied.                             *)
(***************************************************************************)
EXTENDS Naturals, FiniteSets, Sequences

CONSTANTS
    Workers,     \* goroutines serving a call
    Keys,        \* CacheKey of endpoint and credentials
    Passwords,   \* keys whose credentials have username and password
    Tokens,      \* keys whose credentials have an access token
    Requests,    \* what calls send: key and HTTP method
    MaxCached,   \* Connections the cache keeps
    MaxRetries,  \* retries of DoJSON
    MaxRequests, \* bound: calls started
    MaxFaults    \* bound: lost answers, errors of Core, sessions ended,
                 \* refused logins and cancelled calls

ReplaySafe == {"GET", "PUT", "PATCH"}

ASSUME RestAssumption ==
    /\ Passwords \cup Tokens = Keys
    /\ Requests \subseteq [key : Keys, method : ReplaySafe \cup {"POST", "DELETE"}]
    /\ Requests # {}
    /\ MaxCached \in Nat \ {0} /\ MaxRetries \in Nat
    /\ MaxRequests \in Nat /\ MaxFaults \in Nat

VARIABLES
    cache,    \* entries [key, conn], least recently used first
    evicted,  \* Connections the cache has dropped
    conns,    \* all Connections: bearer and loginFlight, 0 if none
    flights,  \* all loginCalls: "open", or the outcome "ok" or "failed"
    valid,    \* sessions Core accepts
    next,     \* next session
    work,     \* worker -> its call and local variables
    count     \* how often each bounded event has happened

vars == <<cache, evicted, conns, flights, valid, next, work, count>>

\* attempt, relogged, tok: locals of DoJSON; flight, back: the login it takes
\* part in and where relogin was called; out: outcome of the call, or of the
\* login it leads; applied: how often the request took effect; ended: the
\* caller is gone.
Idle == [pc |-> "idle", req |-> CHOOSE r \in Requests : TRUE, conn |-> 0, attempt |-> 0,
         relogged |-> FALSE, tok |-> 0, flight |-> 0, back |-> "send", out |-> "none",
         applied |-> 0, ended |-> FALSE]

Init ==
    /\ cache = <<>> /\ evicted = {} /\ conns = <<>> /\ flights = <<>>
    /\ valid = {1} /\ next = 2
    /\ work = [w \in Workers |-> Idle]
    /\ count = [requests |-> 0, faults |-> 0]

Points == {"idle", "lookup", "dial", "authorize", "relogin", "login", "logged", "wait",
           "send", "backoff"}

TypeOK ==
    /\ Len(cache) <= MaxCached
    /\ \A i, j \in DOMAIN cache : cache[i].key = cache[j].key => i = j
    /\ \A i \in DOMAIN cache : cache[i].conn \in DOMAIN conns
    /\ \A c \in DOMAIN conns : conns[c].bearer \in 0..(next - 1) /\ conns[c].flight \in 0..Len(flights)
    /\ valid \subseteq 1..(next - 1)
    /\ \A w \in Workers :
         /\ work[w].pc \in Points
         /\ work[w].attempt \in 0..MaxRetries
         /\ work[w].pc \notin {"idle", "lookup", "dial"} => work[w].conn \in DOMAIN conns
         /\ work[w].pc \in {"login", "logged", "wait"} => work[w].flight \in DOMAIN flights

(***************************************************************************)
(* Common parts                                                            *)
(***************************************************************************)

Is(w, p) == work[w].pc = p

Key(w) == work[w].req.key

Conn(w) == conns[work[w].conn]

Go(w, p) == [work[w] EXCEPT !.pc = p]

\* The call returns; what it did is remembered until the worker's next call.
Done(w, out) == [Idle EXCEPT !.req = work[w].req, !.applied = work[w].applied, !.out = out]

Move(w, to) ==
    /\ work' = [work EXCEPT ![w] = to]
    /\ UNCHANGED <<cache, evicted, conns, flights, valid, next, count>>

\* One of the bounded number of things that go wrong.
Fault ==
    /\ count.faults < MaxFaults
    /\ count' = [count EXCEPT !.faults = @ + 1]

SessionEnds ==
    /\ Fault
    /\ \E s \in valid : valid' = valid \ {s}
    /\ UNCHANGED <<cache, evicted, conns, flights, next, work>>

\* The context of a call is cancelled, or its deadline passes.
CallerLeaves(w) ==
    /\ ~Is(w, "idle") /\ ~work[w].ended
    /\ Fault
    /\ work' = [work EXCEPT ![w].ended = TRUE]
    /\ UNCHANGED <<cache, evicted, conns, flights, valid, next>>

Call(w) ==
    /\ Is(w, "idle")
    /\ count.requests < MaxRequests
    /\ count' = [count EXCEPT !.requests = @ + 1]
    /\ \E r \in Requests : work' = [work EXCEPT ![w] = [Idle EXCEPT !.pc = "lookup", !.req = r]]
    /\ UNCHANGED <<cache, evicted, conns, flights, valid, next>>

(***************************************************************************)
(* Cache.Get                                                               *)
(***************************************************************************)

Cached(key) == \E i \in DOMAIN cache : cache[i].key = key

Place(key) == CHOOSE i \in DOMAIN cache : cache[i].key = key

\* The entry at place k becomes the most recently used one.
Touched(k) ==
    [i \in 1..Len(cache) |-> IF i < k THEN cache[i]
                            ELSE IF i < Len(cache) THEN cache[i + 1] ELSE cache[k]]

\* The call goes on with Connection c.
Use(w, c) == [Go(w, "authorize") EXCEPT !.conn = c]

Hit(w) == Use(w, cache[Place(Key(w))].conn)

Lookup(w) ==
    /\ Is(w, "lookup")
    /\ IF ~Cached(Key(w)) THEN Move(w, Go(w, "dial"))
       ELSE /\ cache' = Touched(Place(Key(w)))
            /\ work' = [work EXCEPT ![w] = Hit(w)]
            /\ UNCHANGED <<evicted, conns, flights, valid, next, count>>

NewConnection(key) == [bearer |-> IF key \in Tokens THEN 1 ELSE 0, flight |-> 0]

\* Faulty Dial: nothing is evicted.
DialKeepsAll(w) ==
    /\ Is(w, "dial")
    /\ IF Cached(Key(w)) THEN Move(w, Hit(w))
       ELSE /\ conns' = Append(conns, NewConnection(Key(w)))
            /\ cache' = Append(cache, [key |-> Key(w), conn |-> Len(conns) + 1])
            /\ work' = [work EXCEPT ![w] = Use(w, Len(conns) + 1)]
            /\ UNCHANGED <<evicted, flights, valid, next, count>>

\* NewConnection runs without the lock; another call may have stored one.
Dial(w) ==
    /\ Is(w, "dial")
    /\ IF Cached(Key(w)) THEN Move(w, Hit(w))
       ELSE /\ conns' = Append(conns, NewConnection(Key(w)))
            /\ LET full == Len(cache) >= MaxCached
               IN  /\ cache' = Append(IF full THEN Tail(cache) ELSE cache,
                                      [key |-> Key(w), conn |-> Len(conns) + 1])
                   /\ evicted' = evicted \cup IF full THEN {Head(cache).conn} ELSE {}
            /\ work' = [work EXCEPT ![w] = Use(w, Len(conns) + 1)]
            /\ UNCHANGED <<flights, valid, next, count>>

(***************************************************************************)
(* relogin: one login of a Connection at a time                            *)
(***************************************************************************)

\* Where a call goes on after a relogin: on to the request, or to the next
\* attempt after a 401.
Again(w, out) ==
    IF work[w].attempt < MaxRetries THEN [Go(w, "backoff") EXCEPT !.attempt = @ + 1]
    ELSE Done(w, out)

Relogged(w) ==
    IF work[w].back = "send" THEN [Go(w, "send") EXCEPT !.tok = Conn(w).bearer, !.flight = 0]
    ELSE [Again(w, "refused") EXCEPT !.relogged = work[w].attempt < MaxRetries, !.flight = 0]

\* Faulty Relogin: it does not look for a login under way.
ReloginAlone(w) ==
    /\ Is(w, "relogin")
    /\ IF Key(w) \notin Passwords THEN Move(w, Done(w, "refused"))
       ELSE /\ flights' = Append(flights, "open")
            /\ conns' = [conns EXCEPT ![work[w].conn].flight = Len(flights) + 1]
            /\ work' = [work EXCEPT ![w] = [Go(w, "login") EXCEPT !.flight = Len(flights) + 1]]
            /\ UNCHANGED <<cache, evicted, valid, next, count>>

Relogin(w) ==
    /\ Is(w, "relogin")
    /\ IF Key(w) \notin Passwords THEN Move(w, Done(w, "refused"))
       ELSE IF Conn(w).flight # 0 THEN Move(w, [Go(w, "wait") EXCEPT !.flight = Conn(w).flight])
       ELSE /\ flights' = Append(flights, "open")
            /\ conns' = [conns EXCEPT ![work[w].conn].flight = Len(flights) + 1]
            /\ work' = [work EXCEPT ![w] = [Go(w, "login") EXCEPT !.flight = Len(flights) + 1]]
            /\ UNCHANGED <<cache, evicted, valid, next, count>>

\* doLogin stores a new session, unless the leader's caller is gone, Core
\* refuses or the answer is lost.
Login(w) ==
    /\ Is(w, "login")
    /\ \/ /\ ~work[w].ended
          /\ valid' = valid \cup {next} /\ next' = next + 1
          /\ conns' = [conns EXCEPT ![work[w].conn].bearer = next]
          /\ work' = [work EXCEPT ![w] = [Go(w, "logged") EXCEPT !.out = "ok"]]
          /\ UNCHANGED count
       \/ /\ IF work[w].ended THEN UNCHANGED count ELSE Fault
          /\ work' = [work EXCEPT ![w] = [Go(w, "logged") EXCEPT !.out = "failed"]]
          /\ UNCHANGED <<valid, next, conns>>
    /\ UNCHANGED <<cache, evicted, flights>>

\* Faulty LoginDone: a failed login leaves its flight behind.
LoginDoneIfOk(w) ==
    /\ Is(w, "logged")
    /\ work' = [work EXCEPT ![w] = IF work[w].out = "ok" THEN [Relogged(w) EXCEPT !.out = "none"]
                                   ELSE Done(w, "failed")]
    /\ IF work[w].out = "ok"
       THEN /\ flights' = [flights EXCEPT ![work[w].flight] = "ok"]
            /\ conns' = [conns EXCEPT ![work[w].conn].flight = 0]
       ELSE UNCHANGED <<flights, conns>>
    /\ UNCHANGED <<cache, evicted, valid, next, count>>

\* The leader publishes the outcome, wakes the waiters and clears the flight.
LoginDone(w) ==
    /\ Is(w, "logged")
    /\ flights' = [flights EXCEPT ![work[w].flight] = work[w].out]
    /\ conns' = [conns EXCEPT ![work[w].conn].flight = 0]
    /\ work' = [work EXCEPT ![w] = IF work[w].out = "ok" THEN [Relogged(w) EXCEPT !.out = "none"]
                                   ELSE Done(w, "failed")]
    /\ UNCHANGED <<cache, evicted, valid, next, count>>

\* A waiter takes the leader's outcome as its own, or leaves with its caller.
Wait(w) ==
    /\ Is(w, "wait")
    /\ \/ work[w].ended /\ Move(w, Done(w, "ended"))
       \/ /\ flights[work[w].flight] # "open"
          /\ Move(w, IF flights[work[w].flight] = "ok" THEN Relogged(w) ELSE Done(w, "failed"))

(***************************************************************************)
(* DoJSON                                                                  *)
(***************************************************************************)

Backoff(w) ==
    /\ Is(w, "backoff")
    /\ \/ ~work[w].ended /\ Move(w, Go(w, "authorize"))
       \/ work[w].ended /\ Move(w, Done(w, "ended"))

Authorize(w) ==
    /\ Is(w, "authorize")
    /\ Move(w, IF Conn(w).bearer = 0 THEN [Go(w, "relogin") EXCEPT !.back = "send"]
               ELSE [Go(w, "send") EXCEPT !.tok = Conn(w).bearer])

\* Faulty Retry: every method is sent again.
RetryAll(w) == Again(w, "failed")

\* After an error that leaves the outcome open only some methods are replayed.
Retry(w) == IF work[w].req.method \in ReplaySafe THEN Again(w, "failed") ELSE Done(w, "failed")

\* Core serves the request or refuses it for good.
Served(w) ==
    /\ Is(w, "send") /\ ~work[w].ended
    /\ work[w].tok \in valid
    /\ \/ Move(w, [Done(w, "ok") EXCEPT !.applied = @ + 1])
       \/ Move(w, Done(w, "rejected"))

\* 401: one login for the call, if there is a password, and the request again.
Unauthorized(w) ==
    /\ Is(w, "send") /\ ~work[w].ended
    /\ work[w].tok \notin valid
    /\ Move(w, IF Key(w) \in Passwords /\ ~work[w].relogged
               THEN [Go(w, "relogin") EXCEPT !.back = "next", !.tok = 0] ELSE Done(w, "refused"))

\* 429, 5xx or no answer: a request that was authorised may have been applied.
Lost(w) ==
    /\ Is(w, "send") /\ ~work[w].ended
    /\ Fault
    /\ \E n \in IF work[w].tok \in valid THEN {0, 1} ELSE {0} :
         work' = [work EXCEPT ![w] = [Retry(w) EXCEPT !.applied = @ + n, !.tok = 0]]
    /\ UNCHANGED <<cache, evicted, conns, flights, valid, next>>

\* The caller is gone while the request is under way.
Cancelled(w) ==
    /\ Is(w, "send") /\ work[w].ended
    /\ \E n \in IF work[w].tok \in valid THEN {0, 1} ELSE {0} :
         Move(w, [Done(w, "ended") EXCEPT !.applied = @ + n])

Step(w) ==
    \/ Lookup(w) \/ Dial(w) \/ Backoff(w) \/ Authorize(w)
    \/ Relogin(w) \/ Login(w) \/ LoginDone(w) \/ Wait(w)
    \/ Served(w) \/ Unauthorized(w) \/ Cancelled(w)

Next ==
    \/ \E w \in Workers : Call(w) \/ Step(w) \/ Lost(w) \/ CallerLeaves(w)
    \/ SessionEnds

Spec == Init /\ [][Next]_vars

\* A goroutine that can run does: every request ends within the client's
\* timeout, a wait with the flight it is for.
FairSpec == Spec /\ \A w \in Workers : WF_vars(Step(w))

(***************************************************************************)
(* Properties                                                              *)
(***************************************************************************)

\* A call that succeeds has taken effect, and a POST or DELETE takes effect at
\* most once however often it was sent: after an unclear outcome it is not
\* replayed, and a 401 means that it was not applied (client.go:197-205).
SentOnce ==
    \A w \in Workers :
        /\ work[w].out = "ok" /\ Is(w, "idle") => work[w].applied > 0
        /\ work[w].req.method \notin ReplaySafe => work[w].applied <= 1

Leads(w, c) == work[w].pc \in {"login", "logged"} /\ work[w].conn = c

Busy(w) == work[w].pc \notin {"idle", "lookup", "dial"}

\* Calls with the same credentials share: they use one Connection, unless the
\* cache has dropped one of theirs meanwhile; and a Connection has a flight
\* exactly while one call logs in for it (client.go:383, client.go:528).
CallsShare ==
    /\ \A v, w \in Workers :
         Busy(v) /\ Busy(w) /\ Key(v) = Key(w) /\ work[v].conn # work[w].conn =>
            {work[v].conn, work[w].conn} \cap evicted # {}
    /\ \A c \in DOMAIN conns :
         LET leaders == {w \in Workers : Leads(w, c)}
         IN  /\ Cardinality(leaders) = (IF conns[c].flight = 0 THEN 0 ELSE 1)
             /\ \A w \in leaders : /\ work[w].flight = conns[c].flight
                                   /\ flights[conns[c].flight] = "open"

\* Every call returns: no login is waited for that nobody makes, and retries
\* end (client.go:239, client.go:387).
EveryCallReturns == \A w \in Workers : ~Is(w, "idle") ~> Is(w, "idle")

=============================================================================
