----------------------------- MODULE QuotaClient -----------------------------
(***************************************************************************)
(* EnsureQuotaAtLeast (internal/qumulo/quotas.go) for one directory: the   *)
(* read, create-or-update loop that CreateVolume retries and               *)
(* ControllerExpandVolume run at the same time, in any process, over a     *)
(* network that may lose an answer or deliver a write late.                *)
(*                                                                         *)
(* Core is external: POST creates a quota where there is none, PUT with    *)
(* If-Match succeeds on the current ETag only, and every successful write  *)
(* changes the ETag.  PUT is replayed by DoJSON, POST is not (client.go).  *)
(***************************************************************************)
EXTENDS Naturals, FiniteSets

CONSTANTS
    Workers,    \* calls of EnsureQuotaAtLeast in progress, in any process
    Limits,     \* limits callers ask for
    Attempts,   \* rounds of the loop (4 in the code)
    MaxCalls,   \* bound: calls
    MaxLost     \* bound: writes whose answer is lost

ASSUME LimitsAssumption == Limits \subseteq Nat \ {0}

ASSUME BoundsAssumption == Attempts \in Nat \ {0} /\ MaxCalls \in Nat /\ MaxLost \in Nat

VARIABLES
    quota,   \* limit committed in Core, 0 when there is no quota
    etag,    \* ETag of the quota: how often it was written
    late,    \* writes sent whose answer was lost, not applied yet
    pc,      \* worker -> the request it sends next
    want,    \* worker -> parameter limit, 0 outside a call
    match,   \* worker -> the ETag it read
    round,   \* worker -> attempt
    calls,   \* calls so far
    lost,    \* answers lost so far
    asked,   \* history: limits asked for
    told,    \* history: limits reported to callers
    rivals   \* history: worker -> writes of others and losses during its call

shared == <<quota, etag, late, lost>>
local == <<pc, want, match, round>>
vars == <<shared, local, calls, asked, told, rivals>>

\* A create carries no ETag: 0 stands for "there is no quota".
Message == [limit : Limits, etag : Nat]

TypeOK ==
    /\ quota \in Limits \cup {0} /\ etag \in Nat
    /\ late \subseteq Message
    /\ pc \in [Workers -> {"idle", "get", "post", "put"}]
    /\ want \in [Workers -> Limits \cup {0}]
    /\ match \in [Workers -> Nat]
    /\ round \in [Workers -> 1..Attempts]
    /\ calls \in Nat /\ lost \in Nat
    /\ asked \subseteq Limits /\ told \subseteq Limits
    /\ rivals \in [Workers -> Nat]

Init ==
    /\ quota = 0 /\ etag = 0 /\ late = {} /\ lost = 0
    /\ pc = [w \in Workers |-> "idle"]
    /\ want = [w \in Workers |-> 0]
    /\ match = [w \in Workers |-> 0]
    /\ round = [w \in Workers |-> 1]
    /\ calls = 0 /\ asked = {} /\ told = {}
    /\ rivals = [w \in Workers |-> 0]

\* A write of limit n reaches Core and is accepted.
Accepts(m) == etag = m.etag

Write(n) == quota' = n /\ etag' = etag + 1

Disturb(others) ==
    rivals' = [w \in Workers |-> IF w \in others /\ pc[w] # "idle" THEN rivals[w] + 1 ELSE rivals[w]]

\* The call ends.
Leave(w) ==
    /\ pc' = [pc EXCEPT ![w] = "idle"]
    /\ want' = [want EXCEPT ![w] = 0]
    /\ match' = [match EXCEPT ![w] = 0]
    /\ round' = [round EXCEPT ![w] = 1]
    /\ UNCHANGED <<calls, asked>>

Return(w, n) == Leave(w) /\ told' = told \cup {n}

Call(w, n) ==
    /\ pc[w] = "idle"
    /\ calls < MaxCalls
    /\ calls' = calls + 1
    /\ pc' = [pc EXCEPT ![w] = "get"]
    /\ want' = [want EXCEPT ![w] = n]
    /\ rivals' = [rivals EXCEPT ![w] = 0]
    /\ asked' = asked \cup {n}
    /\ UNCHANGED <<shared, match, round, told>>

\* Faulty Get: a limit that differs is set, as CreateQuota does.
GetSetsLimit(w) ==
    /\ pc[w] = "get"
    /\ UNCHANGED <<shared, rivals>>
    /\ IF quota = want[w]
       THEN Return(w, quota)
       ELSE /\ pc' = [pc EXCEPT ![w] = IF quota = 0 THEN "post" ELSE "put"]
            /\ match' = [match EXCEPT ![w] = etag]
            /\ UNCHANGED <<want, round, calls, asked, told>>

\* GetQuota: none, large enough, or to be grown.
Get(w) ==
    /\ pc[w] = "get"
    /\ UNCHANGED <<shared, rivals>>
    /\ IF quota >= want[w]
       THEN Return(w, quota)
       ELSE /\ pc' = [pc EXCEPT ![w] = IF quota = 0 THEN "post" ELSE "put"]
            /\ match' = [match EXCEPT ![w] = etag]
            /\ UNCHANGED <<want, round, calls, asked, told>>

\* Faulty forms of Again: one round too many; the write repeated without a
\* new read; the same, without counting rounds.
AgainOnceMore(w) ==
    IF round[w] > Attempts
    THEN Leave(w) /\ UNCHANGED told
    ELSE /\ round' = [round EXCEPT ![w] = @ + 1]
         /\ pc' = [pc EXCEPT ![w] = "get"]
         /\ match' = [match EXCEPT ![w] = 0]
         /\ UNCHANGED <<want, calls, asked, told>>

AgainWithoutReading(w) ==
    IF round[w] = Attempts
    THEN Leave(w) /\ UNCHANGED told
    ELSE /\ round' = [round EXCEPT ![w] = @ + 1]
         /\ UNCHANGED <<pc, match, want, calls, asked, told>>

AgainForever(w) == UNCHANGED <<local, calls, asked, told>>

\* "continue": the next round of the loop, or its end.
Again(w) ==
    IF round[w] = Attempts
    THEN Leave(w) /\ UNCHANGED told
    ELSE /\ round' = [round EXCEPT ![w] = @ + 1]
         /\ pc' = [pc EXCEPT ![w] = "get"]
         /\ match' = [match EXCEPT ![w] = 0]
         /\ UNCHANGED <<want, calls, asked, told>>

Mine(w) == [limit |-> want[w], etag |-> match[w]]

\* A write that Core answers: 412 (PUT) and "already exists" (POST) go round.
Post(w) ==
    /\ pc[w] = "post"
    /\ UNCHANGED <<late, lost>>
    /\ \/ /\ Accepts(Mine(w)) /\ Write(want[w])
          /\ Return(w, want[w])
          /\ Disturb(Workers \ {w})
       \/ /\ ~Accepts(Mine(w)) /\ Again(w)
          /\ UNCHANGED <<quota, etag, rivals>>

\* Faulty Put: sent without If-Match.
PutUnconditional(w) ==
    /\ pc[w] = "put"
    /\ UNCHANGED <<late, lost>>
    /\ Write(want[w])
    /\ Return(w, want[w])
    /\ Disturb(Workers \ {w})

Put(w) ==
    /\ pc[w] = "put"
    /\ UNCHANGED <<late, lost>>
    /\ \/ /\ Accepts(Mine(w)) /\ Write(want[w])
          /\ Return(w, want[w])
          /\ Disturb(Workers \ {w})
       \/ /\ ~Accepts(Mine(w)) /\ Again(w)
          /\ UNCHANGED <<quota, etag, rivals>>

Lose(w) ==
    /\ lost < MaxLost
    /\ lost' = lost + 1
    /\ late' = late \cup {Mine(w)}
    /\ UNCHANGED <<quota, etag>>

\* The answer to a create is lost: the next round reads what became of it.
PostLost(w) ==
    /\ pc[w] = "post"
    /\ Lose(w)
    /\ Again(w)
    /\ Disturb({w})

\* The answer to an update is lost: DoJSON sends the same request again.
PutLost(w) ==
    /\ pc[w] = "put"
    /\ Lose(w)
    /\ Disturb({w})
    /\ UNCHANGED <<local, calls, asked, told>>

\* Any other error, a cancelled context, a crash of the process.
GiveUp(w) ==
    /\ pc[w] # "idle"
    /\ Leave(w)
    /\ UNCHANGED <<shared, told, rivals>>

\* Core gets a write whose sender stopped waiting for the answer.
LateWrite(m) ==
    /\ m \in late
    /\ late' = late \ {m}
    /\ IF Accepts(m) THEN Write(m.limit) /\ Disturb(Workers)
       ELSE UNCHANGED <<quota, etag, rivals>>
    /\ UNCHANGED <<local, lost, calls, asked, told>>

Progress(w) == Get(w) \/ Post(w) \/ Put(w)

Next ==
    \/ \E w \in Workers :
         \/ \E n \in Limits : Call(w, n)
         \/ Progress(w) \/ PostLost(w) \/ PutLost(w) \/ GiveUp(w)
    \/ \E m \in late : LateWrite(m)

Spec == Init /\ [][Next]_vars

\* A call whose requests are answered runs on.
FairSpec == Spec /\ \A w \in Workers : WF_vars(Progress(w))

(***************************************************************************)
(* Properties                                                              *)
(***************************************************************************)

\* Every write still under way that Core would accept grows the quota: one
\* based on an outdated read no longer carries the current ETag
\* (quotas.go:121).
WritesGrow ==
    /\ quota = 0 <=> etag = 0
    /\ \A m \in late : Accepts(m) => m.limit > quota
    /\ \A w \in Workers :
         /\ want[w] = 0 <=> pc[w] = "idle"
         /\ want[w] # 0 => want[w] \in asked
         /\ pc[w] \in {"post", "put"} /\ Accepts(Mine(w)) => want[w] > quota
    /\ \A m \in late : m.limit \in asked

\* "creates or grows a quota but never shrinks it [...] preserving the
\* greatest committed limit" (quotas.go:100): the quota only takes larger
\* values, each asked for, and a caller is told a limit it can rely on.
Abstract == INSTANCE QuotaPromise

Promise == Abstract!Spec

\* A reported capacity never turns out larger than the quota, whatever lost
\* or late write comes after the report (quotas.go:127, driver.go:359).
ReportedCapacityHolds == \A n \in told : n <= quota

\* "concurrent modifications did not settle" (quotas.go:133) is only said
\* after as many writes of others or lost answers as there were rounds.
RetriesHaveCause == \A w \in Workers : pc[w] # "idle" => round[w] - 1 <= rivals[w]

\* A call returns, with the limit or with an error (quotas.go:107).
EveryCallReturns == \A w \in Workers : pc[w] # "idle" ~> pc[w] = "idle"
=============================================================================
