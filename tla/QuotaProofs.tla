----------------------------- MODULE QuotaProofs -----------------------------
(***************************************************************************)
(* Proofs about EnsureQuotaAtLeast (module QuotaClient), for any number of *)
(* callers, limits, rounds, calls and lost answers: the quota never        *)
(* shrinks, a reported capacity stays covered, and the loop implements     *)
(* QuotaPromise.                                                           *)
(*                                                                         *)
(* Why the invariant is what it is.  A conditional write is sent on the    *)
(* strength of a read that may be old.  It can only hurt while its ETag is *)
(* the current one, so WritesGrow speaks of those writes only.  That is    *)
(* inductive once no writer can hold an ETag Core has yet to hand out      *)
(* (NoFutureTags): else a write could make an old message current again.   *)
(***************************************************************************)
EXTENDS QuotaClient, TLAPS

NoFutureTags ==
    /\ \A w \in Workers : match[w] <= etag
    /\ \A m \in late : m.etag <= etag

\* A writer whose ETag is out of date has been disturbed in this round; a
\* call starts with its first round.
StaleHasCause ==
    \A w \in Workers :
        /\ pc[w] \in {"post", "put"} /\ ~Accepts(Mine(w)) => round[w] <= rivals[w]
        /\ pc[w] = "idle" => round[w] = 1

IInv ==
    /\ TypeOK
    /\ NoFutureTags
    /\ WritesGrow
    /\ ReportedCapacityHolds
    /\ told \subseteq asked
    /\ quota # 0 => quota \in asked

\* The bookkeeping of RetriesHaveCause rests on one more fact.
CauseInv == IInv /\ StaleHasCause /\ RetriesHaveCause

LEMMA InitIInv == Init => CauseInv
<1> USE LimitsAssumption, BoundsAssumption
<1>1. Init => TypeOK
  BY DEF Init, TypeOK, Message
<1>2. Init => /\ NoFutureTags /\ WritesGrow /\ ReportedCapacityHolds
              /\ told \subseteq asked /\ quota = 0
  BY DEF Init, NoFutureTags, WritesGrow, ReportedCapacityHolds
<1>3. Init => StaleHasCause /\ RetriesHaveCause
  BY DEF Init, StaleHasCause, RetriesHaveCause
<1> QED BY <1>1, <1>2, <1>3 DEF CauseInv, IInv

\* What a caller of the loop knows of its own call.
LEMMA OwnCall ==
    ASSUME IInv, NEW w \in Workers, pc[w] # "idle"
    PROVE  /\ want[w] \in Limits /\ want[w] \in Nat /\ want[w] > 0
           /\ want[w] \in asked
           /\ match[w] \in Nat
           /\ Mine(w) \in Message
           /\ Mine(w).limit = want[w] /\ Mine(w).etag = match[w]
<1>1. want[w] # 0 /\ want[w] \in asked
  BY DEF IInv, WritesGrow
<1>2. want[w] \in Limits /\ match[w] \in Nat
  BY <1>1 DEF IInv, TypeOK
<1>3. want[w] \in Nat /\ want[w] > 0
  BY <1>2, LimitsAssumption
<1> QED BY <1>1, <1>2, <1>3 DEF Mine, Message

LEMMA Numbers ==
    ASSUME IInv
    PROVE  /\ quota \in Nat /\ etag \in Nat
           /\ Limits \subseteq Nat /\ asked \subseteq Nat /\ told \subseteq Nat
  BY LimitsAssumption DEF IInv, TypeOK

\* Nothing is sent, or the write of this round is and its answer is lost.
Sent(w) ==
    /\ UNCHANGED <<quota, etag>>
    /\ lost' \in Nat
    /\ \/ late' = late
       \/ pc[w] \in {"post", "put"} /\ late' = late \cup {Mine(w)}

LEMMA SentFacts ==
    ASSUME IInv, NEW w \in Workers, Sent(w)
    PROVE  /\ late' \subseteq Message
           /\ \A m \in late' : /\ m.etag <= etag
                               /\ m.etag = etag => m.limit > quota
                               /\ m.limit \in asked
<1>1. ASSUME NEW m \in late
      PROVE  /\ m \in Message /\ m.etag <= etag
             /\ m.etag = etag => m.limit > quota
             /\ m.limit \in asked
  BY DEF IInv, TypeOK, NoFutureTags, WritesGrow, Accepts
<1>2. ASSUME pc[w] \in {"post", "put"}, NEW m, m = Mine(w)
      PROVE  /\ m \in Message /\ m.etag <= etag
             /\ m.etag = etag => m.limit > quota
             /\ m.limit \in asked
  BY <1>2, OwnCall DEF IInv, NoFutureTags, WritesGrow, Accepts
<1> QED BY <1>1, <1>2 DEF Sent

\* A call that ends: by an answer n that the quota has reached, or by an error.
LEMMA LeaveIInv ==
    ASSUME IInv, NEW w \in Workers, pc[w] # "idle", Leave(w),
           Sent(w), rivals' \in [Workers -> Nat],
           \/ UNCHANGED told
           \/ told' = told \cup {quota} /\ quota # 0
    PROVE  IInv'
<1> USE LimitsAssumption, BoundsAssumption DEF IInv, Leave
<1>0. quota' = quota /\ etag' = etag /\ lost' \in Nat
  BY DEF Sent
<1>1. TypeOK'
  <2>1. told' \subseteq Limits /\ quota' \in Limits \cup {0} /\ etag' \in Nat
    BY <1>0 DEF TypeOK
  <2>2. pc' \in [Workers -> {"idle", "get", "post", "put"}]
    BY DEF TypeOK
  <2>3. want' \in [Workers -> Limits \cup {0}] /\ match' \in [Workers -> Nat]
    BY DEF TypeOK
  <2>4. round' \in [Workers -> 1..Attempts]
    BY DEF TypeOK
  <2>5. late' \subseteq Message
    BY SentFacts
  <2> QED BY <1>0, <2>1, <2>2, <2>3, <2>4, <2>5 DEF TypeOK
<1>2. NoFutureTags'
  BY <1>0, SentFacts DEF TypeOK, NoFutureTags
<1>3. WritesGrow'
  <2>1. \A m \in late' : (m.etag = etag => m.limit > quota) /\ m.limit \in asked
    BY SentFacts
  <2>2. (quota = 0 <=> etag = 0)'
    BY <1>0 DEF WritesGrow
  <2>3. \A v \in Workers :
          /\ (want[v] = 0 <=> pc[v] = "idle")'
          /\ (want[v] # 0 => want[v] \in asked)'
          /\ (pc[v] \in {"post", "put"} /\ match[v] = etag => want[v] > quota)'
    BY <1>0 DEF TypeOK, WritesGrow, Accepts, Mine
  <2> QED BY <1>0, <2>1, <2>2, <2>3 DEF WritesGrow, Accepts, Mine
<1>4. (told \subseteq asked)' /\ (quota # 0 => quota \in asked)'
  BY <1>0 DEF TypeOK
<1>5. ReportedCapacityHolds'
  BY <1>0, Numbers DEF ReportedCapacityHolds
<1> QED BY <1>1, <1>2, <1>3, <1>4, <1>5

\* A call that goes on, with its next read or by sending the same write again.
StaysIn(w) ==
    \/ /\ round[w] < Attempts
       /\ round' = [round EXCEPT ![w] = @ + 1]
       /\ pc' = [pc EXCEPT ![w] = "get"]
       /\ match' = [match EXCEPT ![w] = 0]
       /\ UNCHANGED <<want, calls, asked, told>>
    \/ UNCHANGED <<local, calls, asked, told>>

LEMMA StayIInv ==
    ASSUME IInv, NEW w \in Workers, pc[w] # "idle", StaysIn(w),
           Sent(w), rivals' \in [Workers -> Nat]
    PROVE  IInv'
<1> USE LimitsAssumption, BoundsAssumption DEF IInv, StaysIn, local
<1>0. quota' = quota /\ etag' = etag /\ lost' \in Nat
  BY DEF Sent
<1>1. TypeOK'
  <2>1. round' \in [Workers -> 1..Attempts]
    BY DEF TypeOK
  <2>2. pc' \in [Workers -> {"idle", "get", "post", "put"}]
    BY DEF TypeOK
  <2>3. match' \in [Workers -> Nat]
    BY DEF TypeOK
  <2>4. late' \subseteq Message
    BY SentFacts
  <2> QED BY <1>0, <2>1, <2>2, <2>3, <2>4 DEF TypeOK
<1>2. NoFutureTags'
  BY <1>0, SentFacts DEF TypeOK, NoFutureTags
<1>3. WritesGrow'
  <2>1. \A m \in late' : (m.etag = etag => m.limit > quota) /\ m.limit \in asked
    BY SentFacts
  <2>2. \A v \in Workers :
          /\ (want[v] = 0 <=> pc[v] = "idle")'
          /\ (want[v] # 0 => want[v] \in asked)'
          /\ (pc[v] \in {"post", "put"} /\ match[v] = etag => want[v] > quota)'
    BY <1>0 DEF TypeOK, WritesGrow, Accepts, Mine
  <2> QED BY <1>0, <2>1, <2>2 DEF WritesGrow, Accepts, Mine
<1>4. ReportedCapacityHolds' /\ (told \subseteq asked)' /\ (quota # 0 => quota \in asked)'
  BY <1>0 DEF ReportedCapacityHolds
<1> QED BY <1>1, <1>2, <1>3, <1>4

\* A round that ends in "continue".
LEMMA AgainIInv ==
    ASSUME IInv, NEW w \in Workers, pc[w] # "idle", Again(w),
           Sent(w), rivals' \in [Workers -> Nat]
    PROVE  IInv'
<1>1. CASE round[w] = Attempts
  BY <1>1, LeaveIInv DEF Again
<1>2. CASE round[w] # Attempts
  <2>1. round[w] < Attempts
    BY <1>2, BoundsAssumption DEF IInv, TypeOK
  <2> QED BY <1>2, <2>1, StayIInv DEF Again, StaysIn
<1> QED BY <1>1, <1>2

\* A write that Core accepts makes the quota larger, and every other write
\* under way out of date.
LEMMA WriteIInv ==
    ASSUME IInv, NEW w \in Workers, pc[w] \in {"post", "put"},
           Accepts(Mine(w)), Write(want[w]), Return(w, want[w]),
           UNCHANGED <<late, lost>>, rivals' \in [Workers -> Nat]
    PROVE  IInv'
<1> USE LimitsAssumption, BoundsAssumption DEF IInv, Return, Leave, Write
<1>0. want[w] > quota /\ want[w] \in Limits /\ want[w] \in asked /\ want[w] \in Nat
  BY OwnCall DEF WritesGrow
<1>1. TypeOK'
  <2>1. /\ told \subseteq Limits /\ told' = told \cup {want[w]}
        /\ quota' = want[w] /\ etag' = etag + 1
    BY DEF TypeOK
  <2>2. pc' \in [Workers -> {"idle", "get", "post", "put"}]
    BY DEF TypeOK
  <2>3. want' \in [Workers -> Limits \cup {0}] /\ match' \in [Workers -> Nat]
    BY DEF TypeOK
  <2>4. round' \in [Workers -> 1..Attempts]
    BY DEF TypeOK
  <2>5. told' \subseteq Limits /\ quota' \in Limits \cup {0}
    BY <1>0, <2>1
  <2>6. etag' \in Nat
    BY <2>1, Numbers
  <2> QED BY <2>2, <2>3, <2>4, <2>5, <2>6 DEF TypeOK
<1>2. NoFutureTags'
  BY DEF TypeOK, NoFutureTags, Message
<1>3. WritesGrow'
  <2>1. (quota = 0 <=> etag = 0)'
    BY <1>0, Numbers
  <2>2. \A m \in late : ~Accepts(m)'
    BY Numbers DEF NoFutureTags, Accepts, TypeOK, Message
  <2>3. \A v \in Workers : ~(match'[v] = etag')
    BY Numbers DEF NoFutureTags, TypeOK
  <2>4. \A v \in Workers : (want[v] = 0 <=> pc[v] = "idle")' /\ (want[v] # 0 => want[v] \in asked)'
    BY DEF TypeOK, WritesGrow
  <2>5. \A m \in late' : m.limit \in asked'
    BY DEF WritesGrow
  <2> QED BY <2>1, <2>2, <2>3, <2>4, <2>5 DEF WritesGrow, Accepts, Mine
<1>4. (told \subseteq asked)' /\ (quota # 0 => quota \in asked)'
  BY <1>0
<1>5. ReportedCapacityHolds'
  BY <1>0, Numbers DEF ReportedCapacityHolds
<1> QED BY <1>1, <1>2, <1>3, <1>4, <1>5

LEMMA DisturbTyped ==
    ASSUME IInv, NEW others, Disturb(others)
    PROVE  rivals' \in [Workers -> Nat]
  BY DEF IInv, TypeOK, Disturb

LEMMA NextIInv == IInv /\ [Next]_vars => IInv'
<1> SUFFICES ASSUME IInv, [Next]_vars PROVE IInv'
  OBVIOUS
<1> USE LimitsAssumption, BoundsAssumption
<1>1. ASSUME NEW w \in Workers, NEW n \in Limits, Call(w, n) PROVE IInv'
  <2> USE <1>1 DEF IInv, Call, shared
  <2>1. TypeOK'
    BY DEF TypeOK
  <2>2. NoFutureTags'
    BY DEF NoFutureTags
  <2>3. WritesGrow'
    BY DEF TypeOK, WritesGrow, Accepts, Mine
  <2>4. ReportedCapacityHolds' /\ (told \subseteq asked)'
    BY DEF TypeOK, ReportedCapacityHolds
  <2> QED BY <2>1, <2>2, <2>3, <2>4
<1>2. ASSUME NEW w \in Workers, Get(w) PROVE IInv'
  <2> USE <1>2 DEF Get, shared
  <2>0. pc[w] # "idle" /\ pc[w] \notin {"post", "put"}
    OBVIOUS
  <2>1. CASE quota >= want[w]
    <3>1. Leave(w) /\ told' = told \cup {quota}
      BY <2>1 DEF Return
    <3>2. quota # 0
      BY <2>0, <2>1, OwnCall, Numbers
    <3>3. Sent(w) /\ rivals' \in [Workers -> Nat]
      BY DEF IInv, TypeOK, Sent
    <3> QED BY <2>0, <3>1, <3>2, <3>3, LeaveIInv
  <2>2. CASE ~(quota >= want[w])
    <3> USE <2>2 DEF IInv
    <3>1. TypeOK'
      BY DEF TypeOK
    <3>2. NoFutureTags'
      BY DEF TypeOK, NoFutureTags
    <3>3. WritesGrow'
      <4>1. want[w] > quota
        BY <2>0, OwnCall, Numbers
      <4> QED BY <4>1 DEF TypeOK, WritesGrow, Accepts, Mine
    <3>4. ReportedCapacityHolds' /\ (told \subseteq asked)' /\ (quota # 0 => quota \in asked)'
      BY DEF ReportedCapacityHolds
    <3> QED BY <3>1, <3>2, <3>3, <3>4
  <2> QED BY <2>1, <2>2
<1>3. ASSUME NEW w \in Workers, Post(w) \/ Put(w) PROVE IInv'
  <2>0. pc[w] \in {"post", "put"}
    BY <1>3 DEF Post, Put
  <2>1. CASE Accepts(Mine(w)) /\ Write(want[w]) /\ Return(w, want[w])
             /\ Disturb(Workers \ {w}) /\ UNCHANGED <<late, lost>>
    BY <2>0, <2>1, DisturbTyped, WriteIInv
  <2>2. CASE Again(w) /\ UNCHANGED <<quota, etag, late, lost>> /\ UNCHANGED rivals
    <3>1. Sent(w) /\ rivals' \in [Workers -> Nat]
      BY <2>2 DEF IInv, TypeOK, Sent
    <3> QED BY <2>0, <2>2, <3>1, AgainIInv
  <2>3. \/ /\ Accepts(Mine(w)) /\ Write(want[w]) /\ Return(w, want[w])
           /\ Disturb(Workers \ {w}) /\ UNCHANGED <<late, lost>>
        \/ Again(w) /\ UNCHANGED <<quota, etag, late, lost>> /\ UNCHANGED rivals
    BY <1>3 DEF Post, Put
  <2> QED BY <2>1, <2>2, <2>3
<1>4. ASSUME NEW w \in Workers, PostLost(w) \/ PutLost(w) PROVE IInv'
  <2>0. pc[w] \in {"post", "put"} /\ Disturb({w}) /\ Lose(w)
    BY <1>4 DEF PostLost, PutLost
  <2>1. rivals' \in [Workers -> Nat]
    BY <2>0, DisturbTyped
  <2>2. Sent(w)
    BY <2>0 DEF Lose, Sent, IInv, TypeOK
  <2>3. CASE Again(w)
    BY <2>0, <2>1, <2>2, <2>3, AgainIInv
  <2>4. CASE UNCHANGED <<local, calls, asked, told>>
    BY <2>0, <2>1, <2>2, <2>4, StayIInv DEF StaysIn
  <2> QED BY <1>4, <2>3, <2>4 DEF PostLost, PutLost
<1>5. ASSUME NEW w \in Workers, GiveUp(w) PROVE IInv'
  <2>1. Sent(w) /\ rivals' \in [Workers -> Nat]
    BY <1>5 DEF GiveUp, shared, Sent, IInv, TypeOK
  <2> QED BY <1>5, <2>1, LeaveIInv DEF GiveUp
<1>6. ASSUME NEW m \in late, LateWrite(m) PROVE IInv'
  <2> USE <1>6 DEF LateWrite, local
  <2>0. rivals' \in [Workers -> Nat]
    BY DisturbTyped DEF IInv, TypeOK
  <2>1. m \in Message /\ m.limit \in Limits /\ m.limit \in asked
    BY DEF IInv, TypeOK, WritesGrow, Message
  <2>2. CASE Accepts(m)
    <3> USE <2>2 DEF Write, IInv
    <3>0. m.limit > quota /\ m.limit \in Nat
      BY <2>1 DEF WritesGrow
    <3>1. TypeOK'
      BY <2>0, <2>1, Numbers DEF TypeOK
    <3>2. NoFutureTags'
      BY DEF TypeOK, NoFutureTags, Message
    <3>3. WritesGrow'
      <4>1. (quota = 0 <=> etag = 0)'
        BY <3>0, Numbers
      <4>2. \A n \in late : ~(n.etag = etag')
        BY Numbers DEF NoFutureTags, TypeOK, Message
      <4>3. \A v \in Workers : ~(match'[v] = etag')
        BY Numbers DEF NoFutureTags, TypeOK
      <4> QED BY <4>1, <4>2, <4>3 DEF WritesGrow, Accepts, Mine
    <3>4. (told \subseteq asked)' /\ (quota # 0 => quota \in asked)'
      BY <2>1
    <3>5. ReportedCapacityHolds'
      BY <3>0, Numbers DEF ReportedCapacityHolds
    <3> QED BY <3>1, <3>2, <3>3, <3>4, <3>5
  <2>3. CASE ~Accepts(m)
    BY <2>3 DEF IInv, TypeOK, NoFutureTags, WritesGrow, Accepts, Mine, ReportedCapacityHolds
  <2> QED BY <2>2, <2>3
<1>7. CASE UNCHANGED vars
  BY <1>7 DEF vars, shared, local, IInv, TypeOK, NoFutureTags, WritesGrow, Accepts, Mine,
              ReportedCapacityHolds
<1> QED BY <1>1, <1>2, <1>3, <1>4, <1>5, <1>6, <1>7 DEF Next, Progress

\* Every reachable state satisfies the invariant.
THEOREM QuotaInvariance == Spec => []IInv
<1>1. Init => IInv
  BY InitIInv DEF CauseInv
<1> QED BY <1>1, NextIInv, PTL DEF Spec

\* The variables keep their types: rounds stay within Attempts, and only
\* limits that callers use are ever committed or reported.
THEOREM QuotaTypeCorrect == Spec => []TypeOK
<1>1. IInv => TypeOK
  BY DEF IInv
<1> QED BY <1>1, QuotaInvariance, PTL

\* A write that Core would accept, sent or about to be, grows the quota
\* (quotas.go:121).
THEOREM NoWriteShrinks == Spec => []WritesGrow
<1>1. IInv => WritesGrow
  BY DEF IInv
<1> QED BY <1>1, QuotaInvariance, PTL

\* A capacity that CreateVolume or ControllerExpandVolume has reported stays
\* within the quota (quotas.go:127).
THEOREM ReportsStand == Spec => []ReportedCapacityHolds
<1>1. IInv => ReportedCapacityHolds
  BY DEF IInv
<1> QED BY <1>1, QuotaInvariance, PTL

LEMMA StepRefines == IInv /\ [Next]_vars => [Abstract!Next]_(Abstract!pvars)
<1> SUFFICES ASSUME IInv, [Next]_vars
             PROVE  Abstract!Next \/ UNCHANGED <<quota, asked, want, told>>
  BY DEF Abstract!pvars
<1>1. ASSUME NEW w \in Workers, NEW n \in Limits, Call(w, n) PROVE Abstract!Ask(w, n)
  BY <1>1 DEF Call, shared, Abstract!Ask, IInv, WritesGrow
<1>2. ASSUME NEW w \in Workers, Get(w)
      PROVE  \/ \E n \in Limits : Abstract!Tell(w, n)
             \/ UNCHANGED <<quota, asked, want, told>>
  <2>1. CASE quota >= want[w]
    <3>1. want[w] # 0 /\ quota \in Limits /\ quota <= quota /\ want[w] <= quota
      BY <1>2, <2>1, OwnCall, Numbers DEF Get, IInv, TypeOK
    <3>2. Abstract!Tell(w, quota)
      BY <1>2, <2>1, <3>1 DEF Get, shared, Return, Leave, Abstract!Tell
    <3> QED BY <3>1, <3>2
  <2> QED BY <1>2, <2>1 DEF Get, shared
<1>3. ASSUME NEW w \in Workers, Leave(w), pc[w] # "idle", UNCHANGED <<quota, told>>
      PROVE  Abstract!GiveUp(w)
  BY <1>3, OwnCall DEF Leave, Abstract!GiveUp
<1>4. ASSUME NEW w \in Workers, Again(w), pc[w] # "idle", UNCHANGED quota
      PROVE  Abstract!GiveUp(w) \/ UNCHANGED <<quota, asked, want, told>>
  BY <1>3, <1>4 DEF Again
<1>5. ASSUME NEW w \in Workers, Post(w) \/ Put(w)
      PROVE  \/ Abstract!GrowAndTell(w) \/ Abstract!GiveUp(w)
             \/ UNCHANGED <<quota, asked, want, told>>
  <2>1. CASE Accepts(Mine(w)) /\ Write(want[w]) /\ Return(w, want[w])
    <3>1. want[w] > quota
      BY <1>5, <2>1 DEF Post, Put, IInv, WritesGrow
    <3> QED BY <2>1, <3>1 DEF Write, Return, Leave, Abstract!GrowAndTell
  <2>2. CASE Again(w) /\ UNCHANGED <<quota, etag, rivals>>
    BY <1>4, <1>5, <2>2 DEF Post, Put
  <2> QED BY <1>5, <2>1, <2>2 DEF Post, Put
<1>6. ASSUME NEW w \in Workers, PostLost(w) \/ PutLost(w)
      PROVE  Abstract!GiveUp(w) \/ UNCHANGED <<quota, asked, want, told>>
  BY <1>4, <1>6 DEF PostLost, PutLost, Lose, local
<1>7. ASSUME NEW w \in Workers, GiveUp(w) PROVE Abstract!GiveUp(w)
  BY <1>3, <1>7 DEF GiveUp, shared
<1>8. ASSUME NEW m \in late, LateWrite(m)
      PROVE  \/ \E n \in Limits : Abstract!Grow(n)
             \/ UNCHANGED <<quota, asked, want, told>>
  <2>1. CASE Accepts(m)
    <3>1. m.limit \in Limits /\ m.limit \in asked /\ m.limit > quota
      BY <2>1 DEF IInv, TypeOK, Message, WritesGrow
    <3>2. Abstract!Grow(m.limit)
      BY <1>8, <2>1, <3>1 DEF LateWrite, local, Write, Abstract!Grow
    <3> QED BY <3>1, <3>2
  <2> QED BY <1>8, <2>1 DEF LateWrite, local
<1>9. CASE UNCHANGED vars
  BY <1>9 DEF vars, shared, local
<1> QED BY <1>1, <1>2, <1>5, <1>6, <1>7, <1>8, <1>9 DEF Next, Progress, Abstract!Next

\* The retry loop implements the promise of its comment: the quota is created
\* or grown, never shrunk, and the answers are covered (quotas.go:100).
THEOREM LoopKeepsPromise == Spec => Promise
<1>1. Init => Abstract!Init
  BY DEF Init, Abstract!Init
<1> QED BY <1>1, StepRefines, QuotaInvariance, PTL DEF Spec, Promise, Abstract!Spec

(***************************************************************************)
(* Why a call ends with "concurrent modifications did not settle".         *)
(***************************************************************************)

LEMMA NextCause == CauseInv /\ [Next]_vars => CauseInv'
<1> SUFFICES ASSUME CauseInv, [Next]_vars PROVE (StaleHasCause /\ RetriesHaveCause)'
  BY NextIInv DEF CauseInv
<1> USE BoundsAssumption DEF CauseInv, StaleHasCause, RetriesHaveCause
<1>0. IInv' /\ TypeOK /\ NoFutureTags
  BY NextIInv DEF IInv
<1>1. ASSUME NEW w \in Workers, NEW n \in Limits, Call(w, n)
      PROVE  (StaleHasCause /\ RetriesHaveCause)'
  BY <1>0, <1>1 DEF Call, shared, TypeOK, Accepts, Mine
<1>2. ASSUME NEW w \in Workers, Get(w) PROVE (StaleHasCause /\ RetriesHaveCause)'
  BY <1>0, <1>2 DEF Get, Return, Leave, shared, TypeOK, Accepts, Mine
<1>3. ASSUME NEW w \in Workers, Post(w) \/ Put(w)
      PROVE  (StaleHasCause /\ RetriesHaveCause)'
  <2>0. pc[w] \in {"post", "put"}
    BY <1>3 DEF Post, Put
  <2>1. CASE Write(want[w]) /\ Return(w, want[w]) /\ Disturb(Workers \ {w})
    <3>1. pc'[w] = "idle" /\ pc' \in [Workers -> {"idle", "get", "post", "put"}]
      BY <1>0, <2>1 DEF Return, Leave, TypeOK
    <3>2. ASSUME NEW v \in Workers, v # w, pc[v] # "idle"
          PROVE  round'[v] = round[v] /\ rivals'[v] = rivals[v] + 1
      BY <1>0, <2>1, <3>2 DEF Return, Leave, Disturb, TypeOK
    <3>3. ASSUME NEW v \in Workers, v # w PROVE pc'[v] = pc[v]
      BY <1>0, <2>1, <3>3 DEF Return, Leave, TypeOK
    <3>4. ASSUME NEW v \in Workers, pc'[v] # "idle" PROVE round'[v] <= rivals'[v]
      BY <1>0, <3>1, <3>2, <3>3, <3>4 DEF TypeOK
    <3>5. ASSUME NEW v \in Workers PROVE round'[v] \in Nat /\ rivals'[v] \in Nat
      BY <1>0 DEF IInv, TypeOK
    <3>6. RetriesHaveCause'
      BY <3>4, <3>5
    <3>7. StaleHasCause'
      BY <1>0, <2>1, <3>1, <3>3, <3>4 DEF Return, Leave, TypeOK
    <3> QED BY <3>6, <3>7
  <2>2. CASE ~Accepts(Mine(w)) /\ Again(w) /\ UNCHANGED <<quota, etag, rivals>>
    BY <1>0, <2>0, <2>2 DEF Again, Leave, TypeOK, Accepts, Mine
  <2> QED BY <1>3, <2>1, <2>2 DEF Post, Put
<1>4. ASSUME NEW w \in Workers, PostLost(w) \/ PutLost(w)
      PROVE  (StaleHasCause /\ RetriesHaveCause)'
  BY <1>0, <1>4 DEF PostLost, PutLost, Lose, Again, Leave, Disturb, local, TypeOK, Accepts, Mine
<1>5. ASSUME NEW w \in Workers, GiveUp(w) PROVE (StaleHasCause /\ RetriesHaveCause)'
  BY <1>0, <1>5 DEF GiveUp, Leave, shared, TypeOK, Accepts, Mine
<1>6. ASSUME NEW m \in late, LateWrite(m) PROVE (StaleHasCause /\ RetriesHaveCause)'
  BY <1>0, <1>6 DEF LateWrite, Disturb, Write, local, TypeOK, Accepts, Mine
<1>7. CASE UNCHANGED vars
  BY <1>7 DEF vars, shared, local, Accepts, Mine
<1> QED BY <1>1, <1>2, <1>3, <1>4, <1>5, <1>6, <1>7 DEF Next, Progress

\* A call never runs another round, nor out of rounds, without a cause: a
\* write of somebody else or a lost answer for each (quotas.go:133).
THEOREM RetriesAreCaused == Spec => []RetriesHaveCause
<1>1. CauseInv => RetriesHaveCause
  BY DEF CauseInv
<1> QED BY <1>1, InitIInv, NextCause, PTL DEF Spec
=============================================================================
