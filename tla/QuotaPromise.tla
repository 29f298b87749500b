---------------------------- MODULE QuotaPromise ----------------------------
(***************************************************************************)
(* What EnsureQuotaAtLeast promises: "creates or grows a quota but never   *)
(* shrinks it" (internal/qumulo/quotas.go).  The quota of one directory is *)
(* a number, 0 while there is none.  It only ever takes values somebody    *)
(* has asked for, each larger than the one before, and a caller is told a  *)
(* value that covers what it asked for and that the quota has reached.     *)
(***************************************************************************)
EXTENDS Naturals

CONSTANTS Workers, Limits

VARIABLES
    quota,   \* committed limit
    asked,   \* limits asked for so far
    want,    \* worker -> limit its call asks for, 0 when it has no call
    told     \* limits reported to callers so far

pvars == <<quota, asked, want, told>>

Init ==
    /\ quota = 0
    /\ asked = {}
    /\ want = [w \in Workers |-> 0]
    /\ told = {}

Ask(w, n) ==
    /\ want[w] = 0
    /\ want' = [want EXCEPT ![w] = n]
    /\ asked' = asked \cup {n}
    /\ UNCHANGED <<quota, told>>

Grow(n) ==
    /\ n \in asked
    /\ n > quota
    /\ quota' = n
    /\ UNCHANGED <<asked, want, told>>

Tell(w, n) ==
    /\ want[w] # 0
    /\ want[w] <= n
    /\ n <= quota
    /\ told' = told \cup {n}
    /\ want' = [want EXCEPT ![w] = 0]
    /\ UNCHANGED <<quota, asked>>

\* The commit and the answer are one step when the answer is not lost.
GrowAndTell(w) ==
    /\ want[w] > quota
    /\ quota' = want[w]
    /\ told' = told \cup {want[w]}
    /\ want' = [want EXCEPT ![w] = 0]
    /\ UNCHANGED asked

\* The call ends with an error; what it asked for may still be granted.
GiveUp(w) ==
    /\ want[w] # 0
    /\ want' = [want EXCEPT ![w] = 0]
    /\ UNCHANGED <<quota, asked, told>>

Next ==
    \/ \E n \in Limits : Grow(n)
    \/ \E w \in Workers :
         \/ \E n \in Limits : Ask(w, n) \/ Tell(w, n)
         \/ GrowAndTell(w) \/ GiveUp(w)

Spec == Init /\ [][Next]_pvars
=============================================================================
