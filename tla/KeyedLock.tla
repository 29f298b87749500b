------------------------------ MODULE KeyedLock ------------------------------
(***************************************************************************)
(* The reference-counted map of mutexes behind the CSI controller:         *)
(* lockCreateName in internal/csidriver/driver.go, and the order in which  *)
(* CreateVolume ("name" then "path") and DeleteVolume ("path") take the    *)
(* keys.  Every critical section of createMu touches only the map and one  *)
(* counter, so it is one step; lock.mu.Lock, lock.mu.Unlock and the        *)
(* decrement after it are separate steps, as in the code.                  *)
(*                                                                         *)
(* A *createNameLock is a member of Locks.  Allocation returns an object   *)
(* nothing reaches any more, which is what Go's collector guarantees and   *)
(* all it guarantees: a pointer may be the one of a lock dropped before.   *)
(***************************************************************************)
EXTENDS Naturals, Sequences, FiniteSets

CONSTANTS
    Workers,   \* goroutines that serve CreateVolume and DeleteVolume
    Keys,      \* "name\x00..." and "path\x00..." keys of the map
    Plans,     \* key sequences a handler locks, in order
    Locks,     \* heap addresses of createNameLock objects
    Null       \* the nil pointer, and the absent owner of a mutex

ASSUME WorkersAssumption == IsFiniteSet(Workers)

ASSUME NullAssumption == Null \notin Locks /\ Null \notin Workers

\* A handler locks each key once: its own "name" key, its own "path" key.
ASSUME PlansAssumption ==
    \A p \in Plans : /\ p \in Seq(Keys)
                     /\ Len(p) > 0
                     /\ \A i, j \in 1..Len(p) : p[i] = p[j] => i = j

VARIABLES
    creates,   \* Driver.creates: key -> lock object
    refs,      \* lock object -> refs
    owner,     \* lock object -> goroutine holding lock.mu
    plan,      \* goroutine -> the keys its handler locks
    at,        \* goroutine -> position in plan of the key it works on
    ptr,       \* goroutine -> key -> the variable "lock" of that call
    pc         \* goroutine -> control point

vars == <<creates, refs, owner, plan, at, ptr, pc>>

ControlPoints == {"idle", "lookup", "wait", "hold", "unlock", "release"}

TypeOK ==
    /\ creates \in [Keys -> Locks \cup {Null}]
    /\ refs \in [Locks -> Nat]
    /\ owner \in [Locks -> Workers \cup {Null}]
    /\ plan \in [Workers -> Plans]
    /\ at \in [Workers -> Nat]
    /\ ptr \in [Workers -> [Keys -> Locks \cup {Null}]]
    /\ pc \in [Workers -> ControlPoints]
    /\ \A w \in Workers : at[w] \in 1..Len(plan[w])

\* The key goroutine w is locking or unlocking.
Key(w) == plan[w][at[w]]

Lock(w) == ptr[w][Key(w)]

Reachable(l) == \/ \E k \in Keys : creates[k] = l
                \/ \E w \in Workers, k \in Keys : ptr[w][k] = l

Init ==
    /\ creates = [k \in Keys |-> Null]
    /\ refs \in [Locks -> {0}]
    /\ owner = [l \in Locks |-> Null]
    /\ plan \in [Workers -> Plans]
    /\ at = [w \in Workers |-> 1]
    /\ ptr = [w \in Workers |-> [k \in Keys |-> Null]]
    /\ pc = [w \in Workers |-> "idle"]

\* A request arrives and its handler calls lockCreateName for its first key.
Start(w) ==
    /\ pc[w] = "idle"
    /\ plan' \in {[plan EXCEPT ![w] = p] : p \in Plans}
    /\ at' = [at EXCEPT ![w] = 1]
    /\ pc' = [pc EXCEPT ![w] = "lookup"]
    /\ UNCHANGED <<creates, refs, owner, ptr>>

\* Under createMu: find the key's lock or allocate one, and count a reference.
Lookup(w) ==
    /\ pc[w] = "lookup"
    /\ \E l \in Locks :
         /\ \/ creates[Key(w)] = l /\ refs' = [refs EXCEPT ![l] = @ + 1]
            \/ /\ creates[Key(w)] = Null
               /\ ~Reachable(l)
               /\ refs' = [refs EXCEPT ![l] = 1]
         /\ creates' = [creates EXCEPT ![Key(w)] = l]
         /\ ptr' = [ptr EXCEPT ![w][Key(w)] = l]
    /\ pc' = [pc EXCEPT ![w] = "wait"]
    /\ UNCHANGED <<owner, plan, at>>

\* lock.mu.Lock() returns.
Acquire(w) ==
    /\ pc[w] = "wait"
    /\ owner[Lock(w)] = Null
    /\ owner' = [owner EXCEPT ![Lock(w)] = w]
    /\ pc' = [pc EXCEPT ![w] = "hold"]
    /\ UNCHANGED <<creates, refs, plan, at, ptr>>

\* The handler goes on to lock its next key.
NextKey(w) ==
    /\ pc[w] = "hold"
    /\ at[w] < Len(plan[w])
    /\ at' = [at EXCEPT ![w] = @ + 1]
    /\ pc' = [pc EXCEPT ![w] = "lookup"]
    /\ UNCHANGED <<creates, refs, owner, plan, ptr>>

\* Faulty: an error return that runs no unlock function.
ReturnWithoutUnlocking(w) ==
    /\ pc[w] = "hold"
    /\ pc' = [pc EXCEPT ![w] = "idle"]
    /\ UNCHANGED <<creates, refs, owner, plan, at, ptr>>

\* The handler returns, from its end or from an early error, and the deferred
\* unlock functions start to run, last key first.
Return(w) ==
    /\ pc[w] = "hold"
    /\ pc' = [pc EXCEPT ![w] = "unlock"]
    /\ UNCHANGED <<creates, refs, owner, plan, at, ptr>>

\* lock.mu.Unlock().
Unlock(w) ==
    /\ pc[w] = "unlock"
    /\ owner' = [owner EXCEPT ![Lock(w)] = Null]
    /\ pc' = [pc EXCEPT ![w] = "release"]
    /\ UNCHANGED <<creates, refs, plan, at, ptr>>

(***************************************************************************)
(* Faulty forms of Release, kept to show that the properties below tell    *)
(* them from the code: the entry dropped while others refer to the lock,   *)
(* the entry never dropped, and the position moved past the first key.     *)
(***************************************************************************)
ReleaseWith(w, entry, last, before) ==
    /\ pc[w] = "release"
    /\ refs' = [refs EXCEPT ![Lock(w)] = @ - 1]
    /\ creates' = [creates EXCEPT ![Key(w)] = entry]
    /\ ptr' = [ptr EXCEPT ![w][Key(w)] = Null]
    /\ at' = [at EXCEPT ![w] = before]
    /\ pc' = [pc EXCEPT ![w] = IF last THEN "idle" ELSE "unlock"]
    /\ UNCHANGED <<owner, plan>>

Before(w) == IF at[w] = 1 THEN 1 ELSE at[w] - 1

ReleaseDropsSharedEntry(w) == ReleaseWith(w, Null, at[w] = 1, Before(w))

ReleaseKeepsEntry(w) == ReleaseWith(w, creates[Key(w)], at[w] = 1, Before(w))

ReleaseRunsPastFirstKey(w) ==
    ReleaseWith(w, IF refs[Lock(w)] = 1 THEN Null ELSE creates[Key(w)],
                at[w] = 1, at[w] - 1)

\* Under createMu: drop the reference, and the map entry with the last one.
\* The entry is deleted by key, whatever object it holds at that moment.
Release(w) ==
    /\ pc[w] = "release"
    /\ refs' = [refs EXCEPT ![Lock(w)] = @ - 1]
    /\ creates' = IF refs[Lock(w)] = 1
                  THEN [creates EXCEPT ![Key(w)] = Null] ELSE creates
    /\ ptr' = [ptr EXCEPT ![w][Key(w)] = Null]
    /\ IF at[w] = 1
       THEN /\ at' = at
            /\ pc' = [pc EXCEPT ![w] = "idle"]
       ELSE /\ at' = [at EXCEPT ![w] = @ - 1]
            /\ pc' = [pc EXCEPT ![w] = "unlock"]
    /\ UNCHANGED <<owner, plan>>

Step(w) == \/ Start(w)   \/ Lookup(w) \/ Acquire(w) \/ NextKey(w)
           \/ Return(w) \/ Unlock(w) \/ Release(w)

Next == \E w \in Workers : Step(w)

(***************************************************************************)
(* Fairness.  Requests need not arrive; a started goroutine keeps running. *)
(* sync.Mutex hands the lock to a waiter starved for more than 1ms, so an  *)
(* acquisition enabled again and again happens: strong fairness.           *)
(***************************************************************************)
Fairness ==
    \A w \in Workers :
        /\ WF_vars(Lookup(w))
        /\ WF_vars(Return(w))
        /\ WF_vars(Unlock(w))
        /\ WF_vars(Release(w))
        /\ SF_vars(Acquire(w))

Spec == Init /\ [][Next]_vars

FairSpec == Spec /\ Fairness

(***************************************************************************)
(* Properties                                                              *)
(***************************************************************************)

\* The goroutine is inside the region that lockCreateName protects for k:
\* between the return of lockCreateName and the call of the unlock function.
Inside(w, k) ==
    \E i \in 1..at[w] :
        /\ plan[w][i] = k
        /\ \/ i < at[w]
           \/ pc[w] \in {"hold", "unlock"}

\* Two handlers never work on the same volume name, or on the same path, at
\* the same time in one controller process, however locks are dropped from
\* the map and allocated again while others wait (driver.go:481).
MutualExclusion ==
    \A v, w \in Workers, k \in Keys :
        v # w => ~(Inside(v, k) /\ Inside(w, k))

\* The map holds a lock exactly while some handler refers to it, so it does
\* not grow with the number of volumes ever provisioned, and refs counts the
\* handlers that refer to it (driver.go:488, driver.go:494).
NoLeak ==
    \A k \in Keys :
        LET users == {w \in Workers : ptr[w][k] # Null}
        IN  IF creates[k] = Null THEN users = {}
            ELSE users # {} /\ refs[creates[k]] = Cardinality(users)

\* A handler that asked for its locks gets them and gives them all back: the
\* name-before-path order of CreateVolume, and the unlock functions run in
\* reverse, leave no two handlers waiting on each other (driver.go:101,
\* driver.go:110, driver.go:229).
EveryHandlerReturns ==
    \A w \in Workers : (pc[w] # "idle") ~> (pc[w] = "idle")
=============================================================================
