--------------------------- MODULE KeyedLockProofs ---------------------------
(***************************************************************************)
(* Proofs about KeyedLock, for any number of goroutines, keys and lock     *)
(* objects and any locking plans.                                          *)
(*                                                                         *)
(* MutualExclusion alone is not inductive: that two goroutines hold two    *)
(* different mutexes of one key must be excluded, so the invariant says    *)
(* that every reference to a key is to the object in the map (Current),    *)
(* that no object serves two keys (Distinct), when a goroutine refers to a *)
(* key (Refers) and that refs counts exactly the references (NoLeak), the  *)
(* fact that keeps Release from dropping an entry somebody else uses.      *)
(***************************************************************************)
EXTENDS KeyedLock, FiniteSetTheorems, TLAPS

Users(k) == {w \in Workers : ptr[w][k] # Null}

\* Goroutine w has looked its i-th key up and not released it yet.
Refers(w, i) ==
    \/ i < at[w]
    \/ i = at[w] /\ pc[w] \in {"wait", "hold", "unlock", "release"}

Current ==
    \A w \in Workers, k \in Keys : ptr[w][k] # Null => ptr[w][k] = creates[k]

Distinct ==
    \A j, k \in Keys : creates[j] # Null /\ creates[j] = creates[k] => j = k

Control ==
    \A w \in Workers :
        /\ pc[w] = "idle" => at[w] = 1
        /\ \A i \in 1..Len(plan[w]) : (ptr[w][plan[w][i]] # Null) <=> Refers(w, i)
        /\ \A k \in Keys : ptr[w][k] # Null => \E i \in 1..Len(plan[w]) : plan[w][i] = k

Ownership ==
    \A w \in Workers : \A i \in 1..Len(plan[w]) :
        (i < at[w] \/ (i = at[w] /\ pc[w] \in {"hold", "unlock"}))
            => owner[ptr[w][plan[w][i]]] = w

IInv == TypeOK /\ Current /\ Distinct /\ Control /\ NoLeak /\ Ownership

\* What PlansAssumption says of the plan of a goroutine.
LEMMA PlanFacts ==
    ASSUME TypeOK, NEW w \in Workers
    PROVE  /\ Len(plan[w]) \in Nat
           /\ at[w] \in 1..Len(plan[w])
           /\ \A i \in 1..Len(plan[w]) : plan[w][i] \in Keys
           /\ \A i, j \in 1..Len(plan[w]) : plan[w][i] = plan[w][j] => i = j
           /\ Key(w) \in Keys
<1>1. plan[w] \in Plans
  BY DEF TypeOK
<1>2. plan[w] \in Seq(Keys)
  BY <1>1, PlansAssumption
<1>3. \A i \in 1..Len(plan[w]) : plan[w][i] \in Keys
  BY <1>2
<1>4. Len(plan[w]) \in Nat
  BY <1>2
<1> QED
  BY <1>1, <1>3, <1>4, PlansAssumption DEF TypeOK, Key

\* The initial state satisfies the invariant.
LEMMA InitIInv == Init => IInv
<1> SUFFICES ASSUME Init PROVE IInv
  OBVIOUS
<1>1. \A w \in Workers : Len(plan[w]) \in Nat /\ Len(plan[w]) > 0
  BY PlansAssumption DEF Init
<1>2. TypeOK
  BY <1>1 DEF Init, TypeOK, ControlPoints
<1>3. \A w \in Workers, k \in Keys : ptr[w][k] = Null
  BY DEF Init
<1>4. \A w \in Workers : \A i \in 1..Len(plan[w]) : plan[w][i] \in Keys
  BY <1>2, PlanFacts
<1>5. Control
  BY <1>1, <1>3, <1>4 DEF Init, Control, Refers
<1>6. Current /\ Distinct
  BY <1>3 DEF Init, Current, Distinct
<1>7. NoLeak
  BY <1>3 DEF Init, NoLeak
<1>8. Ownership
  BY <1>1 DEF Init, Ownership
<1> QED
  BY <1>2, <1>5, <1>6, <1>7, <1>8 DEF IInv

\* What the invariant says of the key a goroutine works on: it refers to the
\* object of the map exactly from Lookup to Release.
LEMMA OwnKey ==
    ASSUME IInv, NEW w \in Workers
    PROVE  /\ pc[w] = "lookup" => ptr[w][Key(w)] = Null
           /\ pc[w] \in {"wait", "hold", "unlock", "release"} =>
                /\ Lock(w) \in Locks
                /\ Lock(w) = creates[Key(w)]
                /\ w \in Users(Key(w))
<1>1. /\ at[w] \in 1..Len(plan[w])
      /\ Key(w) \in Keys
      /\ Key(w) = plan[w][at[w]]
  BY PlanFacts DEF IInv, Key
<1>2. (ptr[w][Key(w)] # Null) <=> Refers(w, at[w])
  BY <1>1 DEF IInv, Control
<1>3. ptr[w][Key(w)] \in Locks \cup {Null}
  BY <1>1 DEF IInv, TypeOK
<1> QED
  BY <1>1, <1>2, <1>3 DEF IInv, Current, Refers, Lock, Users

\* References counted for one key are not counted for another.
LEMMA CountUsers ==
    ASSUME IInv, NEW k \in Keys
    PROVE  /\ IsFiniteSet(Users(k))
           /\ Cardinality(Users(k)) \in Nat
           /\ creates[k] = Null <=> Users(k) = {}
           /\ creates[k] # Null => refs[creates[k]] = Cardinality(Users(k))
<1>1. IsFiniteSet(Users(k))
  BY WorkersAssumption, FS_Subset DEF Users
<1> QED
  BY <1>1, FS_CardinalityType DEF IInv, NoLeak, Users

\* Every step preserves the type invariant.
LEMMA NextTypeOK == IInv /\ [Next]_vars => TypeOK'
<1> SUFFICES ASSUME IInv, [Next]_vars PROVE TypeOK'
  OBVIOUS
<1> TypeOK
  BY DEF IInv
<1>1. CASE UNCHANGED vars
  BY <1>1 DEF vars, TypeOK
<1>2. ASSUME NEW w \in Workers, Start(w) PROVE TypeOK'
  <2>1. PICK p \in Plans : plan' = [plan EXCEPT ![w] = p]
    BY <1>2 DEF Start
  <2>2. Len(p) \in Nat /\ Len(p) > 0
    BY PlansAssumption
  <2>3. \A v \in Workers : at'[v] \in 1..Len(plan'[v])
    BY <1>2, <2>1, <2>2 DEF Start, TypeOK
  <2> QED
    BY <1>2, <2>1, <2>3 DEF Start, TypeOK, ControlPoints
<1>3. ASSUME NEW w \in Workers, Lookup(w) PROVE TypeOK'
  <2>1. Key(w) \in Keys
    BY PlanFacts
  <2>2. PICK l \in Locks :
           /\ \/ refs' = [refs EXCEPT ![l] = refs[l] + 1]
              \/ refs' = [refs EXCEPT ![l] = 1]
           /\ creates' = [creates EXCEPT ![Key(w)] = l]
           /\ ptr' = [ptr EXCEPT ![w][Key(w)] = l]
    BY <1>3 DEF Lookup
  <2>3. refs' \in [Locks -> Nat]
    <3>1. refs \in [Locks -> Nat] /\ refs[l] + 1 \in Nat
      BY DEF TypeOK
    <3> QED
      BY <2>2, <3>1
  <2>4. ptr' \in [Workers -> [Keys -> Locks \cup {Null}]]
    BY <2>1, <2>2 DEF TypeOK
  <2> QED
    BY <1>3, <2>1, <2>2, <2>3, <2>4 DEF Lookup, TypeOK, ControlPoints
<1>4. ASSUME NEW w \in Workers, Acquire(w) PROVE TypeOK'
  BY <1>4 DEF Acquire, TypeOK, ControlPoints
<1>5. ASSUME NEW w \in Workers, NextKey(w) PROVE TypeOK'
  <2>1. Len(plan[w]) \in Nat
    BY PlanFacts
  <2> QED
    BY <1>5, <2>1 DEF NextKey, TypeOK, ControlPoints
<1>6. ASSUME NEW w \in Workers, Return(w) PROVE TypeOK'
  BY <1>6 DEF Return, TypeOK, ControlPoints
<1>7. ASSUME NEW w \in Workers, Unlock(w) PROVE TypeOK'
  BY <1>7 DEF Unlock, TypeOK, ControlPoints
<1>8. ASSUME NEW w \in Workers, Release(w) PROVE TypeOK'
  <2>1. Lock(w) \in Locks /\ Key(w) \in Keys /\ Lock(w) = creates[Key(w)]
    BY <1>8, OwnKey, PlanFacts DEF Release
  <2>2. w \in Users(Key(w))
    BY <1>8, OwnKey DEF Release
  <2>3. refs[Lock(w)] # 0
    BY <2>1, <2>2, CountUsers, FS_EmptySet, NullAssumption
  <2>4. refs' \in [Locks -> Nat]
    BY <1>8, <2>1, <2>3 DEF Release, TypeOK
  <2>5. \A v \in Workers : Len(plan[v]) \in Nat
    BY PlanFacts
  <2>6. at[w] # 1 => at[w] - 1 \in 1..Len(plan[w])
    BY <2>5 DEF TypeOK
  <2>7. at' \in [Workers -> Nat]
    BY <1>8, <2>5, <2>6 DEF Release, TypeOK
  <2>8. \A v \in Workers : at'[v] \in 1..Len(plan'[v])
    BY <1>8, <2>5, <2>6 DEF Release, TypeOK
  <2> QED
    BY <1>8, <2>1, <2>4, <2>7, <2>8 DEF Release, TypeOK, ControlPoints
<1> QED
  BY <1>1, <1>2, <1>3, <1>4, <1>5, <1>6, <1>7, <1>8 DEF Next, Step

\* Lookup keeps the invariant: it adds one reference, to the object the map
\* already holds for the key or to one that nothing reaches.
LEMMA LookupIInv ==
    ASSUME IInv, TypeOK', NEW w \in Workers, Lookup(w)
    PROVE  IInv'
<1>0. PICK key \in Keys : key = Key(w)
  BY PlanFacts DEF IInv
<1>1. key \in Keys /\ ptr[w][key] = Null /\ w \notin Users(key)
  BY <1>0, OwnKey DEF Lookup, Users
<1>2. PICK l \in Locks :
         /\ \/ creates[key] = l /\ refs' = [refs EXCEPT ![l] = refs[l] + 1]
            \/ creates[key] = Null /\ ~Reachable(l) /\ refs' = [refs EXCEPT ![l] = 1]
         /\ creates' = [creates EXCEPT ![key] = l]
         /\ ptr' = [ptr EXCEPT ![w][key] = l]
  BY <1>0 DEF Lookup
<1>3. l # Null
  BY NullAssumption
<1>4. \A v \in Workers, k \in Keys :
         ptr'[v][k] = IF v = w /\ k = key THEN l ELSE ptr[v][k]
  BY <1>1, <1>2 DEF IInv, TypeOK
<1>5. \A k \in Keys : creates'[k] = IF k = key THEN l ELSE creates[k]
  BY <1>1, <1>2 DEF IInv, TypeOK
<1>6. \A k \in Keys : k # key => creates[k] # l
  BY <1>1, <1>2, <1>3 DEF IInv, Distinct, Reachable
<1>7. UNCHANGED <<owner, plan, at>> /\ pc' = [pc EXCEPT ![w] = "wait"]
  BY DEF Lookup
<1>8. \A v \in Workers : pc'[v] = IF v = w THEN "wait" ELSE pc[v]
  BY <1>7 DEF IInv, TypeOK
<1>9. Current'
  <2>1. \A v \in Workers : ptr[v][key] # Null => ptr[v][key] = l
    BY <1>1, <1>2, CountUsers DEF IInv, Current, Users
  <2> QED
    BY <1>4, <1>5, <2>1 DEF IInv, Current
<1>10. Distinct'
  BY <1>5, <1>6 DEF IInv, Distinct
<1>11. Control'
  <2>1. \A v \in Workers : /\ \A i \in 1..Len(plan[v]) : plan[v][i] \in Keys
                           /\ at[v] \in 1..Len(plan[v])
                           /\ Len(plan[v]) \in Nat
                           /\ \A i, j \in 1..Len(plan[v]) :
                                plan[v][i] = plan[v][j] => i = j
    BY PlanFacts DEF IInv
  <2>2. key = plan[w][at[w]] /\ pc[w] = "lookup"
    BY <1>0 DEF Key, Lookup
  <2>3. \A v \in Workers : \A i \in 1..Len(plan[v]) :
           (ptr'[v][plan[v][i]] # Null) <=> Refers(v, i)'
    <3> SUFFICES ASSUME NEW v \in Workers, NEW i \in 1..Len(plan[v])
                 PROVE  (ptr'[v][plan[v][i]] # Null) <=> Refers(v, i)'
      OBVIOUS
    <3>1. (ptr[v][plan[v][i]] # Null) <=> Refers(v, i)
      BY DEF IInv, Control
    <3>2. CASE v = w /\ i = at[w]
      BY <1>3, <1>4, <1>7, <1>8, <2>1, <2>2, <3>2 DEF Refers
    <3>3. CASE v = w /\ i # at[w]
      BY <1>4, <1>7, <1>8, <2>1, <2>2, <3>1, <3>3 DEF Refers
    <3>4. CASE v # w
      BY <1>4, <1>7, <1>8, <2>1, <3>1, <3>4 DEF Refers
    <3> QED
      BY <3>2, <3>3, <3>4
  <2>4. \A v \in Workers : pc'[v] = "idle" => at'[v] = 1
    BY <1>7, <1>8 DEF IInv, Control
  <2>5. \A v \in Workers, k \in Keys :
           ptr'[v][k] # Null => \E i \in 1..Len(plan'[v]) : plan'[v][i] = k
    <3> SUFFICES ASSUME NEW v \in Workers, NEW k \in Keys, ptr'[v][k] # Null
                 PROVE  \E i \in 1..Len(plan[v]) : plan[v][i] = k
      BY <1>7
    <3>1. CASE v = w /\ k = key
      <4>1. at[w] \in 1..Len(plan[w]) /\ plan[w][at[w]] = key
        BY <2>2, PlanFacts DEF IInv
      <4> QED
        BY <3>1, <4>1
    <3>2. CASE ~(v = w /\ k = key)
      BY <1>4, <3>2 DEF IInv, Control
    <3> QED
      BY <3>1, <3>2
  <2> QED
    BY <1>7, <2>3, <2>4, <2>5 DEF Control
<1>12. NoLeak'
  <2> SUFFICES ASSUME NEW k \in Keys
               PROVE  /\ creates'[k] = Null => Users(k)' = {}
                      /\ creates'[k] # Null =>
                           Users(k)' # {} /\ refs'[creates'[k]] = Cardinality(Users(k)')
    BY DEF NoLeak, Users
  <2>1. CASE k = key
    <3>1. Users(key)' = Users(key) \cup {w}
      BY <1>1, <1>3, <1>4 DEF Users
    <3>2. Cardinality(Users(key)') = Cardinality(Users(key)) + 1
      BY <1>1, <3>1, CountUsers, FS_AddElement
    <3>3. refs'[l] = Cardinality(Users(key)) + 1
      <4>1. refs \in [Locks -> Nat]
        BY DEF IInv, TypeOK
      <4>2. CASE creates[key] = l
        BY <1>2, <1>3, <4>1, <4>2, CountUsers
      <4>3. CASE creates[key] = Null
        BY <1>2, <1>3, <4>1, <4>3, CountUsers, FS_EmptySet
      <4> QED
        BY <1>2, <4>2, <4>3
    <3> QED
      BY <1>3, <1>5, <2>1, <3>1, <3>2, <3>3
  <2>2. CASE k # key
    <3>1. Users(k)' = Users(k)
      BY <1>4, <2>2 DEF Users
    <3>2. creates'[k] = creates[k] /\ creates[k] # l
      BY <1>5, <1>6, <2>2
    <3>3. creates[k] # Null => refs'[creates[k]] = refs[creates[k]]
      BY <1>2, <3>2 DEF IInv, TypeOK
    <3> QED
      BY <3>1, <3>2, <3>3, CountUsers
  <2> QED
    BY <2>1, <2>2
<1>13. Ownership'
  <2> SUFFICES ASSUME NEW v \in Workers, NEW i \in 1..Len(plan[v]),
                      i < at[v] \/ (i = at[v] /\ pc'[v] \in {"hold", "unlock"})
               PROVE  owner[ptr'[v][plan[v][i]]] = v
    BY <1>7 DEF Ownership
  <2>1. v = w => i < at[w]
    BY <1>8
  <2>2. i < at[v] \/ (i = at[v] /\ pc[v] \in {"hold", "unlock"})
    BY <1>8, <2>1
  <2>3. plan[v][i] \in Keys /\ ~(v = w /\ plan[v][i] = key)
    BY <1>0, <2>1, PlanFacts DEF IInv, Key
  <2> QED
    BY <1>4, <2>2, <2>3 DEF IInv, Ownership
<1> QED
  BY <1>9, <1>10, <1>11, <1>12, <1>13 DEF IInv

\* Release keeps the invariant: an entry is dropped with the last reference
\* only, because refs counts the references of this very key.
LEMMA ReleaseIInv ==
    ASSUME IInv, TypeOK', NEW w \in Workers, Release(w)
    PROVE  IInv'
<1>0. PICK key \in Keys : key = Key(w)
  BY PlanFacts DEF IInv
<1>1. PICK l \in Locks : l = Lock(w) /\ l = creates[key] /\ l = ptr[w][key]
  BY <1>0, OwnKey DEF Release, Lock
<1>2. w \in Users(key) /\ pc[w] = "release" /\ key = plan[w][at[w]]
  BY <1>0, OwnKey DEF Release, Key
<1>3. /\ refs' = [refs EXCEPT ![l] = refs[l] - 1]
      /\ creates' = IF refs[l] = 1 THEN [creates EXCEPT ![key] = Null] ELSE creates
      /\ ptr' = [ptr EXCEPT ![w][key] = Null]
      /\ UNCHANGED <<owner, plan>>
  BY <1>0, <1>1 DEF Release
<1>4. l # Null /\ refs \in [Locks -> Nat]
  BY NullAssumption DEF IInv, TypeOK
<1>5. \A v \in Workers, k \in Keys :
         ptr'[v][k] = IF v = w /\ k = key THEN Null ELSE ptr[v][k]
  BY <1>3 DEF IInv, TypeOK
<1>6. \A k \in Keys :
         creates'[k] = IF k = key /\ refs[l] = 1 THEN Null ELSE creates[k]
  BY <1>3 DEF IInv, TypeOK
<1>7. \A v \in Workers : v # w => at'[v] = at[v] /\ pc'[v] = pc[v]
  BY DEF Release, IInv, TypeOK
<1>8. \/ at[w] = 1 /\ at'[w] = 1 /\ pc'[w] = "idle"
      \/ at[w] # 1 /\ at'[w] = at[w] - 1 /\ pc'[w] = "unlock"
  BY DEF Release, IInv, TypeOK
<1>9. \A v \in Workers : /\ \A i \in 1..Len(plan[v]) : plan[v][i] \in Keys
                         /\ at[v] \in 1..Len(plan[v])
                         /\ Len(plan[v]) \in Nat
                         /\ \A i, j \in 1..Len(plan[v]) :
                              plan[v][i] = plan[v][j] => i = j
  BY PlanFacts DEF IInv
<1>10. Users(key)' = Users(key) \ {w}
  BY <1>5 DEF Users
<1>11. /\ Cardinality(Users(key)') = Cardinality(Users(key)) - 1
       /\ refs[l] = Cardinality(Users(key))
       /\ Cardinality(Users(key)) \in Nat
  <2>1. IsFiniteSet(Users(key)) /\ Cardinality(Users(key)) \in Nat
    BY CountUsers
  <2>2. refs[l] = Cardinality(Users(key))
    BY <1>1, <1>4, CountUsers
  <2>3. Cardinality(Users(key) \ {w}) = Cardinality(Users(key)) - 1
    BY <1>2, <2>1, FS_RemoveElement
  <2> QED
    BY <1>10, <2>1, <2>2, <2>3
<1>12. refs[l] = 1 <=> Users(key)' = {}
  <2>1. IsFiniteSet(Users(key)')
    BY <1>10, CountUsers, FS_RemoveElement
  <2> QED
    BY <2>1, <1>11, FS_EmptySet
<1>13. Current'
  <2> SUFFICES ASSUME NEW v \in Workers, NEW k \in Keys, ptr'[v][k] # Null
               PROVE  ptr'[v][k] = creates'[k]
    BY DEF Current
  <2>1. ptr[v][k] = creates[k] /\ ptr'[v][k] = ptr[v][k]
    BY <1>5 DEF IInv, Current
  <2>2. k = key => refs[l] # 1
    BY <1>12 DEF Users
  <2> QED
    BY <1>6, <2>1, <2>2
<1>14. Distinct'
  BY <1>6 DEF IInv, Distinct
<1>15. Control'
  <2>1. \A v \in Workers : \A i \in 1..Len(plan[v]) :
           (ptr'[v][plan[v][i]] # Null) <=> Refers(v, i)'
    <3> SUFFICES ASSUME NEW v \in Workers, NEW i \in 1..Len(plan[v])
                 PROVE  (ptr'[v][plan[v][i]] # Null) <=> Refers(v, i)'
      OBVIOUS
    <3>1. (ptr[v][plan[v][i]] # Null) <=> Refers(v, i)
      BY DEF IInv, Control
    <3>2. at[v] \in Nat /\ i \in Nat /\ plan[v][i] \in Keys /\ at[w] \in 1..Len(plan[w])
      BY PlanFacts DEF IInv, TypeOK
    <3>3. CASE v = w /\ i = at[w]
      BY <1>2, <1>5, <1>8, <3>2, <3>3 DEF Refers
    <3>4. CASE v = w /\ i # at[w]
      <4>1. plan[w][i] # key
        BY <1>2, <1>9, <3>4
      <4>2. ptr'[v][plan[v][i]] = ptr[v][plan[v][i]]
        BY <1>5, <3>2, <3>4, <4>1
      <4> QED
        BY <1>8, <3>1, <3>2, <3>4, <4>2 DEF Refers
    <3>5. CASE v # w
      BY <1>5, <1>7, <3>1, <3>2, <3>5 DEF Refers
    <3> QED
      BY <3>3, <3>4, <3>5
  <2>2. \A v \in Workers : pc'[v] = "idle" => at'[v] = 1
    BY <1>7, <1>8 DEF IInv, Control
  <2>3. \A v \in Workers, k \in Keys :
           ptr'[v][k] # Null => \E i \in 1..Len(plan'[v]) : plan'[v][i] = k
    BY <1>3, <1>5 DEF IInv, Control
  <2> QED
    BY <1>3, <2>1, <2>2, <2>3 DEF Control
<1>16. NoLeak'
  <2> SUFFICES ASSUME NEW k \in Keys
               PROVE  /\ creates'[k] = Null => Users(k)' = {}
                      /\ creates'[k] # Null =>
                           Users(k)' # {} /\ refs'[creates'[k]] = Cardinality(Users(k)')
    BY DEF NoLeak, Users
  <2>1. CASE k = key
    <3>1. refs'[l] = refs[l] - 1
      BY <1>3, <1>4
    <3> QED
      BY <1>1, <1>4, <1>6, <1>11, <1>12, <2>1, <3>1
  <2>2. CASE k # key
    <3>1. Users(k)' = Users(k)
      BY <1>5, <2>2 DEF Users
    <3>2. creates'[k] = creates[k] /\ creates[k] # l
      BY <1>1, <1>4, <1>6, <2>2 DEF IInv, Distinct
    <3>3. creates[k] # Null => refs'[creates[k]] = refs[creates[k]]
      BY <1>3, <3>2 DEF IInv, TypeOK
    <3> QED
      BY <3>1, <3>2, <3>3, CountUsers
  <2> QED
    BY <2>1, <2>2
<1>17. Ownership'
  <2> SUFFICES ASSUME NEW v \in Workers, NEW i \in 1..Len(plan[v]),
                      i < at'[v] \/ (i = at'[v] /\ pc'[v] \in {"hold", "unlock"})
               PROVE  owner[ptr'[v][plan[v][i]]] = v
    BY <1>3 DEF Ownership
  <2>1. at[v] \in Nat /\ i \in Nat /\ plan[v][i] \in Keys /\ at[w] \in 1..Len(plan[w])
    BY PlanFacts DEF IInv, TypeOK
  <2>2. /\ i < at[v] \/ (i = at[v] /\ pc[v] \in {"hold", "unlock"})
        /\ v = w => i < at[w]
    BY <1>7, <1>8, <1>9, <2>1
  <2>3. ~(v = w /\ plan[v][i] = key)
    BY <1>2, <1>9, <2>2
  <2> QED
    BY <1>5, <2>1, <2>2, <2>3 DEF IInv, Ownership
<1> QED
  BY <1>13, <1>14, <1>15, <1>16, <1>17 DEF IInv

\* Steps that leave the map, the counters and the references alone have only
\* Control and Ownership to preserve.
LEMMA FrameIInv ==
    ASSUME IInv, TypeOK', UNCHANGED <<creates, refs, ptr>>, Control', Ownership'
    PROVE  IInv'
BY DEF IInv, Current, Distinct, NoLeak

\* Every step preserves the invariant.
LEMMA NextIInv == IInv /\ [Next]_vars => IInv'
<1> SUFFICES ASSUME IInv, [Next]_vars PROVE IInv'
  OBVIOUS
<1>0. TypeOK' /\ TypeOK
  BY NextTypeOK DEF IInv
<1>1. \A v \in Workers : at[v] \in Nat /\ at[v] >= 1
  BY <1>0, PlanFacts DEF TypeOK
<1>2. CASE UNCHANGED vars
  <2>1. UNCHANGED <<creates, refs, owner, plan, at, ptr, pc>>
    BY <1>2 DEF vars
  <2>2. Control'
    BY <2>1 DEF IInv, Control, Refers
  <2>3. Ownership'
    BY <2>1 DEF IInv, Ownership
  <2> QED
    BY <1>0, <2>1, <2>2, <2>3, FrameIInv
<1>3. ASSUME NEW w \in Workers, Start(w) PROVE IInv'
  <2>1. PICK p \in Plans : plan' = [plan EXCEPT ![w] = p]
    BY <1>3 DEF Start
  <2>2. \A v \in Workers : v # w => plan'[v] = plan[v] /\ at'[v] = at[v] /\ pc'[v] = pc[v]
    BY <1>0, <1>3, <2>1 DEF Start, TypeOK
  <2>3. pc'[w] = "lookup" /\ at'[w] = 1 /\ pc[w] = "idle" /\ at[w] = 1
    BY <1>0, <1>3 DEF Start, TypeOK, IInv, Control
  <2>4. \A k \in Keys : ptr[w][k] = Null
    BY <1>0, <2>3, PlanFacts DEF IInv, Control, Refers
  <2>5. UNCHANGED <<creates, refs, owner, ptr>>
    BY <1>3 DEF Start
  <2>6. \A i \in 1..Len(plan'[w]) : plan'[w][i] \in Keys
    BY <1>0, <2>1, PlansAssumption DEF TypeOK
  <2>7. Control'
    <3>1. ASSUME NEW v \in Workers, v # w
          PROVE  /\ pc'[v] = "idle" => at'[v] = 1
                 /\ \A i \in 1..Len(plan'[v]) :
                      (ptr'[v][plan'[v][i]] # Null) <=> Refers(v, i)'
                 /\ \A k \in Keys :
                      ptr'[v][k] # Null => \E i \in 1..Len(plan'[v]) : plan'[v][i] = k
      BY <2>2, <2>5, <3>1 DEF IInv, Control, Refers
    <3>2. /\ pc'[w] = "idle" => at'[w] = 1
          /\ \A i \in 1..Len(plan'[w]) :
               (ptr'[w][plan'[w][i]] # Null) <=> Refers(w, i)'
          /\ \A k \in Keys : ptr'[w][k] = Null
      BY <2>3, <2>4, <2>5, <2>6 DEF Refers
    <3> QED
      BY <3>1, <3>2 DEF Control
  <2>8. Ownership'
    BY <2>2, <2>3, <2>5 DEF IInv, Ownership
  <2> QED
    BY <1>0, <2>5, <2>7, <2>8, FrameIInv
<1>4. ASSUME NEW w \in Workers, Lookup(w) PROVE IInv'
  BY <1>0, <1>4, LookupIInv
<1>5. ASSUME NEW w \in Workers, Acquire(w) PROVE IInv'
  <2>1. \A v \in Workers : pc'[v] = IF v = w THEN "hold" ELSE pc[v]
    BY <1>0, <1>5 DEF Acquire, TypeOK
  <2>2. UNCHANGED <<creates, refs, plan, at, ptr>> /\ pc[w] = "wait"
    BY <1>5 DEF Acquire
  <2>3. Control'
    BY <2>1, <2>2 DEF IInv, Control, Refers
  <2>4. Lock(w) \in Locks /\ owner[Lock(w)] = Null /\ owner' = [owner EXCEPT ![Lock(w)] = w]
    BY <1>5, <2>2, OwnKey DEF Acquire
  <2>5. owner'[Lock(w)] = w /\ \A l \in Locks : l # Lock(w) => owner'[l] = owner[l]
    BY <1>0, <2>4 DEF TypeOK
  <2>6. Ownership'
    <3> SUFFICES ASSUME NEW v \in Workers, NEW i \in 1..Len(plan[v]),
                        i < at[v] \/ (i = at[v] /\ pc'[v] \in {"hold", "unlock"})
                 PROVE  owner'[ptr[v][plan[v][i]]] = v
      BY <2>2 DEF Ownership
    <3>1. CASE v = w /\ i = at[w]
      BY <2>5, <3>1 DEF Lock, Key
    <3>2. CASE ~(v = w /\ i = at[w])
      <4>1. i < at[v] \/ (i = at[v] /\ pc[v] \in {"hold", "unlock"})
        BY <2>1, <3>2
      <4>2. owner[ptr[v][plan[v][i]]] = v
        BY <4>1 DEF IInv, Ownership
      <4>3. ptr[v][plan[v][i]] \in Locks
        <5>1. plan[v][i] \in Keys
          BY <1>0, PlanFacts
        <5>2. ptr[v][plan[v][i]] # Null
          BY <4>1 DEF IInv, Control, Refers
        <5> QED
          BY <1>0, <5>1, <5>2 DEF TypeOK
      <4>4. ptr[v][plan[v][i]] # Lock(w)
        BY <2>4, <4>2, NullAssumption
      <4> QED
        BY <2>5, <4>2, <4>3, <4>4
    <3> QED
      BY <3>1, <3>2
  <2> QED
    BY <1>0, <2>2, <2>3, <2>6, FrameIInv
<1>6. ASSUME NEW w \in Workers, NextKey(w) PROVE IInv'
  <2>1. /\ \A v \in Workers : pc'[v] = IF v = w THEN "lookup" ELSE pc[v]
        /\ \A v \in Workers : at'[v] = IF v = w THEN at[w] + 1 ELSE at[v]
    BY <1>0, <1>6 DEF NextKey, TypeOK
  <2>2. UNCHANGED <<creates, refs, owner, plan, ptr>> /\ pc[w] = "hold"
    BY <1>6 DEF NextKey
  <2>3. Control'
    BY <1>1, <2>1, <2>2 DEF IInv, Control, Refers
  <2>4. Ownership'
    BY <1>1, <2>1, <2>2 DEF IInv, Ownership
  <2> QED
    BY <1>0, <2>2, <2>3, <2>4, FrameIInv
<1>7. ASSUME NEW w \in Workers, Return(w) PROVE IInv'
  <2>1. \A v \in Workers : pc'[v] = IF v = w THEN "unlock" ELSE pc[v]
    BY <1>0, <1>7 DEF Return, TypeOK
  <2>2. UNCHANGED <<creates, refs, owner, plan, at, ptr>> /\ pc[w] = "hold"
    BY <1>7 DEF Return
  <2>3. Control'
    BY <2>1, <2>2 DEF IInv, Control, Refers
  <2>4. Ownership'
    BY <2>1, <2>2 DEF IInv, Ownership
  <2> QED
    BY <1>0, <2>2, <2>3, <2>4, FrameIInv
<1>8. ASSUME NEW w \in Workers, Unlock(w) PROVE IInv'
  <2>1. \A v \in Workers : pc'[v] = IF v = w THEN "release" ELSE pc[v]
    BY <1>0, <1>8 DEF Unlock, TypeOK
  <2>2. UNCHANGED <<creates, refs, plan, at, ptr>> /\ pc[w] = "unlock"
    BY <1>8 DEF Unlock
  <2>3. Control'
    BY <2>1, <2>2 DEF IInv, Control, Refers
  <2>4. owner' = [owner EXCEPT ![Lock(w)] = Null] /\ Lock(w) \in Locks
    BY <1>8, <2>2, OwnKey DEF Unlock
  <2>5. Ownership'
    <3> SUFFICES ASSUME NEW v \in Workers, NEW i \in 1..Len(plan[v]),
                        i < at[v] \/ (i = at[v] /\ pc'[v] \in {"hold", "unlock"})
                 PROVE  owner'[ptr[v][plan[v][i]]] = v
      BY <2>2 DEF Ownership
    <3>1. i < at[v] \/ (i = at[v] /\ pc[v] \in {"hold", "unlock"})
      BY <2>1
    <3>2. owner[ptr[v][plan[v][i]]] = v
      BY <3>1 DEF IInv, Ownership
    <3>3. plan[v][i] \in Keys /\ plan[w][at[w]] \in Keys /\ at[w] \in 1..Len(plan[w])
      BY <1>0, PlanFacts
    <3>4. ptr[v][plan[v][i]] # Null /\ ptr[w][plan[w][at[w]]] # Null
      BY <2>2, <3>1, <3>3 DEF IInv, Control, Refers
    <3>5. ptr[v][plan[v][i]] \in Locks
      BY <1>0, <3>3, <3>4 DEF TypeOK
    <3>6. owner[Lock(w)] = w
      BY <2>2, <3>3 DEF IInv, Ownership, Lock, Key
    <3>7. ptr[v][plan[v][i]] # Lock(w)
      <4> SUFFICES ASSUME ptr[v][plan[v][i]] = Lock(w) PROVE FALSE
        OBVIOUS
      <4>1. v = w
        BY <3>2, <3>6
      <4>2. plan[v][i] = plan[w][at[w]]
        BY <3>3, <3>4 DEF IInv, Current, Distinct, Lock, Key
      <4>3. i = at[w]
        BY <1>0, <3>3, <4>1, <4>2, PlanFacts
      <4> QED
        BY <1>1, <2>1, <4>1, <4>3
    <3> QED
      BY <1>0, <2>4, <3>2, <3>5, <3>7 DEF TypeOK
  <2> QED
    BY <1>0, <2>2, <2>3, <2>5, FrameIInv
<1>9. ASSUME NEW w \in Workers, Release(w) PROVE IInv'
  BY <1>0, <1>9, ReleaseIInv
<1> QED
  BY <1>2, <1>3, <1>4, <1>5, <1>6, <1>7, <1>8, <1>9 DEF Next, Step

\* The invariant holds throughout every execution of lockCreateName.
THEOREM Invariance == Spec => []IInv
<1>1. Init => IInv
  BY InitIInv
<1>2. IInv /\ [Next]_vars => IInv'
  BY NextIInv
<1> QED
  BY <1>1, <1>2, PTL DEF Spec

\* The variables keep their types; in particular refs never goes negative.
THEOREM TypeCorrect == Spec => []TypeOK
<1>1. IInv => TypeOK
  BY DEF IInv
<1> QED
  BY <1>1, Invariance, PTL

\* In one controller process two handlers never work on one volume name or on
\* one backing path at a time (driver.go:101, 110 and 229).
THEOREM NamesAndPathsAreExclusive == Spec => []MutualExclusion
<1>1. IInv => MutualExclusion
  <2> SUFFICES ASSUME IInv, NEW v \in Workers, NEW w \in Workers, NEW k \in Keys,
                      Inside(v, k), Inside(w, k)
               PROVE  v = w
    BY DEF MutualExclusion
  <2>1. ASSUME NEW u \in Workers, Inside(u, k)
        PROVE  owner[creates[k]] = u
    <3>1. PICK i \in 1..at[u] : plan[u][i] = k /\ (i < at[u] \/ pc[u] \in {"hold", "unlock"})
      BY <2>1 DEF Inside
    <3>2. /\ i \in 1..Len(plan[u])
          /\ i < at[u] \/ (i = at[u] /\ pc[u] \in {"hold", "unlock"})
      <4>1. at[u] \in 1..Len(plan[u]) /\ Len(plan[u]) \in Nat
        BY PlanFacts DEF IInv
      <4> QED
        BY <3>1, <4>1
    <3>3. owner[ptr[u][k]] = u /\ ptr[u][k] # Null
      BY <3>1, <3>2 DEF IInv, Ownership, Control, Refers
    <3> QED
      BY <3>3 DEF IInv, Current
  <2> QED
    BY <2>1
<1> QED
  BY <1>1, Invariance, PTL

\* The map of locks never leaks an entry and never loses one in use.
THEOREM MapHoldsLocksInUse == Spec => []NoLeak
<1>1. IInv => NoLeak
  BY DEF IInv
<1> QED
  BY <1>1, Invariance, PTL

=============================================================================
