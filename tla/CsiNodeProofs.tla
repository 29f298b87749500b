--------------------------- MODULE CsiNodeProofs ---------------------------
(***************************************************************************)
(* Proofs about CsiNode, for any number of calls, targets, requests,       *)
(* foreign mounts and lock objects.                                        *)
(*                                                                         *)
(* The invariant has a part about the lock map, as in KeyedLockProofs: a   *)
(* call that uses a target refers to the object in the map (WorkerOK), an  *)
(* object serves one target (Distinct), refs counts the users (Counted),   *)
(* the entry stays while it remembers something (Kept, Remembered).  So    *)
(* one call works on a target, and what it has read stays true until it    *)
(* acts on it: the rest of WorkerOK says what holds at each of its control *)
(* points, and TargetOK what always holds of a target: a mount of this     *)
(* driver is the topmost and is covered by the record.                     *)
(***************************************************************************)
EXTENDS CsiNode, FiniteSetTheorems, SequenceTheorems, TLAPS

Uses(w) == pc[w] \in {"wait"} \cup (Inside \ {"unlock"})

\* No mount of this driver is in the stack.
Bare(t) == \A i \in 1..Len(mounts[t]) : mounts[t][i] \notin Requests

WorkerOK(w) ==
    /\ Uses(w) => ptr[w] \in Locks /\ ptr[w] = targets[Target(w)]
    /\ pc[w] \in Inside => ptr[w] \in Locks /\ owner[ptr[w]] = w
    /\ pc[w] = "idle" => ptr[w] = Null
    /\ pc[w] \in {"persist", "mount"} => call[w].kind = "publish"
    /\ pc[w] \in {"unmount", "forget", "rmdir"} => call[w].kind = "unpublish"
    /\ pc[w] \in {"persist", "mount", "forget", "rmdir"} => Bare(Target(w))
    /\ pc[w] = "persist" => Memory(w) = Null
    /\ pc[w] = "mount" => record[Target(w)] = Req(w)
    /\ pc[w] = "rmdir" => record[Target(w)] = Null
    /\ AnswerHolds(w)

TargetOK(t) ==
    /\ targets[t] # Null /\ record[t] # Null => memory[targets[t]] \in {Null, record[t]}
    /\ \A i \in 1..Len(mounts[t]) :
         mounts[t][i] \in Requests => i = 1 /\ record[t] = mounts[t][i]

Distinct == \A s, t \in Targets : targets[s] # Null /\ targets[s] = targets[t] => s = t

Counted ==
    \A t \in Targets : targets[t] # Null => refs[targets[t]] = Cardinality(Users(t))

Kept ==
    \A t \in Targets : targets[t] # Null => Users(t) # {} \/ memory[targets[t]] # Null

Remembered == \A l \in Locks : memory[l] # Null => \E t \in Targets : targets[t] = l

IInv ==
    /\ TypeOK
    /\ Distinct
    /\ Counted
    /\ Kept
    /\ Remembered
    /\ \A w \in Workers : WorkerOK(w)
    /\ \A t \in Targets : TargetOK(t)

\* The parts of a call that is under way.
LEMMA CallTypes ==
    ASSUME TypeOK, NEW w \in Workers, pc[w] \notin {"idle", "unlock"}
    PROVE  /\ call[w] \in Calls
           /\ Target(w) \in Targets
           /\ Req(w) \in Requests
           /\ call[w].kind \in Kinds
<1>1. call[w] \in Calls
  BY DEF TypeOK
<1> QED
  BY <1>1 DEF Calls, Target, Req

\* A call inside holds the mutex of its target, so there is one of them.
LEMMA Exclusive == IInv => TargetsExclusive
<1> SUFFICES ASSUME IInv, NEW v \in Workers, NEW w \in Workers, v # w,
                    {pc[v], pc[w]} \subseteq Inside \ {"unlock"}, Target(v) = Target(w)
             PROVE  FALSE
  BY DEF TargetsExclusive
<1>1. pc[v] \in Inside /\ Uses(v) /\ pc[w] \in Inside /\ Uses(w)
  BY DEF Uses
<1>2. WorkerOK(v) /\ WorkerOK(w)
  BY DEF IInv
<1>3. ptr[v] = ptr[w] /\ owner[ptr[v]] = v /\ owner[ptr[w]] = w
  BY <1>1, <1>2 DEF WorkerOK
<1> QED
  BY <1>3

\* What the driver lists of a stack of mounts.
LEMMA MountsAtBare ==
    ASSUME TypeOK, NEW t \in Targets
    PROVE  /\ Bare(t) <=> MountsAt(t) \cap Requests = {}
           /\ DOMAIN mounts[t] = 1..Len(mounts[t])
           /\ Len(mounts[t]) \in Nat
           /\ mounts[t] # <<>> => 1 \in 1..Len(mounts[t]) /\ Head(mounts[t]) = mounts[t][1]
<1>1. mounts[t] \in Seq(Requests \cup Foreign)
  BY DEF TypeOK
<1>2. DOMAIN mounts[t] = 1..Len(mounts[t]) /\ Len(mounts[t]) \in Nat
  BY <1>1
<1>3. Bare(t) <=> MountsAt(t) \cap Requests = {}
  BY <1>2 DEF Bare, MountsAt
<1>4. mounts[t] # <<>> => Len(mounts[t]) # 0
  BY <1>1, EmptySeq
<1> QED
  BY <1>2, <1>3, <1>4

LEMMA InitIInv == Init => IInv
<1> SUFFICES ASSUME Init PROVE IInv
  OBVIOUS
<1>1. TypeOK
  <2>1. <<>> \in Seq(Requests \cup Foreign)
    BY EmptySeq
  <2> QED
    BY <2>1 DEF Init, TypeOK
<1>2. \A w \in Workers : pc[w] = "idle" /\ ptr[w] = Null
  BY DEF Init
<1>3. \A w \in Workers : WorkerOK(w)
  BY <1>2 DEF WorkerOK, Uses, Inside, AnswerHolds
<1>4. \A t \in Targets : TargetOK(t)
  <2>1. \A t \in Targets : targets[t] = Null /\ mounts[t] = <<>>
    BY DEF Init
  <2> QED
    BY <2>1 DEF TargetOK
<1>5. Distinct /\ Counted /\ Kept /\ Remembered
  BY DEF Init, Distinct, Counted, Kept, Remembered
<1> QED
  BY <1>1, <1>3, <1>4, <1>5 DEF IInv

\* What returning an answer does.
LEMMA AnswerEffect ==
    ASSUME TypeOK, NEW w \in Workers, pc[w] \notin {"idle", "unlock"},
           NEW a \in Answers, Answer(w, a)
    PROVE  /\ call' \in [Workers -> Calls \cup {Null}]
           /\ pc' \in [Workers -> Inside \cup {"idle", "wait"}]
           /\ \A v \in Workers : v # w => call'[v] = call[v] /\ pc'[v] = pc[v]
           /\ pc'[w] = "release"
           /\ call'[w] \in Calls
           /\ call'[w].target = call[w].target
           /\ call'[w].req = call[w].req
           /\ call'[w].kind = call[w].kind
           /\ call'[w].disturbed = call[w].disturbed
           /\ call'[w].answer = a
<1>1. call[w] \in Calls
  BY CallTypes
<1>2. /\ call \in [Workers -> Calls \cup {Null}]
      /\ pc \in [Workers -> Inside \cup {"idle", "wait"}]
  BY DEF TypeOK
<1>3. call' = [call EXCEPT ![w] = [call[w] EXCEPT !.answer = a]]
  BY DEF Answer
<1>4. [call[w] EXCEPT !.answer = a] \in Calls
  BY <1>1 DEF Calls
<1>5. call'[w] = [call[w] EXCEPT !.answer = a]
  BY <1>2, <1>3
<1>6. pc' = [pc EXCEPT ![w] = "release"]
  BY DEF Answer, Goto
<1>7. /\ pc' \in [Workers -> Inside \cup {"idle", "wait"}]
      /\ pc'[w] = "release"
  BY <1>2, <1>6 DEF Inside
<1> QED
  BY <1>1, <1>2, <1>3, <1>4, <1>5, <1>6, <1>7 DEF Calls

\* What going on to another control point inside does.
LEMMA GotoEffect ==
    ASSUME TypeOK, NEW w \in Workers, NEW p \in Inside, Goto(w, p)
    PROVE  /\ pc' \in [Workers -> Inside \cup {"idle", "wait"}]
           /\ \A v \in Workers : v # w => pc'[v] = pc[v]
           /\ pc'[w] = p
  BY DEF Goto, TypeOK

\* A step of a handler that keeps to its own target keeps the invariant, if it
\* leaves its target and itself in order: no other call is inside there.
LEMMA HandlerFrame ==
    ASSUME IInv, TypeOK', NEW w \in Workers, NEW t \in Targets, Target(w) = t,
           pc[w] \in Inside \ {"unlock"}, pc'[w] \in Inside \ {"unlock"},
           UNCHANGED <<targets, refs, owner, ptr>>,
           \A v \in Workers : v # w => call'[v] = call[v] /\ pc'[v] = pc[v],
           call'[w].target = call[w].target,
           \A l \in Locks : l # ptr[w] => memory'[l] = memory[l],
           \A s \in Targets : s # t => mounts'[s] = mounts[s] /\ record'[s] = record[s],
           WorkerOK(w)', TargetOK(t)'
    PROVE  IInv'
<1>1. Uses(w) /\ Uses(w)' /\ Target(w)' = t
  BY DEF Uses, Target
<1>2. ptr[w] \in Locks /\ ptr[w] = targets[t]
  BY <1>1 DEF IInv, WorkerOK
<1>3. \A s \in Targets : Users(s)' = Users(s)
  <2>1. \A s \in Targets, v \in Workers : v \in Users(s)' <=> v \in Users(s)
    BY <1>1 DEF Users, Uses, Target
  <2> QED
    BY <2>1 DEF Users
<1>4. w \in Users(t)
  BY <1>1 DEF Users, Uses
<1>5. Distinct' /\ Counted'
  <2>1. Counted'
    BY <1>3 DEF IInv, Counted
  <2> QED
    BY <2>1 DEF IInv, Distinct
<1>6. \A s \in Targets : s # t /\ targets[s] # Null => memory'[targets[s]] = memory[targets[s]]
  <2>1. \A s \in Targets : s # t /\ targets[s] # Null => targets[s] # ptr[w]
    BY <1>2, NodeAssumption DEF IInv, Distinct
  <2> QED
    BY <2>1 DEF IInv, TypeOK
<1>7. Kept'
  BY <1>3, <1>4, <1>6 DEF IInv, Kept
<1>8. Remembered'
  BY <1>2 DEF IInv, Remembered
<1>9. \A s \in Targets : TargetOK(s)'
  BY <1>6 DEF IInv, TargetOK
<1>10. \A v \in Workers : WorkerOK(v)'
  <2> SUFFICES ASSUME NEW v \in Workers, v # w PROVE WorkerOK(v)'
    OBVIOUS
  <2>1. WorkerOK(v)
    BY DEF IInv
  <2>2. /\ call'[v] = call[v] /\ pc'[v] = pc[v] /\ ptr'[v] = ptr[v]
        /\ Target(v)' = Target(v) /\ Req(v)' = Req(v) /\ Uses(v)' = Uses(v)
    BY DEF Target, Req, Uses
  <2>3. CASE pc[v] \in Inside \ {"unlock"}
    <3>1. Target(v) # t
      BY <2>3, Exclusive DEF TargetsExclusive
    <3>2. Target(v) \in Targets
      BY <2>3, CallTypes DEF IInv, Inside
    <3>3. mounts'[Target(v)] = mounts[Target(v)] /\ record'[Target(v)] = record[Target(v)]
      BY <3>1, <3>2
    <3>4. Uses(v) /\ ptr[v] = targets[Target(v)] /\ ptr[v] \in Locks
      BY <2>1, <2>3 DEF WorkerOK, Uses
    <3>5. Memory(v)' = Memory(v)
      BY <1>2, <2>2, <3>1, <3>2, <3>4, <1>6, NodeAssumption DEF Memory
    <3>6. AnswerHolds(v)'
      <4>1. AnswerHolds(v)
        BY <2>1 DEF WorkerOK
      <4>2. MountsAt(Target(v))' = MountsAt(Target(v))
        BY <2>2, <3>3 DEF MountsAt
      <4> QED
        BY <2>2, <3>3, <4>1, <4>2 DEF AnswerHolds
    <3>7. Bare(Target(v))' <=> Bare(Target(v))
      BY <2>2, <3>3 DEF Bare
    <3> QED
      BY <2>1, <2>2, <3>3, <3>5, <3>6, <3>7 DEF WorkerOK
  <2>4. CASE pc[v] \notin Inside \ {"unlock"}
    BY <2>1, <2>2, <2>4 DEF WorkerOK, AnswerHolds, Inside
  <2> QED
    BY <2>3, <2>4
<1> QED
  BY <1>5, <1>7, <1>8, <1>9, <1>10 DEF IInv

\* What a handler can rely on inside.
LEMMA InsideFacts ==
    ASSUME IInv, NEW w \in Workers, pc[w] \in Inside \ {"unlock"}
    PROVE  /\ call[w] \in Calls
           /\ Target(w) \in Targets
           /\ Req(w) \in Requests
           /\ ptr[w] \in Locks /\ ptr[w] = targets[Target(w)] /\ ptr[w] # Null
           /\ Memory(w) = memory[ptr[w]]
           /\ mounts[Target(w)] \in Seq(Requests \cup Foreign)
           /\ record[Target(w)] \in Requests \cup {Null}
           /\ owner[ptr[w]] = w
           /\ WorkerOK(w)
           /\ TargetOK(Target(w))
<1>1. call[w] \in Calls /\ Target(w) \in Targets /\ Req(w) \in Requests
  BY CallTypes DEF IInv, Inside
<1>2. WorkerOK(w) /\ Uses(w)
  BY DEF IInv, Uses
<1> QED
  BY <1>1, <1>2, NodeAssumption DEF IInv, WorkerOK, TypeOK, Memory

\* A handler that answers anything but success promises nothing of itself.
LEMMA FailedStep ==
    ASSUME IInv, NEW w \in Workers, NEW t \in Targets, Target(w) = t,
           pc[w] \in Inside \ {"unlock"},
           NEW a \in Answers \ {"ok"}, Answer(w, a),
           UNCHANGED <<targets, refs, owner, ptr>>,
           memory' \in [Locks -> Requests \cup {Null}],
           mounts' \in [Targets -> Seq(Requests \cup Foreign)],
           record' \in [Targets -> Requests \cup {Null}],
           dirs' \subseteq Targets,
           \A l \in Locks : l # ptr[w] => memory'[l] = memory[l],
           \A s \in Targets : s # t => mounts'[s] = mounts[s] /\ record'[s] = record[s],
           TargetOK(t)'
    PROVE  IInv'
<1>1. TypeOK /\ pc[w] \notin {"idle", "unlock"}
  BY DEF IInv, Inside
<1>2. /\ call' \in [Workers -> Calls \cup {Null}]
      /\ pc' \in [Workers -> Inside \cup {"idle", "wait"}]
      /\ \A v \in Workers : v # w => call'[v] = call[v] /\ pc'[v] = pc[v]
      /\ pc'[w] = "release"
      /\ call'[w] \in Calls
      /\ call'[w].target = call[w].target
      /\ call'[w].answer = a
  BY <1>1, AnswerEffect
<1>3. TypeOK'
  BY <1>1, <1>2 DEF TypeOK
<1>4. WorkerOK(w)'
  BY <1>2, InsideFacts DEF WorkerOK, Uses, AnswerHolds, Inside, Target
<1>5. pc'[w] \in Inside \ {"unlock"}
  BY <1>2 DEF Inside
<1> QED
  BY <1>2, <1>3, <1>4, <1>5, HandlerFrame

\* A handler that goes on, with its arguments as they were.
LEMMA NextStep ==
    ASSUME IInv, NEW w \in Workers, NEW t \in Targets, Target(w) = t,
           pc[w] \in Inside \ {"unlock"},
           NEW p \in {"persist", "mount", "unmount", "forget", "rmdir"}, Goto(w, p),
           UNCHANGED <<targets, refs, owner, ptr, call>>,
           memory' \in [Locks -> Requests \cup {Null}],
           mounts' \in [Targets -> Seq(Requests \cup Foreign)],
           record' \in [Targets -> Requests \cup {Null}],
           dirs' \subseteq Targets,
           \A l \in Locks : l # ptr[w] => memory'[l] = memory[l],
           \A s \in Targets : s # t => mounts'[s] = mounts[s] /\ record'[s] = record[s],
           p \in {"persist", "mount"} => call[w].kind = "publish",
           p \in {"unmount", "forget", "rmdir"} => call[w].kind = "unpublish",
           p \in {"persist", "mount", "forget", "rmdir"} => Bare(t)',
           p = "persist" => memory'[ptr[w]] = Null,
           p = "mount" => record'[t] = Req(w),
           p = "rmdir" => record'[t] = Null,
           TargetOK(t)'
    PROVE  IInv'
<1>1. p \in Inside \ {"unlock", "release"}
  BY DEF Inside
<1>2. TypeOK
  BY DEF IInv
<1>3. /\ pc' \in [Workers -> Inside \cup {"idle", "wait"}]
      /\ \A v \in Workers : v # w => pc'[v] = pc[v]
      /\ pc'[w] = p
  BY <1>1, <1>2, GotoEffect
<1>4. call[w] \in Calls
  BY InsideFacts
<1>5. TypeOK'
  BY <1>2, <1>3, <1>4 DEF TypeOK
<1>6. WorkerOK(w)'
  <2>1. Target(w)' = t /\ Req(w)' = Req(w) /\ Memory(w)' = memory'[ptr[w]]
    BY DEF Target, Req, Memory
  <2>2. pc'[w] # "idle" /\ pc'[w] # "release"
    BY <1>1, <1>3 DEF Inside
  <2>3. AnswerHolds(w)'
    BY <2>2 DEF AnswerHolds
  <2> QED
    BY <1>3, <2>1, <2>2, <2>3, InsideFacts DEF WorkerOK, Uses
<1>7. pc'[w] \in Inside \ {"unlock"}
  BY <1>1, <1>3
<1>8. \A v \in Workers : v # w => call'[v] = call[v] /\ pc'[v] = pc[v]
  BY <1>3
<1> QED
  BY <1>5, <1>6, <1>7, <1>8, HandlerFrame

\* A handler that answers ok has to show that the answer holds.
LEMMA OkStep ==
    ASSUME IInv, NEW w \in Workers, NEW t \in Targets, Target(w) = t,
           pc[w] \in Inside \ {"unlock"}, Answer(w, "ok"),
           UNCHANGED <<targets, refs, owner, ptr>>,
           memory' \in [Locks -> Requests \cup {Null}],
           mounts' \in [Targets -> Seq(Requests \cup Foreign)],
           record' \in [Targets -> Requests \cup {Null}],
           dirs' \subseteq Targets,
           \A l \in Locks : l # ptr[w] => memory'[l] = memory[l],
           \A s \in Targets : s # t => mounts'[s] = mounts[s] /\ record'[s] = record[s],
           AnswerHolds(w)', TargetOK(t)'
    PROVE  IInv'
<1>1. TypeOK /\ pc[w] \notin {"idle", "unlock"} /\ "ok" \in Answers
  BY DEF IInv, Inside, Answers
<1>2. /\ call' \in [Workers -> Calls \cup {Null}]
      /\ pc' \in [Workers -> Inside \cup {"idle", "wait"}]
      /\ \A v \in Workers : v # w => call'[v] = call[v] /\ pc'[v] = pc[v]
      /\ pc'[w] = "release"
      /\ call'[w] \in Calls
      /\ call'[w].target = call[w].target
  BY <1>1, AnswerEffect
<1>3. TypeOK'
  BY <1>1, <1>2 DEF TypeOK
<1>4. WorkerOK(w)'
  BY <1>2, InsideFacts DEF WorkerOK, Uses, Inside, Target
<1>5. pc'[w] \in Inside \ {"unlock"}
  BY <1>2 DEF Inside
<1> QED
  BY <1>2, <1>3, <1>4, <1>5, HandlerFrame

LEMMA RefusedOrFailedIInv ==
    ASSUME IInv, NEW w \in Workers, PublishRefused(w) \/ LookFails(w)
    PROVE  IInv'
<1>1. pc[w] \in Inside \ {"unlock"} /\ UNCHANGED <<locks, disk>>
  BY DEF PublishRefused, LookFails, Publishing, Inside
<1>2. PICK a \in Answers \ {"ok"} : Answer(w, a)
  BY DEF PublishRefused, LookFails, Answers
<1>3. PICK t \in Targets : t = Target(w) /\ TargetOK(t)
  BY <1>1, InsideFacts
<1>4. TargetOK(t)'
  BY <1>1, <1>3 DEF TargetOK, locks, disk
<1> QED
  BY <1>1, <1>2, <1>3, <1>4, FailedStep DEF IInv, TypeOK, locks, disk

LEMMA UnpublishLookIInv ==
    ASSUME IInv, NEW w \in Workers, UnpublishMounted(w) \/ UnpublishAbsent(w)
    PROVE  IInv'
<1>1. /\ pc[w] \in Inside \ {"unlock"}
      /\ call[w].kind = "unpublish"
      /\ UNCHANGED <<locks, disk>>
  BY DEF UnpublishMounted, UnpublishAbsent, Unpublishing, Inside
<1>2. PICK t \in Targets : t = Target(w) /\ TargetOK(t)
  BY <1>1, InsideFacts
<1>3. TargetOK(t)'
  BY <1>1, <1>2 DEF TargetOK, locks, disk
<1>4. CASE UnpublishMounted(w) /\ Goto(w, "unmount") /\ UNCHANGED call
  BY <1>1, <1>2, <1>3, <1>4, NextStep DEF IInv, TypeOK, locks, disk
<1>5. CASE UnpublishMounted(w) /\ Answer(w, "mismatch")
  <2>1. "mismatch" \in Answers \ {"ok"}
    BY DEF Answers
  <2> QED
    BY <1>1, <1>2, <1>3, <1>5, <2>1, FailedStep DEF IInv, TypeOK, locks, disk
<1>6. CASE UnpublishAbsent(w)
  <2>1. Bare(t)'
    BY <1>1, <1>2, <1>6 DEF UnpublishAbsent, Bare, disk
  <2> QED
    BY <1>1, <1>2, <1>3, <1>6, <2>1, NextStep DEF UnpublishAbsent, IInv, TypeOK, locks, disk
<1> QED
  BY <1>4, <1>5, <1>6 DEF UnpublishMounted

LEMMA PublishAbsentIInv ==
    ASSUME IInv, NEW w \in Workers, PublishAbsent(w)
    PROVE  IInv'
<1>1. /\ pc[w] \in Inside \ {"unlock"}
      /\ call[w].kind = "publish"
      /\ UNCHANGED <<targets, refs, owner, ptr, disk>>
      /\ memory' = [memory EXCEPT ![ptr[w]] = Null]
  BY DEF PublishAbsent, Publishing, Inside
<1>2. PICK t \in Targets : t = Target(w) /\ TargetOK(t) /\ ptr[w] = targets[t]
  BY <1>1, InsideFacts
<1>3. /\ memory' \in [Locks -> Requests \cup {Null}]
      /\ memory'[ptr[w]] = Null
      /\ \A l \in Locks : l # ptr[w] => memory'[l] = memory[l]
  BY <1>1, InsideFacts DEF IInv, TypeOK
<1>4. TargetOK(t)'
  BY <1>1, <1>2, <1>3 DEF TargetOK, disk
<1>5. Bare(t)'
  BY <1>1, <1>2 DEF PublishAbsent, Bare, disk
<1>6. CASE Goto(w, "persist") /\ UNCHANGED call
  BY <1>1, <1>2, <1>3, <1>4, <1>5, <1>6, NextStep DEF IInv, TypeOK, disk
<1>7. CASE Answer(w, "invalid")
  <2>1. "invalid" \in Answers \ {"ok"}
    BY DEF Answers
  <2> QED
    BY <1>1, <1>2, <1>3, <1>4, <1>7, <2>1, FailedStep DEF IInv, TypeOK, disk
<1> QED
  BY <1>6, <1>7 DEF PublishAbsent

LEMMA PublishMountedIInv ==
    ASSUME IInv, NEW w \in Workers, PublishMounted(w)
    PROVE  IInv'
<1>1. /\ pc[w] \in Inside \ {"unlock"}
      /\ call[w].kind = "publish"
      /\ UNCHANGED <<targets, refs, owner, ptr, disk>>
  BY DEF PublishMounted, Publishing, Inside
<1>2. PICK t \in Targets : t = Target(w) /\ TargetOK(t) /\ ptr[w] = targets[t]
  BY <1>1, InsideFacts
<1>3. CASE Recognised(w) /\ memory' = [memory EXCEPT ![ptr[w]] = Req(w)] /\ Answer(w, "ok")
  <2>1. Req(w) \in Requests /\ ptr[w] \in Locks
    BY <1>1, InsideFacts
  <2>2. /\ memory' \in [Locks -> Requests \cup {Null}]
        /\ memory'[ptr[w]] = Req(w)
        /\ \A l \in Locks : l # ptr[w] => memory'[l] = memory[l]
    BY <1>3, <2>1 DEF IInv, TypeOK
  <2>3. record[t] = Req(w)
    BY <1>2, <1>3 DEF Recognised
  <2>4. TargetOK(t)'
    BY <1>1, <1>2, <2>2, <2>3 DEF TargetOK, disk
  <2>5. /\ mounts[t] # <<>>
        /\ 1 \in 1..Len(mounts[t])
        /\ Head(mounts[t]) = mounts[t][1]
        /\ mounts[t][1] \in Requests \cup Foreign
    BY <1>2, MountsAtBare DEF PublishMounted, IInv, TypeOK
  <2>6. Head(mounts[t]) = Req(w) \/ Head(mounts[t]) \in Foreign \ Requests
    BY <1>2, <2>3, <2>5, NodeAssumption DEF TargetOK
  <2>7. Head(mounts[t]) \in Foreign \ Requests
           => Acceptable(Req(w).h, Head(mounts[t]), Req(w).ro, Req(w).flags)
    BY <1>2, <1>3 DEF Recognised, AsListed
  <2>8. Target(w)' = t /\ Req(w)' = Req(w) /\ call'[w].kind = "publish"
    <3>1. TypeOK /\ "ok" \in Answers /\ pc[w] \notin {"idle", "unlock"}
      BY <1>1 DEF IInv, Answers, Inside
    <3> QED
      BY <1>1, <1>2, <1>3, <3>1, AnswerEffect DEF Target, Req
  <2>9. AnswerHolds(w)'
    BY <1>1, <2>3, <2>5, <2>6, <2>7, <2>8 DEF AnswerHolds, disk
  <2> QED
    BY <1>1, <1>2, <1>3, <2>2, <2>4, <2>9, OkStep DEF IInv, TypeOK, disk
<1>4. CASE UNCHANGED memory /\ Answer(w, "exists")
  <2>1. "exists" \in Answers \ {"ok"}
    BY DEF Answers
  <2>2. TargetOK(t)'
    BY <1>1, <1>2, <1>4 DEF TargetOK, disk
  <2> QED
    BY <1>1, <1>2, <1>4, <2>1, <2>2, FailedStep DEF IInv, TypeOK, disk
<1> QED
  BY <1>3, <1>4 DEF PublishMounted

LEMMA PersistIInv ==
    ASSUME IInv, NEW w \in Workers, Persist(w)
    PROVE  IInv'
<1>1. /\ pc[w] = "persist" /\ pc[w] \in Inside \ {"unlock"}
      /\ UNCHANGED <<targets, refs, owner, ptr, mounts, dirs>>
  BY DEF Persist, Inside
<1>2. PICK t \in Targets : /\ t = Target(w) /\ TargetOK(t)
                           /\ ptr[w] \in Locks /\ ptr[w] = targets[t] /\ Req(w) \in Requests
  BY <1>1, InsideFacts
<1>3. Bare(t) /\ memory[ptr[w]] = Null /\ call[w].kind = "publish"
  BY <1>1, <1>2, InsideFacts DEF WorkerOK
<1>4. DEFINE written == [record EXCEPT ![t] = Req(w)]
<1>5. /\ written \in [Targets -> Requests \cup {Null}]
      /\ written[t] = Req(w)
      /\ \A s \in Targets : s # t => written[s] = record[s]
  BY <1>2 DEF IInv, TypeOK
<1> HIDE DEF written
<1>6. CASE /\ record' = written
           /\ memory' = [memory EXCEPT ![ptr[w]] = Req(w)]
           /\ Goto(w, "mount")
           /\ UNCHANGED call
  <2>1. /\ memory' \in [Locks -> Requests \cup {Null}]
        /\ memory'[ptr[w]] = Req(w)
        /\ \A l \in Locks : l # ptr[w] => memory'[l] = memory[l]
    BY <1>2, <1>6 DEF IInv, TypeOK
  <2>2. TargetOK(t)'
    BY <1>1, <1>2, <1>3, <1>5, <1>6, <2>1 DEF TargetOK, Bare
  <2>3. Bare(t)'
    BY <1>1, <1>3 DEF Bare
  <2> QED
    BY <1>1, <1>2, <1>3, <1>5, <1>6, <2>1, <2>2, <2>3, NextStep DEF IInv, TypeOK
<1>7. CASE /\ record' \in {record, written}
           /\ UNCHANGED memory
           /\ Answer(w, "error")
  <2>1. "error" \in Answers \ {"ok"}
    BY DEF Answers
  <2>2. TargetOK(t)'
    BY <1>1, <1>2, <1>3, <1>5, <1>7 DEF TargetOK, Bare
  <2>3. /\ record' \in [Targets -> Requests \cup {Null}]
        /\ \A s \in Targets : s # t => record'[s] = record[s]
    BY <1>5, <1>7 DEF IInv, TypeOK
  <2> QED
    BY <1>1, <1>2, <1>7, <2>1, <2>2, <2>3, FailedStep DEF IInv, TypeOK
<1> QED
  BY <1>2, <1>6, <1>7 DEF Persist, written

\* A mount of this driver comes on top of none of its own.
LEMMA Stacked ==
    ASSUME TypeOK, NEW t \in Targets, NEW r \in Requests, Bare(t)
    PROVE  /\ <<r>> \o mounts[t] \in Seq(Requests \cup Foreign)
           /\ <<r>> \o mounts[t] # <<>>
           /\ Head(<<r>> \o mounts[t]) = r
           /\ \A i \in 1..Len(<<r>> \o mounts[t]) :
                (<<r>> \o mounts[t])[i] \in Requests => i = 1 /\ (<<r>> \o mounts[t])[i] = r
<1> DEFINE M == Requests \cup Foreign
           one == <<r>>
<1>1. one \in Seq(M) /\ Len(one) = 1 /\ one[1] = r
  OBVIOUS
<1>2. mounts[t] \in Seq(M) /\ Len(mounts[t]) \in Nat
  BY DEF TypeOK
<1> HIDE DEF one, M
<1>3. /\ one \o mounts[t] \in Seq(M)
      /\ Len(one \o mounts[t]) = 1 + Len(mounts[t])
      /\ \A i \in 1..1 + Len(mounts[t]) :
           (one \o mounts[t])[i] = IF i <= 1 THEN one[i] ELSE mounts[t][i - 1]
  <2>1. /\ one \o mounts[t] \in Seq(M)
        /\ Len(one \o mounts[t]) = Len(one) + Len(mounts[t])
        /\ \A i \in 1..Len(one) + Len(mounts[t]) :
             (one \o mounts[t])[i] =
               IF i <= Len(one) THEN one[i] ELSE mounts[t][i - Len(one)]
    BY <1>1, <1>2, ConcatProperties, Zenon
  <2> QED
    BY <1>1, <2>1
<1>4. \A i \in 1..Len(one \o mounts[t]) :
         (one \o mounts[t])[i] \in Requests => i = 1 /\ (one \o mounts[t])[i] = r
  <2> SUFFICES ASSUME NEW i \in 1..1 + Len(mounts[t]), (one \o mounts[t])[i] \in Requests
               PROVE  i = 1 /\ (one \o mounts[t])[i] = r
    BY <1>3
  <2>1. i # 1 => i - 1 \in 1..Len(mounts[t]) /\ (one \o mounts[t])[i] = mounts[t][i - 1]
    BY <1>2, <1>3
  <2> QED
    BY <1>1, <1>3, <2>1 DEF Bare
<1>5. one \o mounts[t] # <<>>
  BY <1>2, <1>3, EmptySeq
<1>6. Head(one \o mounts[t]) = (one \o mounts[t])[1]
  BY <1>3, <1>5
<1>7. Head(one \o mounts[t]) = r
  BY <1>1, <1>2, <1>3, <1>6
<1> QED
  BY <1>3, <1>4, <1>5, <1>7 DEF one, M

LEMMA MountIInv ==
    ASSUME IInv, NEW w \in Workers, Mount(w)
    PROVE  IInv'
<1>1. /\ pc[w] = "mount" /\ pc[w] \in Inside \ {"unlock"}
      /\ UNCHANGED <<targets, refs, owner, ptr, memory, record>>
  BY DEF Mount, Inside, locks
<1>2. PICK t \in Targets : /\ t = Target(w) /\ TargetOK(t)
                           /\ ptr[w] \in Locks /\ ptr[w] = targets[t] /\ Req(w) \in Requests
  BY <1>1, InsideFacts
<1>3. Bare(t) /\ record[t] = Req(w) /\ call[w].kind = "publish"
  BY <1>1, <1>2, InsideFacts DEF WorkerOK
<1>4. "error" \in Answers \ {"ok"}
  BY DEF Answers
<1>5. dirs' \subseteq Targets
  BY <1>2 DEF Mount, IInv, TypeOK
<1>6. CASE /\ mounts' = [mounts EXCEPT ![Target(w)] = <<Req(w)>> \o @]
           /\ \E a \in {"ok", "error"} : Answer(w, a)
  <2>1. /\ mounts' \in [Targets -> Seq(Requests \cup Foreign)]
        /\ mounts'[t] = <<Req(w)>> \o mounts[t]
        /\ \A s \in Targets : s # t => mounts'[s] = mounts[s]
    BY <1>2, <1>3, <1>6, Stacked DEF IInv, TypeOK
  <2>2. TargetOK(t)'
    BY <1>1, <1>2, <1>3, <2>1, Stacked DEF TargetOK, IInv
  <2>3. CASE Answer(w, "ok")
    <3>1. Target(w)' = t /\ Req(w)' = Req(w) /\ call'[w].kind = "publish"
      <4>1. TypeOK /\ "ok" \in Answers /\ pc[w] \notin {"idle", "unlock"}
        BY <1>1 DEF IInv, Answers
      <4> QED
        BY <1>2, <1>3, <2>3, <4>1, AnswerEffect DEF Target, Req
    <3>2. mounts'[t] # <<>> /\ Head(mounts'[t]) = Req(w)
      BY <1>2, <1>3, <2>1, Stacked DEF IInv
    <3>3. AnswerHolds(w)'
      BY <1>1, <1>3, <3>1, <3>2 DEF AnswerHolds
    <3> QED
      BY <1>1, <1>2, <1>5, <2>1, <2>2, <2>3, <3>3, OkStep DEF IInv, TypeOK
  <2>4. CASE Answer(w, "error")
    BY <1>1, <1>2, <1>4, <1>5, <2>1, <2>2, <2>4, FailedStep DEF IInv, TypeOK
  <2> QED
    BY <1>6, <2>3, <2>4
<1>7. CASE UNCHANGED mounts /\ Answer(w, "error")
  <2>1. TargetOK(t)'
    BY <1>1, <1>2, <1>7 DEF TargetOK
  <2> QED
    BY <1>1, <1>2, <1>4, <1>5, <1>7, <2>1, FailedStep DEF IInv, TypeOK
<1> QED
  BY <1>6, <1>7 DEF Mount

\* Taking the topmost mount off leaves none of this driver.
LEMMA Unstacked ==
    ASSUME TypeOK, NEW t \in Targets, TargetOK(t), mounts[t] # <<>>
    PROVE  /\ Tail(mounts[t]) \in Seq(Requests \cup Foreign)
           /\ \A i \in 1..Len(Tail(mounts[t])) : Tail(mounts[t])[i] \notin Requests
<1> DEFINE M == Requests \cup Foreign
<1>1. mounts[t] \in Seq(M)
  BY DEF TypeOK
<1> HIDE DEF M
<1>2. /\ Tail(mounts[t]) \in Seq(M)
      /\ Len(Tail(mounts[t])) = Len(mounts[t]) - 1
      /\ \A i \in 1..Len(Tail(mounts[t])) : Tail(mounts[t])[i] = mounts[t][i + 1]
  BY <1>1, HeadTailProperties, Zenon
<1>3. Len(mounts[t]) \in Nat
  BY <1>1
<1>4. \A i \in 1..Len(Tail(mounts[t])) : Tail(mounts[t])[i] \notin Requests
  <2> SUFFICES ASSUME NEW i \in 1..Len(Tail(mounts[t])) PROVE mounts[t][i + 1] \notin Requests
    BY <1>2
  <2>1. i + 1 \in 1..Len(mounts[t]) /\ i + 1 # 1
    BY <1>2, <1>3
  <2> QED
    BY <2>1 DEF TargetOK
<1> QED
  BY <1>2, <1>4 DEF M

LEMMA UnmountIInv ==
    ASSUME IInv, NEW w \in Workers, Unmount(w)
    PROVE  IInv'
<1>1. /\ pc[w] = "unmount" /\ pc[w] \in Inside \ {"unlock"}
      /\ UNCHANGED <<targets, refs, owner, ptr, memory, record, dirs>>
  BY DEF Unmount, Inside, locks
<1>2. PICK t \in Targets : t = Target(w) /\ TargetOK(t) /\ ptr[w] \in Locks /\ ptr[w] = targets[t]
  BY <1>1, InsideFacts
<1>3. "error" \in Answers \ {"ok"} /\ call[w].kind = "unpublish"
  BY <1>1, InsideFacts DEF Answers, WorkerOK
<1>4. CASE /\ mounts[Target(w)] # <<>>
           /\ mounts' = [mounts EXCEPT ![Target(w)] = Tail(@)]
           /\ \/ Goto(w, "forget") /\ UNCHANGED call
              \/ Answer(w, "error")
  <2>1. /\ mounts' \in [Targets -> Seq(Requests \cup Foreign)]
        /\ mounts'[t] = Tail(mounts[t])
        /\ \A s \in Targets : s # t => mounts'[s] = mounts[s]
    BY <1>2, <1>4, Unstacked DEF IInv, TypeOK
  <2>2. Bare(t)'
    BY <1>2, <1>4, <2>1, Unstacked DEF Bare, IInv
  <2>3. TargetOK(t)'
    BY <1>1, <1>2, <2>2 DEF TargetOK, Bare
  <2>4. CASE Goto(w, "forget") /\ UNCHANGED call
    BY <1>1, <1>2, <1>3, <2>1, <2>2, <2>3, <2>4, NextStep DEF IInv, TypeOK
  <2>5. CASE Answer(w, "error")
    BY <1>1, <1>2, <1>3, <2>1, <2>3, <2>5, FailedStep DEF IInv, TypeOK
  <2> QED
    BY <1>4, <2>4, <2>5
<1>5. CASE UNCHANGED mounts /\ Answer(w, "error")
  <2>1. TargetOK(t)'
    BY <1>1, <1>2, <1>5 DEF TargetOK
  <2> QED
    BY <1>1, <1>2, <1>3, <1>5, <2>1, FailedStep DEF IInv, TypeOK
<1> QED
  BY <1>4, <1>5 DEF Unmount

LEMMA ForgetIInv ==
    ASSUME IInv, NEW w \in Workers, Forget(w)
    PROVE  IInv'
<1>1. /\ pc[w] = "forget" /\ pc[w] \in Inside \ {"unlock"}
      /\ UNCHANGED <<targets, refs, owner, ptr, mounts, dirs>>
  BY DEF Forget, Inside
<1>2. PICK t \in Targets : t = Target(w) /\ TargetOK(t) /\ ptr[w] \in Locks /\ ptr[w] = targets[t]
  BY <1>1, InsideFacts
<1>3. Bare(t) /\ call[w].kind = "unpublish"
  BY <1>1, <1>2, InsideFacts DEF WorkerOK
<1>4. DEFINE gone == [record EXCEPT ![t] = Null]
<1>5. /\ gone \in [Targets -> Requests \cup {Null}]
      /\ gone[t] = Null
      /\ \A s \in Targets : s # t => gone[s] = record[s]
  BY DEF IInv, TypeOK
<1> HIDE DEF gone
<1>6. CASE /\ record' = gone
           /\ memory' = [memory EXCEPT ![ptr[w]] = Null]
           /\ Goto(w, "rmdir")
           /\ UNCHANGED call
  <2>1. /\ memory' \in [Locks -> Requests \cup {Null}]
        /\ \A l \in Locks : l # ptr[w] => memory'[l] = memory[l]
    BY <1>2, <1>6 DEF IInv, TypeOK
  <2>2. Bare(t)'
    BY <1>1, <1>3 DEF Bare
  <2>3. TargetOK(t)'
    BY <1>5, <1>6, <2>2 DEF TargetOK, Bare
  <2> QED
    BY <1>1, <1>2, <1>3, <1>5, <1>6, <2>1, <2>2, <2>3, NextStep DEF IInv, TypeOK
<1>7. CASE /\ record' \in {record, gone}
           /\ UNCHANGED memory
           /\ Answer(w, "error")
  <2>1. "error" \in Answers \ {"ok"}
    BY DEF Answers
  <2>2. /\ record' \in [Targets -> Requests \cup {Null}]
        /\ \A s \in Targets : s # t => record'[s] = record[s]
    BY <1>5, <1>7 DEF IInv, TypeOK
  <2>3. TargetOK(t)'
    BY <1>1, <1>2, <1>3, <1>5, <1>7 DEF TargetOK, Bare
  <2> QED
    BY <1>1, <1>2, <1>7, <2>1, <2>2, <2>3, FailedStep DEF IInv, TypeOK
<1> QED
  BY <1>2, <1>6, <1>7 DEF Forget, gone

LEMMA RemoveTargetIInv ==
    ASSUME IInv, NEW w \in Workers, RemoveTarget(w)
    PROVE  IInv'
<1>1. /\ pc[w] = "rmdir" /\ pc[w] \in Inside \ {"unlock"}
      /\ UNCHANGED <<targets, refs, owner, ptr, memory, mounts, record>>
      /\ Answer(w, "ok")
  BY DEF RemoveTarget, Inside, locks
<1>2. PICK t \in Targets : t = Target(w) /\ TargetOK(t)
  BY <1>1, InsideFacts
<1>3. Bare(t) /\ record[t] = Null /\ call[w].kind = "unpublish"
  BY <1>1, <1>2, InsideFacts DEF WorkerOK
<1>4. dirs' \subseteq Targets
  BY DEF RemoveTarget, IInv, TypeOK
<1>5. TargetOK(t)'
  BY <1>1, <1>2 DEF TargetOK
<1>6. Target(w)' = t /\ call'[w].kind = "unpublish"
  <2>1. TypeOK /\ "ok" \in Answers /\ pc[w] \notin {"idle", "unlock"}
    BY <1>1 DEF IInv, Answers
  <2> QED
    BY <1>1, <1>2, <1>3, <2>1, AnswerEffect DEF Target
<1>7. MountsAt(t)' \cap Requests = {}
  BY <1>1, <1>3, MountsAtBare DEF MountsAt, IInv
<1>8. AnswerHolds(w)'
  BY <1>1, <1>3, <1>6, <1>7 DEF AnswerHolds
<1> QED
  BY <1>1, <1>2, <1>4, <1>5, <1>8, OkStep DEF IInv, TypeOK

LEMMA HandleIInv ==
    ASSUME IInv, NEW w \in Workers, Handle(w)
    PROVE  IInv'
BY RefusedOrFailedIInv, UnpublishLookIInv, PublishAbsentIInv, PublishMountedIInv, PersistIInv,
   MountIInv, UnmountIInv, ForgetIInv, RemoveTargetIInv
   DEF Handle

\* References of one target are not counted for another.
LEMMA CountUsers ==
    ASSUME IInv, NEW t \in Targets
    PROVE  /\ IsFiniteSet(Users(t)) /\ Cardinality(Users(t)) \in Nat
           /\ targets[t] = Null => Users(t) = {}
           /\ targets[t] # Null => refs[targets[t]] = Cardinality(Users(t))
           /\ \A w \in Users(t) : ptr[w] = targets[t]
<1>1. IsFiniteSet(Users(t))
  BY WorkersAssumption, FS_Subset DEF Users
<1>2. \A w \in Users(t) : ptr[w] = targets[t] /\ ptr[w] \in Locks
  BY DEF IInv, WorkerOK, Users, Uses
<1> QED
  BY <1>1, <1>2, FS_CardinalityType, NodeAssumption DEF IInv, Counted

LEMMA StartIInv ==
    ASSUME IInv, NEW w \in Workers, Start(w)
    PROVE  IInv'
<1>1. PICK k \in Kinds, t \in Targets, r \in Requests, l \in Locks :
         /\ call' = [call EXCEPT ![w] = [kind |-> k, target |-> t, req |-> r,
                                        answer |-> "none", disturbed |-> FALSE]]
         /\ Reserve(w, t, l)
  BY DEF Start
<1>2. pc[w] = "idle" /\ pc' = [pc EXCEPT ![w] = "wait"] /\ UNCHANGED <<owner, disk>>
  BY DEF Start, Goto
<1>3. TypeOK
  BY DEF IInv
<1>4. /\ call'[w].target = t /\ call'[w].answer = "none" /\ call'[w] \in Calls
      /\ \A v \in Workers : v # w => call'[v] = call[v]
      /\ call' \in [Workers -> Calls \cup {Null}]
  BY <1>1, <1>3 DEF TypeOK, Calls, Answers
<1>5. \A v \in Workers : pc'[v] = (IF v = w THEN "wait" ELSE pc[v])
                        /\ ptr'[v] = (IF v = w THEN l ELSE ptr[v])
  BY <1>1, <1>2, <1>3 DEF TypeOK, Reserve
<1>6. \A s \in Targets : targets'[s] = IF s = t THEN l ELSE targets[s]
  BY <1>1, <1>3 DEF TypeOK, Reserve
<1>7. l # Null /\ \A s \in Targets : s # t => targets[s] # l
  BY <1>1, NodeAssumption DEF IInv, Distinct, Free, Reserve
<1>8. \A m \in Locks : memory'[m] = memory[m]
  BY <1>1, <1>3 DEF IInv, Remembered, Free, TypeOK, Reserve
<1>9. TypeOK'
  <2>1. refs' \in [Locks -> Nat]
    BY <1>1, <1>3 DEF TypeOK, Reserve
  <2>2. memory' \in [Locks -> Requests \cup {Null}]
    BY <1>1, <1>3 DEF TypeOK, Reserve
  <2> QED
    BY <1>1, <1>2, <1>3, <1>4, <2>1, <2>2 DEF TypeOK, disk, Reserve
<1>10. w \notin Users(t) /\ Users(t)' = Users(t) \cup {w}
  BY <1>2, <1>4, <1>5 DEF Users, Inside, Target
<1>11. \A s \in Targets : s # t => Users(s)' = Users(s)
  <2>1. \A s \in Targets, v \in Workers : s # t => (v \in Users(s)' <=> v \in Users(s))
    BY <1>2, <1>4, <1>5 DEF Users, Inside, Target
  <2> QED
    BY <2>1 DEF Users
<1>12. Distinct'
  BY <1>6, <1>7 DEF IInv, Distinct
<1>13. Counted'
  <2> SUFFICES ASSUME NEW s \in Targets, targets'[s] # Null
               PROVE  refs'[targets'[s]] = Cardinality(Users(s)')
    BY DEF Counted, Users
  <2>1. CASE s = t
    <3>1. Cardinality(Users(t)') = Cardinality(Users(t)) + 1
      BY <1>10, CountUsers, FS_AddElement
    <3>2. refs'[l] = Cardinality(Users(t)) + 1
      <4>1. CASE targets[t] = l
        BY <1>1, <1>3, <1>7, <4>1, CountUsers DEF TypeOK, Reserve
      <4>2. CASE targets[t] = Null
        <5>1. Cardinality(Users(t)) = 0
          BY <4>2, CountUsers, FS_EmptySet
        <5>2. refs'[l] = 1
          BY <1>1, <1>3, <1>7, <4>2 DEF TypeOK, Reserve
        <5> QED
          BY <5>1, <5>2
      <4> QED
        BY <1>1, <4>1, <4>2 DEF Reserve
    <3> QED
      BY <1>6, <2>1, <3>1, <3>2
  <2>2. CASE s # t
    <3>1. targets'[s] = targets[s] /\ targets[s] # l /\ targets[s] \in Locks
      BY <1>3, <1>6, <1>7, <2>2 DEF TypeOK
    <3>2. refs'[targets[s]] = refs[targets[s]]
      BY <1>1, <1>3, <3>1 DEF TypeOK, Reserve
    <3> QED
      BY <1>11, <2>2, <3>1, <3>2, CountUsers
  <2> QED
    BY <2>1, <2>2
<1>14. Kept'
  <2>1. \A s \in Targets : s # t /\ targets[s] # Null => memory'[targets[s]] = memory[targets[s]]
    BY <1>3, <1>8 DEF TypeOK
  <2> QED
    BY <1>6, <1>10, <1>11, <2>1 DEF IInv, Kept
<1>15. Remembered'
  <2> SUFFICES ASSUME NEW m \in Locks, memory[m] # Null PROVE \E s \in Targets : targets'[s] = m
    BY <1>8 DEF Remembered
  <2>1. PICK s \in Targets : targets[s] = m
    BY DEF IInv, Remembered
  <2>2. s = t => m = l
    BY <1>1, <2>1, NodeAssumption DEF Reserve
  <2> QED
    BY <1>6, <2>1, <2>2
<1>16. \A v \in Workers : WorkerOK(v)'
  <2> SUFFICES ASSUME NEW v \in Workers PROVE WorkerOK(v)'
    OBVIOUS
  <2>1. WorkerOK(v)
    BY DEF IInv
  <2>2. CASE v = w
    BY <1>4, <1>5, <1>6, <2>2 DEF WorkerOK, Uses, Inside, Target, AnswerHolds
  <2>3. CASE v # w
    <3>1. /\ pc'[v] = pc[v] /\ ptr'[v] = ptr[v] /\ call'[v] = call[v]
          /\ Target(v)' = Target(v) /\ Req(v)' = Req(v) /\ Uses(v)' = Uses(v)
      BY <1>4, <1>5, <2>3 DEF Target, Req, Uses
    <3>2. Uses(v) => Target(v) \in Targets /\ targets'[Target(v)] = targets[Target(v)]
      <4> SUFFICES ASSUME Uses(v) PROVE Target(v) \in Targets /\ targets'[Target(v)] = targets[Target(v)]
        OBVIOUS
      <4>1. Target(v) \in Targets
        BY <1>3, CallTypes DEF Uses, Inside
      <4>2. targets[Target(v)] # Null
        BY <2>1, NodeAssumption DEF WorkerOK
      <4> QED
        BY <1>1, <1>6, <4>1, <4>2 DEF Reserve
    <3>3. pc[v] \in Inside => Memory(v)' = Memory(v)
      BY <1>8, <2>1, <3>1 DEF Memory, WorkerOK
    <3>4. AnswerHolds(v)' /\ (Bare(Target(v))' <=> Bare(Target(v)))
      BY <1>2, <2>1, <3>1 DEF AnswerHolds, WorkerOK, Bare, MountsAt, disk
    <3> QED
      BY <1>2, <2>1, <3>1, <3>2, <3>3, <3>4 DEF WorkerOK, disk, Inside
  <2> QED
    BY <2>2, <2>3
<1>17. \A s \in Targets : TargetOK(s)'
  <2> SUFFICES ASSUME NEW s \in Targets PROVE TargetOK(s)'
    OBVIOUS
  <2>1. TargetOK(s) /\ mounts' = mounts /\ record' = record
    BY <1>2 DEF IInv, disk
  <2>2. s = t => memory'[l] = Null \/ targets[s] = l
    BY <1>1, <1>3 DEF TypeOK, Reserve
  <2> QED
    BY <1>3, <1>6, <1>8, <2>1, <2>2 DEF TargetOK, TypeOK
<1> QED
  BY <1>9, <1>12, <1>13, <1>14, <1>15, <1>16, <1>17 DEF IInv

LEMMA AcquireIInv ==
    ASSUME IInv, NEW w \in Workers, Acquire(w)
    PROVE  IInv'
<1>1. /\ pc[w] = "wait" /\ owner[ptr[w]] = Null
      /\ owner' = [owner EXCEPT ![ptr[w]] = w]
      /\ pc' = [pc EXCEPT ![w] = "look"]
      /\ UNCHANGED <<targets, refs, memory, ptr, call, disk>>
  BY DEF Acquire, Goto
<1>2. TypeOK /\ WorkerOK(w) /\ Uses(w) /\ ptr[w] \in Locks
  BY <1>1 DEF IInv, WorkerOK, Uses
<1>3. call[w] \in Calls
  BY <1>1, <1>2, CallTypes
<1>4. TypeOK'
  BY <1>1, <1>2, <1>3 DEF TypeOK, Inside, disk
<1>5. \A v \in Workers : pc'[v] = IF v = w THEN "look" ELSE pc[v]
  BY <1>1, <1>2 DEF TypeOK
<1>6. \A v \in Workers : Uses(v)' = Uses(v)
  BY <1>1, <1>5 DEF Uses, Inside
<1>7. \A t \in Targets : Users(t)' = Users(t)
  <2>1. \A t \in Targets, v \in Workers : v \in Users(t)' <=> v \in Users(t)
    BY <1>1, <1>6 DEF Users, Uses, Target
  <2> QED
    BY <2>1 DEF Users
<1>8. \A v \in Workers : WorkerOK(v)'
  <2> SUFFICES ASSUME NEW v \in Workers PROVE WorkerOK(v)'
    OBVIOUS
  <2>1. WorkerOK(v) /\ Target(v)' = Target(v) /\ Req(v)' = Req(v) /\ Memory(v)' = Memory(v)
    BY <1>1 DEF IInv, Target, Req, Memory
  <2>2. AnswerHolds(v)' /\ (Bare(Target(v))' <=> Bare(Target(v)))
    BY <1>1, <1>5, <2>1 DEF AnswerHolds, WorkerOK, Bare, MountsAt, disk
  <2>3. pc'[v] \in Inside => ptr'[v] \in Locks /\ owner'[ptr'[v]] = v
    <3>1. CASE v = w
      BY <1>1, <1>2, <3>1 DEF TypeOK
    <3>2. CASE v # w
      <4>1. pc'[v] = pc[v] /\ ptr'[v] = ptr[v]
        BY <1>1, <1>5, <3>2
      <4>2. pc[v] \in Inside => ptr[v] \in Locks /\ owner[ptr[v]] = v /\ v # Null
        BY <2>1, NodeAssumption DEF WorkerOK
      <4> QED
        BY <1>1, <1>2, <4>1, <4>2 DEF TypeOK
    <3> QED
      BY <3>1, <3>2
  <2> QED
    BY <1>1, <1>5, <1>6, <2>1, <2>2, <2>3 DEF WorkerOK, disk
<1>9. \A t \in Targets : TargetOK(t)'
  BY <1>1 DEF IInv, TargetOK, disk
<1>10. Distinct' /\ Counted' /\ Kept' /\ Remembered'
  BY <1>1, <1>7 DEF IInv, Distinct, Counted, Kept, Remembered
<1> QED
  BY <1>4, <1>8, <1>9, <1>10 DEF IInv

LEMMA UnlockIInv ==
    ASSUME IInv, NEW w \in Workers, Unlock(w)
    PROVE  IInv'
<1>1. /\ pc[w] = "unlock"
      /\ owner' = [owner EXCEPT ![ptr[w]] = Null]
      /\ ptr' = [ptr EXCEPT ![w] = Null]
      /\ pc' = [pc EXCEPT ![w] = "idle"]
      /\ UNCHANGED <<targets, refs, memory, call, disk>>
  BY DEF Unlock, Goto
<1>2. TypeOK /\ ptr[w] \in Locks /\ owner[ptr[w]] = w
  BY <1>1 DEF IInv, WorkerOK, Inside
<1>3. TypeOK'
  BY <1>1, <1>2 DEF TypeOK, disk
<1>4. \A v \in Workers : /\ pc'[v] = (IF v = w THEN "idle" ELSE pc[v])
                         /\ ptr'[v] = (IF v = w THEN Null ELSE ptr[v])
  BY <1>1, <1>2 DEF TypeOK
<1>5. \A v \in Workers : Uses(v)' = Uses(v)
  BY <1>1, <1>4 DEF Uses, Inside
<1>6. \A t \in Targets : Users(t)' = Users(t)
  <2>1. \A t \in Targets, v \in Workers : v \in Users(t)' <=> v \in Users(t)
    BY <1>1, <1>5 DEF Users, Uses, Target
  <2> QED
    BY <2>1 DEF Users
<1>7. \A v \in Workers : WorkerOK(v)'
  <2> SUFFICES ASSUME NEW v \in Workers PROVE WorkerOK(v)'
    OBVIOUS
  <2>1. WorkerOK(v) /\ Target(v)' = Target(v) /\ Req(v)' = Req(v)
    BY <1>1 DEF IInv, Target, Req
  <2>2. CASE v = w
    BY <1>1, <1>4, <1>5, <2>1, <2>2 DEF WorkerOK, Uses, Inside, AnswerHolds
  <2>3. CASE v # w
    <3>1. pc'[v] = pc[v] /\ ptr'[v] = ptr[v] /\ Memory(v)' = Memory(v)
      BY <1>1, <1>4, <2>3 DEF Memory
    <3>2. AnswerHolds(v)' /\ (Bare(Target(v))' <=> Bare(Target(v)))
      BY <1>1, <2>1, <3>1 DEF AnswerHolds, WorkerOK, Bare, MountsAt, disk
    <3>3. pc[v] \in Inside => ptr[v] \in Locks /\ owner'[ptr[v]] = v
      BY <1>1, <1>2, <2>1, <2>3 DEF WorkerOK, TypeOK
    <3> QED
      BY <1>1, <1>5, <2>1, <3>1, <3>2, <3>3 DEF WorkerOK, disk
  <2> QED
    BY <2>2, <2>3
<1>8. \A t \in Targets : TargetOK(t)'
  BY <1>1 DEF IInv, TargetOK, disk
<1>9. Distinct' /\ Counted' /\ Kept' /\ Remembered'
  BY <1>1, <1>6 DEF IInv, Distinct, Counted, Kept, Remembered
<1> QED
  BY <1>3, <1>7, <1>8, <1>9 DEF IInv

\* Release drops an entry only with its last reference and nothing to
\* remember, because refs counts the calls of this very target.
LEMMA ReleaseIInv ==
    ASSUME IInv, NEW w \in Workers, Release(w)
    PROVE  IInv'
<1>1. pc[w] = "release" /\ pc[w] \in Inside \ {"unlock"} /\ Uses(w) /\ TypeOK
  BY DEF Release, Inside, Uses, IInv
<1>2. PICK t \in Targets : t = Target(w)
  BY <1>1, InsideFacts
<1>3. PICK l \in Locks : l = ptr[w] /\ l = targets[t] /\ l # Null /\ owner[l] = w
  BY <1>1, <1>2, InsideFacts
<1>4. DEFINE dropped == refs[l] = 1 /\ memory[l] = Null
<1>5. /\ refs' = [refs EXCEPT ![l] = refs[l] - 1]
      /\ call' = [call EXCEPT ![w] = Null]
      /\ pc' = [pc EXCEPT ![w] = "unlock"]
      /\ UNCHANGED <<owner, memory, ptr, disk>>
  BY <1>3 DEF Release, Goto
<1>6. targets' = IF dropped THEN [targets EXCEPT ![t] = Null] ELSE targets
  BY <1>2, <1>3 DEF Release, Memory
<1>7. \A s \in Targets : targets'[s] = IF s = t /\ dropped THEN Null ELSE targets[s]
  BY <1>1, <1>6 DEF TypeOK
<1> HIDE DEF dropped
<1>8. \A v \in Workers : /\ pc'[v] = (IF v = w THEN "unlock" ELSE pc[v])
                         /\ v # w => call'[v] = call[v]
  BY <1>1, <1>5 DEF TypeOK
<1>9. w \in Users(t) /\ Users(t)' = Users(t) \ {w}
  BY <1>1, <1>2, <1>8 DEF Users, Inside, Target
<1>10. \A s \in Targets : s # t => Users(s)' = Users(s)
  <2>1. \A s \in Targets, v \in Workers : s # t => (v \in Users(s)' <=> v \in Users(s))
    BY <1>1, <1>2, <1>8 DEF Users, Inside, Target
  <2> QED
    BY <2>1 DEF Users
<1>11. /\ refs[l] = Cardinality(Users(t)) /\ refs[l] \in Nat \ {0}
       /\ Cardinality(Users(t)') = refs[l] - 1
       /\ refs[l] = 1 <=> Users(t)' = {}
  <2>1. /\ IsFiniteSet(Users(t)) /\ Cardinality(Users(t)) \in Nat
        /\ refs[l] = Cardinality(Users(t))
    BY <1>3, CountUsers
  <2>2. IsFiniteSet(Users(t)') /\ Cardinality(Users(t)') = Cardinality(Users(t)) - 1
    BY <1>9, <2>1, FS_RemoveElement
  <2>3. Cardinality(Users(t)) # 0
    BY <1>9, <2>1, FS_EmptySet
  <2>4. Cardinality(Users(t)') = 0 <=> Users(t)' = {}
    BY <2>2, FS_EmptySet
  <2> QED
    BY <2>1, <2>2, <2>3, <2>4
<1>12. TypeOK'
  <2>1. refs' \in [Locks -> Nat]
    BY <1>1, <1>5, <1>11 DEF TypeOK
  <2>2. targets' \in [Targets -> Locks \cup {Null}]
    BY <1>1, <1>6 DEF TypeOK
  <2>3. /\ call' \in [Workers -> Calls \cup {Null}]
        /\ pc' \in [Workers -> Inside \cup {"idle", "wait"}]
        /\ \A v \in Workers : pc'[v] \notin {"idle", "unlock"} => call'[v] \in Calls
    BY <1>1, <1>5, <1>8 DEF TypeOK, Inside
  <2> QED
    BY <1>1, <1>5, <2>1, <2>2, <2>3 DEF TypeOK, disk
<1>13. Distinct'
  BY <1>7 DEF IInv, Distinct
<1>14. Counted'
  <2> SUFFICES ASSUME NEW s \in Targets, targets'[s] # Null
               PROVE  refs'[targets'[s]] = Cardinality(Users(s)')
    BY DEF Counted, Users
  <2>1. targets'[s] = targets[s] /\ targets[s] \in Locks
    BY <1>1, <1>7 DEF TypeOK
  <2>2. CASE s = t
    BY <1>1, <1>3, <1>5, <1>11, <2>1, <2>2 DEF TypeOK
  <2>3. CASE s # t
    <3>1. targets[s] # l
      BY <1>3, <2>1, <2>3 DEF IInv, Distinct
    <3>2. refs'[targets[s]] = refs[targets[s]]
      BY <1>1, <1>5, <2>1, <3>1 DEF TypeOK
    <3>3. refs[targets[s]] = Cardinality(Users(s))
      BY <2>1, NodeAssumption, CountUsers
    <3> QED
      BY <1>10, <2>1, <2>3, <3>2, <3>3
  <2> QED
    BY <2>2, <2>3
<1>15. Kept'
  <2> SUFFICES ASSUME NEW s \in Targets, targets'[s] # Null
               PROVE  Users(s)' # {} \/ memory[targets[s]] # Null
    BY <1>5, <1>7 DEF Kept, Users
  <2>1. CASE s = t
    BY <1>3, <1>7, <1>11, <2>1 DEF dropped
  <2>2. CASE s # t
    BY <1>7, <1>10, <2>2 DEF IInv, Kept
  <2> QED
    BY <2>1, <2>2
<1>16. Remembered'
  <2> SUFFICES ASSUME NEW m \in Locks, memory[m] # Null PROVE \E s \in Targets : targets'[s] = m
    BY <1>5 DEF Remembered
  <2>1. PICK s \in Targets : targets[s] = m
    BY DEF IInv, Remembered
  <2> QED
    BY <1>3, <1>7, <2>1 DEF dropped
<1>17. \A v \in Workers : WorkerOK(v)'
  <2> SUFFICES ASSUME NEW v \in Workers PROVE WorkerOK(v)'
    OBVIOUS
  <2>1. WorkerOK(v)
    BY DEF IInv
  <2>2. CASE v = w
    <3>1. pc'[v] = "unlock" /\ ptr'[v] = l /\ owner'[l] = v
      BY <1>3, <1>5, <1>8, <2>2
    <3>2. ~Uses(v)' /\ AnswerHolds(v)'
      BY <3>1 DEF Uses, AnswerHolds
    <3> QED
      BY <3>1, <3>2 DEF WorkerOK
  <2>3. CASE v # w
    <3>1. /\ pc'[v] = pc[v] /\ ptr'[v] = ptr[v] /\ call'[v] = call[v]
          /\ Target(v)' = Target(v) /\ Req(v)' = Req(v) /\ Uses(v)' = Uses(v)
          /\ Memory(v)' = Memory(v)
      BY <1>5, <1>8, <2>3 DEF Target, Req, Uses, Memory
    <3>2. Uses(v) => targets'[Target(v)] = targets[Target(v)]
      <4> SUFFICES ASSUME Uses(v) PROVE targets'[Target(v)] = targets[Target(v)]
        OBVIOUS
      <4>1. Target(v) \in Targets
        BY <1>1, CallTypes DEF Uses, Inside
      <4>2. Target(v) = t => v \in Users(t)'
        BY <2>3, <1>9 DEF Users, Uses
      <4>3. Target(v) = t => ~dropped
        BY <1>11, <4>2 DEF dropped
      <4> QED
        BY <1>7, <4>1, <4>3
    <3>3. AnswerHolds(v)' /\ (Bare(Target(v))' <=> Bare(Target(v)))
      BY <1>5, <2>1, <3>1 DEF AnswerHolds, WorkerOK, Bare, MountsAt, disk
    <3> QED
      BY <1>5, <2>1, <3>1, <3>2, <3>3 DEF WorkerOK, disk
  <2> QED
    BY <2>2, <2>3
<1>18. \A s \in Targets : TargetOK(s)'
  BY <1>5, <1>7 DEF IInv, TargetOK, disk
<1> QED
  BY <1>12, <1>13, <1>14, <1>15, <1>16, <1>17, <1>18 DEF IInv

\* A restart leaves no call and no lock; the records still cover the mounts.
LEMMA RestartIInv ==
    ASSUME IInv, PodRestarts \/ NodeRestarts
    PROVE  IInv'
<1>1. /\ Crash
      /\ UNCHANGED <<record, dirs>>
      /\ mounts' = mounts \/ mounts' = [t \in Targets |-> <<>>]
  BY DEF PodRestarts, NodeRestarts, disk
<1>2. mounts' \in [Targets -> Seq(Requests \cup Foreign)]
  BY <1>1, EmptySeq DEF IInv, TypeOK
<1>3. TypeOK'
  BY <1>1, <1>2 DEF IInv, TypeOK, Crash
<1>4. \A w \in Workers : WorkerOK(w)'
  BY <1>1 DEF Crash, WorkerOK, Uses, Inside, AnswerHolds
<1>5. \A t \in Targets : TargetOK(t)'
  <2> SUFFICES ASSUME NEW t \in Targets PROVE TargetOK(t)'
    OBVIOUS
  <2>1. TargetOK(t) /\ targets'[t] = Null /\ record'[t] = record[t]
    BY <1>1 DEF IInv, Crash
  <2>2. mounts'[t] = mounts[t] \/ mounts'[t] = <<>>
    BY <1>1
  <2>3. Len(<<>>) = 0
    OBVIOUS
  <2> QED
    BY <2>1, <2>2, <2>3 DEF TargetOK
<1>6. Distinct' /\ Counted' /\ Kept' /\ Remembered'
  BY <1>1 DEF Crash, Distinct, Counted, Kept, Remembered
<1> QED
  BY <1>3, <1>4, <1>5, <1>6 DEF IInv

\* An administrator disturbs only calls that then promise nothing.
LEMMA AdminIInv ==
    ASSUME IInv, NEW t \in Targets, AdminUnmounts(t) \/ AdminMounts(t)
    PROVE  IInv'
<1>1. UNCHANGED <<locks, pc, record, dirs>> /\ Disturb(t) /\ TypeOK
  BY DEF AdminUnmounts, AdminMounts, IInv
<1>2. /\ mounts' \in [Targets -> Seq(Requests \cup Foreign)]
      /\ \A s \in Targets : s # t => mounts'[s] = mounts[s]
      /\ \A i \in 1..Len(mounts'[t]) : mounts'[t][i] \notin Requests
  <2>1. CASE AdminUnmounts(t)
    <3>1. TargetOK(t)
      BY DEF IInv
    <3> QED
      BY <1>1, <2>1, <3>1, Unstacked DEF AdminUnmounts, TypeOK
  <2>2. CASE AdminMounts(t)
    <3>1. PICK m \in Foreign : mounts' = [mounts EXCEPT ![t] = <<m>>]
      BY <2>2 DEF AdminMounts
    <3>2. <<m>> \in Seq(Requests \cup Foreign) /\ Len(<<m>>) = 1 /\ <<m>>[1] = m
      OBVIOUS
    <3>3. m \notin Requests
      BY NodeAssumption
    <3>4. mounts'[t] = <<m>>
      BY <1>1, <3>1 DEF TypeOK
    <3>5. \A i \in 1..Len(mounts'[t]) : mounts'[t][i] \notin Requests
      BY <3>2, <3>3, <3>4
    <3> QED
      BY <1>1, <3>1, <3>2, <3>5 DEF TypeOK
  <2> QED
    BY <2>1, <2>2
<1>3. \A v \in Workers :
         call'[v] = IF pc[v] \in Inside \ {"unlock"} /\ Target(v) = t
                    THEN [call[v] EXCEPT !.disturbed = TRUE] ELSE call[v]
  BY <1>1 DEF Disturb
<1>4. \A v \in Workers : pc[v] \in Inside \ {"unlock"} => call[v] \in Calls
  BY <1>1, CallTypes DEF Inside
<1>5. \A v \in Workers :
         /\ call'[v] \in Calls \cup {Null}
         /\ pc[v] \notin {"idle", "unlock"} => call'[v] \in Calls
         /\ pc[v] \notin {"idle", "unlock"} =>
              /\ call'[v].target = call[v].target /\ call'[v].req = call[v].req
              /\ call'[v].kind = call[v].kind /\ call'[v].answer = call[v].answer
         /\ pc[v] \in Inside \ {"unlock"} /\ Target(v) = t => call'[v].disturbed
         /\ ~(pc[v] \in Inside \ {"unlock"} /\ Target(v) = t) => call'[v] = call[v]
  <2> SUFFICES ASSUME NEW v \in Workers
               PROVE  /\ call'[v] \in Calls \cup {Null}
                      /\ pc[v] \notin {"idle", "unlock"} => call'[v] \in Calls
                      /\ pc[v] \notin {"idle", "unlock"} =>
                           /\ call'[v].target = call[v].target /\ call'[v].req = call[v].req
                           /\ call'[v].kind = call[v].kind /\ call'[v].answer = call[v].answer
                      /\ pc[v] \in Inside \ {"unlock"} /\ Target(v) = t => call'[v].disturbed
                      /\ ~(pc[v] \in Inside \ {"unlock"} /\ Target(v) = t) => call'[v] = call[v]
    OBVIOUS
  <2>1. CASE pc[v] \in Inside \ {"unlock"} /\ Target(v) = t
    <3>1. call[v] \in Calls /\ call'[v] = [call[v] EXCEPT !.disturbed = TRUE]
      BY <1>3, <1>4, <2>1
    <3> QED
      BY <2>1, <3>1 DEF Calls
  <2>2. CASE ~(pc[v] \in Inside \ {"unlock"} /\ Target(v) = t)
    BY <1>1, <1>3, <2>2 DEF TypeOK
  <2> QED
    BY <2>1, <2>2
<1>6. TypeOK'
  <2>1. call' \in [Workers -> Calls \cup {Null}]
    BY <1>1, <1>5 DEF Disturb
  <2> QED
    BY <1>1, <1>2, <1>5, <2>1 DEF TypeOK, locks
<1>7. \A s \in Targets : Users(s)' = Users(s)
  <2>1. \A s \in Targets, v \in Workers : v \in Users(s)' <=> v \in Users(s)
    BY <1>1, <1>5 DEF Users, Inside, Target
  <2> QED
    BY <2>1 DEF Users
<1>8. \A v \in Workers : WorkerOK(v)'
  <2> SUFFICES ASSUME NEW v \in Workers PROVE WorkerOK(v)'
    OBVIOUS
  <2>1. WorkerOK(v) /\ pc'[v] = pc[v] /\ ptr'[v] = ptr[v] /\ Memory(v)' = Memory(v)
    BY <1>1 DEF IInv, locks, Memory
  <2>2. CASE pc[v] \in {"idle", "unlock"}
    BY <1>1, <2>1, <2>2 DEF WorkerOK, Uses, Inside, AnswerHolds, locks
  <2>3. CASE pc[v] \notin {"idle", "unlock"}
    <3>1. /\ Target(v)' = Target(v) /\ Req(v)' = Req(v) /\ Uses(v)' = Uses(v)
          /\ Target(v) \in Targets /\ call'[v].kind = call[v].kind
      BY <1>1, <1>5, <2>3, CallTypes DEF Target, Req, Uses
    <3>2. Bare(Target(v)) => Bare(Target(v))'
      BY <1>2, <3>1 DEF Bare
    <3>3. AnswerHolds(v)'
      <4>1. CASE pc[v] = "release" /\ Target(v) = t
        <5>1. pc[v] \in Inside \ {"unlock"}
          BY <4>1 DEF Inside
        <5> QED
          BY <1>5, <4>1, <5>1 DEF AnswerHolds
      <4>2. CASE pc[v] = "release" /\ Target(v) # t
        <5>1. mounts'[Target(v)] = mounts[Target(v)] /\ MountsAt(Target(v))' = MountsAt(Target(v))
          BY <1>2, <3>1, <4>2 DEF MountsAt
        <5>2. call'[v] = call[v]
          BY <1>5, <4>2
        <5> QED
          BY <1>1, <2>1, <3>1, <5>1, <5>2 DEF AnswerHolds, WorkerOK
      <4>3. CASE pc[v] # "release"
        BY <2>1, <4>3 DEF AnswerHolds
      <4> QED
        BY <4>1, <4>2, <4>3
    <3> QED
      BY <1>1, <2>1, <3>1, <3>2, <3>3 DEF WorkerOK, locks
  <2> QED
    BY <2>2, <2>3
<1>9. \A s \in Targets : TargetOK(s)'
  BY <1>1, <1>2 DEF IInv, TargetOK, locks
<1>10. Distinct' /\ Counted' /\ Kept' /\ Remembered'
  BY <1>1, <1>7 DEF IInv, Distinct, Counted, Kept, Remembered, locks
<1> QED
  BY <1>6, <1>8, <1>9, <1>10 DEF IInv

LEMMA NextIInv == IInv /\ [Next]_vars => IInv'
<1> SUFFICES ASSUME IInv, [Next]_vars PROVE IInv'
  OBVIOUS
<1>1. CASE UNCHANGED vars
  <2>1. /\ UNCHANGED <<targets, refs, owner, memory, ptr, pc, call, mounts, record, dirs>>
    BY <1>1 DEF vars, locks, disk
  <2>2. \A t \in Targets : Users(t)' = Users(t)
    BY <2>1 DEF Users, Target
  <2>3. \A w \in Workers : WorkerOK(w)'
    BY <2>1 DEF IInv, WorkerOK, Uses, Target, Req, Memory, Bare, AnswerHolds, MountsAt
  <2> QED
    BY <2>1, <2>2, <2>3 DEF IInv, TypeOK, Distinct, Counted, Kept, Remembered, TargetOK
<1>2. ASSUME NEW w \in Workers, Step(w) PROVE IInv'
  BY <1>2, StartIInv, AcquireIInv, HandleIInv, ReleaseIInv, UnlockIInv DEF Step
<1>3. ASSUME NEW t \in Targets, AdminUnmounts(t) \/ AdminMounts(t) PROVE IInv'
  BY <1>3, AdminIInv
<1> QED
  BY <1>1, <1>2, <1>3, RestartIInv DEF Next

LEMMA Invariance == Spec => []IInv
<1> QED
  BY InitIInv, NextIInv, PTL DEF Spec

\* The variables always have their types: a lock's count of references never
\* goes below zero (node.go:311).
THEOREM NodeTypeCorrect == Spec => []TypeOK
<1>1. IInv => TypeOK
  BY DEF IInv
<1> QED
  BY <1>1, Invariance, PTL

\* One call at a time works on a target (node.go:294-317).
THEOREM TargetsAreExclusive == Spec => []TargetsExclusive
<1> QED
  BY Exclusive, Invariance, PTL

\* The map keeps what it has to and nothing else (node.go:312).
THEOREM MapIsKept == Spec => []MapKeepsMemory
<1>1. ASSUME IInv PROVE MapKeepsMemory
  <2>1. ASSUME NEW t \in Targets
        PROVE  IF targets[t] = Null THEN Users(t) = {}
               ELSE /\ Users(t) # {} \/ memory[targets[t]] # Null
                    /\ \A w \in Users(t) : ptr[w] = targets[t]
                    /\ record[t] # Null => memory[targets[t]] \in {Null, record[t]}
    BY <1>1, CountUsers DEF IInv, Kept, TargetOK
  <2> QED
    BY <1>1, <2>1 DEF MapKeepsMemory, IInv, Remembered
<1> QED
  BY <1>1, Invariance, PTL

\* The durable record covers every mount the driver has made, whatever fails
\* and whenever the pod stops (node.go:136-143).
THEOREM RecordsCoverMounts == Spec => []RecordCoversMount
<1>1. ASSUME IInv PROVE RecordCoversMount
  <2> SUFFICES ASSUME NEW t \in Targets, NEW m \in MountsAt(t), m \in Requests
               PROVE  record[t] = m
    BY DEF RecordCoversMount
  <2>1. PICK i \in 1..Len(mounts[t]) : mounts[t][i] = m
    BY <1>1, MountsAtBare DEF MountsAt, IInv
  <2> QED
    BY <1>1, <2>1 DEF IInv, TargetOK
<1> QED
  BY <1>1, Invariance, PTL

\* What a call answers is so (node.go:118, node.go:146, node.go:203).
THEOREM AnswersAreTrue == Spec => []AnswersHold
<1>1. IInv => AnswersHold
  BY DEF IInv, WorkerOK, AnswersHold
<1> QED
  BY <1>1, Invariance, PTL

\* Which steps change what the targets show.
LEMMA ShownSame ==
    ASSUME UNCHANGED mounts
    PROVE  Shown' = Shown
BY DEF Shown, MountsAt

LEMMA ShownAt ==
    ASSUME IInv, NEW t \in Targets
    PROVE  Shown[t] = {} <=> Bare(t)
BY MountsAtBare DEF IInv, Shown

\* Taking the topmost mount off a target is an unmount of the promise, or
\* touches nothing that it speaks of.
LEMMA TailKeepsPromise ==
    ASSUME IInv, IInv', NEW t \in Targets, mounts[t] # <<>>,
           mounts' = [mounts EXCEPT ![t] = Tail(@)]
    PROVE  P!Unmount(t) \/ UNCHANGED Shown
<1>1. /\ mounts'[t] = Tail(mounts[t])
      /\ \A s \in Targets : s # t => mounts'[s] = mounts[s]
  BY DEF IInv, TypeOK
<1>2. \A i \in 1..Len(mounts'[t]) : mounts'[t][i] \notin Requests
  BY <1>1, Unstacked DEF IInv
<1>3. DOMAIN mounts'[t] = 1..Len(mounts'[t])
  <2>1. mounts'[t] \in Seq(Requests \cup Foreign)
    BY DEF IInv, TypeOK
  <2> QED
    BY <2>1
<1>4. MountsAt(t)' \cap Requests = {}
  BY <1>2, <1>3 DEF MountsAt
<1>5. \A s \in Targets : s # t => MountsAt(s)' = MountsAt(s)
  BY <1>1 DEF MountsAt
<1>6. Shown' = [Shown EXCEPT ![t] = {}]
  BY <1>4, <1>5 DEF Shown
<1>7. CASE Shown[t] = {}
  <2>1. Shown' = Shown
    BY <1>6, <1>7 DEF Shown
  <2> QED
    BY <2>1
<1>8. CASE Shown[t] # {}
  BY <1>6, <1>8 DEF P!Unmount
<1> QED
  BY <1>7, <1>8

LEMMA MountKeepsPromise ==
    ASSUME IInv, NEW w \in Workers, Mount(w)
    PROVE  (\E t \in Targets, r \in Requests : P!Mount(t, r)) \/ UNCHANGED Shown
<1>1. pc[w] = "mount" /\ pc[w] \in Inside \ {"unlock"}
  BY DEF Mount, Inside
<1>2. PICK t \in Targets, r \in Requests : t = Target(w) /\ r = Req(w) /\ Bare(t)
  BY <1>1, InsideFacts DEF WorkerOK
<1>3. CASE UNCHANGED mounts
  BY <1>3, ShownSame
<1>4. CASE mounts' = [mounts EXCEPT ![t] = <<r>> \o @]
  <2>1. /\ mounts'[t] = <<r>> \o mounts[t]
        /\ \A s \in Targets : s # t => mounts'[s] = mounts[s]
    BY <1>4 DEF IInv, TypeOK
  <2>2. /\ mounts'[t] \in Seq(Requests \cup Foreign)
        /\ mounts'[t] # <<>>
        /\ \A i \in 1..Len(mounts'[t]) : mounts'[t][i] \in Requests => i = 1 /\ mounts'[t][i] = r
        /\ Head(mounts'[t]) = r
    BY <1>2, <2>1, Stacked DEF IInv
  <2>3. DOMAIN mounts'[t] = 1..Len(mounts'[t]) /\ Len(mounts'[t]) \in Nat
    BY <2>2
  <2>4. 1 \in 1..Len(mounts'[t]) /\ mounts'[t][1] = r
    BY <2>2, <2>3, EmptySeq
  <2>5. MountsAt(t)' \cap Requests = {r}
    BY <2>2, <2>3, <2>4 DEF MountsAt
  <2>6. \A s \in Targets : s # t => MountsAt(s)' = MountsAt(s)
    BY <2>1 DEF MountsAt
  <2>7. Shown' = [Shown EXCEPT ![t] = {r}]
    BY <2>5, <2>6 DEF Shown
  <2> QED
    BY <1>2, <2>7, ShownAt DEF P!Mount
<1> QED
  BY <1>2, <1>3, <1>4 DEF Mount

\* The node service implements NodePromise (node.go:99-143).
THEOREM NodeKeepsPromise == Spec => Promise
<1>1. Init => P!Init
  <2> SUFFICES ASSUME Init PROVE P!Init
    OBVIOUS
  <2>1. \A t \in Targets : MountsAt(t) \cap Requests = {}
    BY DEF Init, MountsAt
  <2> QED
    BY <2>1 DEF P!Init, Shown
<1>2. IInv /\ IInv' /\ [Next]_vars => [P!Next]_Shown
  <2> SUFFICES ASSUME IInv, IInv', [Next]_vars PROVE [P!Next]_Shown
    OBVIOUS
  <2>1. CASE UNCHANGED vars
    BY <2>1, ShownSame DEF vars, disk
  <2>2. ASSUME NEW w \in Workers, Step(w) PROVE [P!Next]_Shown
    <3>1. CASE Mount(w)
      BY <3>1, MountKeepsPromise DEF P!Next
    <3>2. CASE Unmount(w)
      <4>1. Target(w) \in Targets
        BY <3>2, CallTypes DEF Unmount, IInv
      <4>2. UNCHANGED mounts \/ P!Unmount(Target(w)) \/ UNCHANGED Shown
        BY <3>2, <4>1, TailKeepsPromise DEF Unmount
      <4> QED
        BY <4>1, <4>2, ShownSame DEF P!Next
    <3>3. CASE ~Mount(w) /\ ~Unmount(w)
      <4>1. UNCHANGED mounts
        BY <2>2, <3>3 DEF Step, Start, Acquire, Release, Unlock, Handle, PublishRefused,
             PublishMounted, PublishAbsent, Persist, UnpublishMounted, UnpublishAbsent, Forget,
             RemoveTarget, LookFails, disk
      <4> QED
        BY <4>1, ShownSame
    <3> QED
      BY <3>1, <3>2, <3>3
  <2>3. CASE PodRestarts
    BY <2>3, ShownSame DEF PodRestarts, disk
  <2>4. CASE NodeRestarts
    <3>1. \A t \in Targets : MountsAt(t)' \cap Requests = {}
      BY <2>4 DEF NodeRestarts, MountsAt
    <3> QED
      BY <3>1 DEF P!Next, P!Restart, Shown
  <2>5. ASSUME NEW t \in Targets, AdminUnmounts(t) PROVE [P!Next]_Shown
    BY <2>5, TailKeepsPromise DEF AdminUnmounts, P!Next
  <2>6. ASSUME NEW t \in Targets, AdminMounts(t) PROVE [P!Next]_Shown
    <3>1. PICK m \in Foreign : mounts' = [mounts EXCEPT ![t] = <<m>>]
      BY <2>6 DEF AdminMounts
    <3>2. mounts[t] = <<>> /\ m \notin Requests /\ mounts'[t] = <<m>>
      BY <2>6, <3>1, NodeAssumption DEF AdminMounts, IInv, TypeOK
    <3>3. \A s \in Targets : MountsAt(s)' \cap Requests = MountsAt(s) \cap Requests
      <4> SUFFICES ASSUME NEW s \in Targets
                   PROVE  MountsAt(s)' \cap Requests = MountsAt(s) \cap Requests
        OBVIOUS
      <4>1. CASE s = t
        <5>1. DOMAIN <<m>> = {1} /\ <<m>>[1] = m
          OBVIOUS
        <5> QED
          BY <3>2, <4>1, <5>1 DEF MountsAt
      <4>2. CASE s # t
        BY <3>1, <4>2 DEF MountsAt, IInv, TypeOK
      <4> QED
        BY <4>1, <4>2
    <3>4. Shown' = Shown
      BY <3>3 DEF Shown
    <3> QED
      BY <3>4
  <2> QED
    BY <2>1, <2>2, <2>3, <2>4, <2>5, <2>6 DEF Next
<1> QED
  BY <1>1, <1>2, Invariance, PTL DEF Spec, Promise, P!Spec

\* The kernel lists a mount of this driver as one that a publish with the same
\* arguments accepts, whatever flags callers may use, unless one of them is
\* not listed: no flag replaces an option the driver insists on.
LEMMA AcceptsOwnMount ==
    ASSUME NEW r \in Requests, Sane(r.h.proto, r.flags), Unlisted(r.flags) = {}
    PROVE  Acceptable(r.h, AsListed(r), r.ro, r.flags)
<1> DEFINE h == r.h
           made == Merge(Base(h), r.flags)
           m == AsListed(r)
<1>1. /\ m.source = h.source /\ m.fs = FSType(h) /\ m.root = "/" /\ m.ro = r.ro
      /\ m.options = Listed(made)
  BY DEF AsListed
<1>2. r.flags \subseteq m.options
  <2>1. r.flags \subseteq made
    BY DEF Merge, Values
  <2> QED
    BY <1>1, <2>1 DEF Unlisted, Listed
<1>3. \A o \in Base(h) : \/ o.val = ""
                        \/ o.key \notin KeysIn(r.flags)
                        => o \in made
  BY DEF Merge, Flags, Values, KeysIn
<1>4. KeysIn(r.flags) \cap (Reserved \cup ReservedFor(h.proto)) = {}
  BY DEF Sane
<1>5. {Flag("nodev"), Flag("nosuid")} \subseteq m.options
  BY <1>1, <1>3 DEF Base, Flag, Listed
<1>6. ASSUME h.proto = "smb"
      PROVE  /\ [key |-> "vers", val |-> "3.1.1"] \in m.options
             /\ h.variant = "encrypted" => Flag("seal") \in m.options
  <2>1. "vers" \notin KeysIn(r.flags)
    BY <1>4 DEF Reserved
  <2> QED
    BY <1>1, <1>3, <1>6, <2>1 DEF Base, Flag, Listed
<1>7. ASSUME h.proto = "nfs"
      PROVE  /\ {[key |-> "vers", val |-> h.variant], [key |-> "sec", val |-> "sys"], Flag("hard"),
                  [key |-> "timeo", val |-> "600"], [key |-> "retrans", val |-> "2"]} \subseteq m.options
             /\ m.options \cap {Flag("soft"), Flag("softerr")} = {}
  <2>1. {"vers", "sec", "timeo", "retrans", "soft", "softerr"} \cap KeysIn(r.flags) = {}
    BY <1>4, <1>7 DEF Reserved, ReservedFor
  <2>2. {[key |-> "vers", val |-> h.variant], [key |-> "sec", val |-> "sys"], Flag("hard"),
         [key |-> "timeo", val |-> "600"], [key |-> "retrans", val |-> "2"]} \subseteq m.options
    BY <1>1, <1>3, <1>7, <2>1 DEF Base, Flag, Listed
  <2>3. Flag("soft") \notin made /\ Flag("softerr") \notin made
    <3>1. Flag("soft") \notin r.flags /\ Flag("softerr") \notin r.flags
      BY <2>1 DEF KeysIn, Flag
    <3>2. Flag("soft") \notin Base(h) /\ Flag("softerr") \notin Base(h)
      BY <1>7 DEF Base, Flag
    <3> QED
      BY <3>1, <3>2 DEF Merge, Flags, Values
  <2> QED
    BY <1>1, <2>2, <2>3 DEF Listed
<1> QED
  BY <1>1, <1>2, <1>5, <1>6, <1>7 DEF Acceptable, SameVolume

\* A publish called again for its own mount succeeds, whatever failed or
\* restarted in between (node.go:103-118).
THEOREM RetriesAreAccepted == Spec => RetryAccepted
<1>1. ASSUME IInv, NEW w \in Workers, PublishMounted(w),
             Head(mounts[Target(w)]) = Req(w), Unlisted(Req(w).flags) = {}
      PROVE  call'[w].answer = "ok"
  <2>1. pc[w] \in Inside \ {"unlock"} /\ pc[w] \notin {"idle", "unlock"}
    BY <1>1 DEF PublishMounted, Publishing, Inside
  <2>2. PICK t \in Targets, r \in Requests :
           /\ t = Target(w) /\ r = Req(w) /\ TargetOK(t) /\ mounts[t] # <<>>
           /\ ptr[w] = targets[t] /\ ptr[w] # Null
    BY <1>1, <2>1, InsideFacts DEF PublishMounted
  <2>3. record[t] = r
    BY <1>1, <2>2, MountsAtBare DEF TargetOK, IInv
  <2>4. Memory(w) \in {Null, r}
    BY <2>2, <2>3, NodeAssumption DEF TargetOK, Memory
  <2>5. Acceptable(r.h, AsListed(r), r.ro, r.flags)
    BY <1>1, <2>2, AcceptsOwnMount DEF PublishMounted, Valid
  <2>6. Recognised(w)
    BY <1>1, <2>2, <2>3, <2>4, <2>5 DEF Recognised
  <2>7. Answer(w, "ok")
    BY <1>1, <2>6 DEF PublishMounted
  <2> QED
    BY <1>1, <2>1, <2>7, AnswerEffect DEF Answers, IInv
<1>2. IInv /\ [Next]_vars =>
        [\A w \in Workers :
           /\ PublishMounted(w)
           /\ Head(mounts[Target(w)]) = Req(w)
           /\ Unlisted(Req(w).flags) = {}
           => call'[w].answer = "ok"]_vars
  BY <1>1
<1> QED
  BY <1>2, Invariance, PTL DEF Spec, RetryAccepted

=============================================================================
