------------------------------ MODULE CsiNode ------------------------------
(***************************************************************************)
(* The CSI node service: NodePublishVolume and NodeUnpublishVolume         *)
(* (internal/csidriver/node.go), the durable record of what a target was   *)
(* published with (publish_state.go), the mount table (mount_linux.go),    *)
(* and the locks per target path (lockNodeTarget).                         *)
(*                                                                         *)
(* kubelet calls again after a timeout while the first call still runs;    *)
(* the node pod and the node itself restart at any moment; mount(8),       *)
(* umount(8) and file operations may fail before or after they took        *)
(* effect; an administrator unmounts, or mounts something of his own.      *)
(*                                                                         *)
(* A mount is known by what made it: the request of a publish, or, for a   *)
(* mount of somebody else, the record the kernel lists.  The fingerprint   *)
(* of a request is a hash of its arguments, taken to be injective: it is   *)
(* the request.  Calls refused before lockNodeTarget touch nothing and are *)
(* left out.                                                               *)
(***************************************************************************)
EXTENDS MountOptions, Sequences, FiniteSets

CONSTANTS
    Workers,    \* goroutines that serve node calls
    Targets,    \* target paths under the kubelet root
    Requests,   \* arguments of NodePublishVolume: h, ro, flags
    Foreign,    \* mounts an administrator makes, as the kernel lists them
    Locks,      \* heap addresses of nodeTargetLock objects
    Null        \* nil pointer, no owner, no call, empty fingerprint

ASSUME WorkersAssumption == IsFiniteSet(Workers)

ASSUME NodeAssumption ==
    /\ Null \notin Locks /\ Null \notin Workers /\ Null \notin Requests
    /\ Requests \cap Foreign = {}

VARIABLES
    targets,   \* Driver.targets: target -> lock object
    refs,      \* lock object -> refs
    owner,     \* lock object -> goroutine holding lock.mu
    memory,    \* lock object -> publishFingerprint
    ptr,       \* goroutine -> its targetState
    pc,        \* goroutine -> control point
    call,      \* goroutine -> its arguments and answer
    mounts,    \* target -> stack of mounts, topmost first
    record,    \* target -> durable publish record
    dirs       \* target directories that exist

locks == <<targets, refs, owner, memory, ptr>>

disk == <<mounts, record, dirs>>

vars == <<locks, pc, call, disk>>

Kinds == {"publish", "unpublish"}

Answers == {"none", "ok", "invalid", "exists", "mismatch", "error"}

Calls == [kind : Kinds, target : Targets, req : Requests, answer : Answers,
          disturbed : BOOLEAN]

\* The handler runs with the target's lock held.
Inside == {"look", "persist", "mount", "unmount", "forget", "rmdir", "release", "unlock"}

TypeOK ==
    /\ targets \in [Targets -> Locks \cup {Null}]
    /\ refs \in [Locks -> Nat]
    /\ owner \in [Locks -> Workers \cup {Null}]
    /\ memory \in [Locks -> Requests \cup {Null}]
    /\ ptr \in [Workers -> Locks \cup {Null}]
    /\ pc \in [Workers -> Inside \cup {"idle", "wait"}]
    /\ call \in [Workers -> Calls \cup {Null}]
    /\ mounts \in [Targets -> Seq(Requests \cup Foreign)]
    /\ record \in [Targets -> Requests \cup {Null}]
    /\ dirs \subseteq Targets
    /\ \A w \in Workers : pc[w] \notin {"idle", "unlock"} => call[w] \in Calls

Target(w) == call[w].target

Req(w) == call[w].req

\* targetState.publishFingerprint.
Memory(w) == memory[ptr[w]]

MountsAt(t) == {mounts[t][i] : i \in DOMAIN mounts[t]}

\* The kernel's record of a mount: NodePublishVolume's arguments of mount(8),
\* or an administrator's.
AsListed(m) ==
    IF m \in Requests
    THEN [source |-> m.h.source, fs |-> FSType(m.h), root |-> "/", ro |-> m.ro,
          options |-> Listed(Merge(Base(m.h), m.flags))]
    ELSE m

Init ==
    /\ targets = [t \in Targets |-> Null]
    /\ refs = [l \in Locks |-> 0]
    /\ owner = [l \in Locks |-> Null]
    /\ memory = [l \in Locks |-> Null]
    /\ ptr = [w \in Workers |-> Null]
    /\ pc = [w \in Workers |-> "idle"]
    /\ call = [w \in Workers |-> Null]
    /\ mounts = [t \in Targets |-> <<>>]
    /\ record = [t \in Targets |-> Null]
    /\ dirs = {}

Goto(w, p) == pc' = [pc EXCEPT ![w] = p]

\* The handler returns: its deferred unlock function runs.
Answer(w, a) ==
    /\ call' = [call EXCEPT ![w].answer = a]
    /\ Goto(w, "release")

-----------------------------------------------------------------------------
(* The lock of a target                                                    *)

\* An object no goroutine and no entry of the map refers to.
Free(l) == l \notin {targets[t] : t \in Targets} \cup {ptr[w] : w \in Workers}

\* Under targetMu: find the target's lock or allocate one, count a reference.
Reserve(w, t, l) ==
    /\ \/ targets[t] = l /\ refs' = [refs EXCEPT ![l] = @ + 1] /\ UNCHANGED memory
       \/ /\ targets[t] = Null
          /\ Free(l)
          /\ refs' = [refs EXCEPT ![l] = 1]
          /\ memory' = [memory EXCEPT ![l] = Null]
    /\ targets' = [targets EXCEPT ![t] = l]
    /\ ptr' = [ptr EXCEPT ![w] = l]

\* kubelet calls, and the handler asks for its target's lock.
Start(w) ==
    /\ pc[w] = "idle"
    /\ \E k \in Kinds, t \in Targets, r \in Requests, l \in Locks :
         /\ call' = [call EXCEPT ![w] = [kind |-> k, target |-> t, req |-> r,
                                        answer |-> "none", disturbed |-> FALSE]]
         /\ Reserve(w, t, l)
    /\ Goto(w, "wait")
    /\ UNCHANGED <<owner, disk>>

\* lock.mu.Lock() returns.
Acquire(w) ==
    /\ pc[w] = "wait"
    /\ owner[ptr[w]] = Null
    /\ owner' = [owner EXCEPT ![ptr[w]] = w]
    /\ Goto(w, "look")
    /\ UNCHANGED <<targets, refs, memory, ptr, call, disk>>

\* Faulty forms of Release: the entry dropped with users left, the entry kept
\* always, and a reference given back twice.
ReleaseWith(w, drop, count) ==
    /\ pc[w] = "release"
    /\ refs' = [refs EXCEPT ![ptr[w]] = @ - count]
    /\ targets' = IF drop THEN [targets EXCEPT ![Target(w)] = Null] ELSE targets
    /\ call' = [call EXCEPT ![w] = Null]
    /\ Goto(w, "unlock")
    /\ UNCHANGED <<owner, memory, ptr, disk>>

ReleaseDropsSharedEntry(w) == ReleaseWith(w, Memory(w) = Null, 1)

ReleaseKeepsEntry(w) == ReleaseWith(w, FALSE, 1)

ReleaseTwice(w) == ReleaseWith(w, refs[ptr[w]] = 1 /\ Memory(w) = Null, 2)

\* Under targetMu: drop the reference, and the entry unless another call uses
\* it or it remembers a published target.
Release(w) ==
    /\ pc[w] = "release"
    /\ refs' = [refs EXCEPT ![ptr[w]] = @ - 1]
    /\ targets' = IF refs[ptr[w]] = 1 /\ Memory(w) = Null /\ targets[Target(w)] = ptr[w]
                  THEN [targets EXCEPT ![Target(w)] = Null] ELSE targets
    /\ call' = [call EXCEPT ![w] = Null]
    /\ Goto(w, "unlock")
    /\ UNCHANGED <<owner, memory, ptr, disk>>

\* lock.mu.Unlock(), after the entry may be gone.
Unlock(w) ==
    /\ pc[w] = "unlock"
    /\ owner' = [owner EXCEPT ![ptr[w]] = Null]
    /\ ptr' = [ptr EXCEPT ![w] = Null]
    /\ Goto(w, "idle")
    /\ UNCHANGED <<targets, refs, memory, call, disk>>

-----------------------------------------------------------------------------
(* NodePublishVolume                                                       *)

Publishing(w, p) == pc[w] = p /\ call[w].kind = "publish"

Valid(w) == Sane(Req(w).h.proto, Req(w).flags)

\* Faulty: an error return that runs no unlock function.
PublishRefusedKeepsLock(w) ==
    /\ Publishing(w, "look")
    /\ Goto(w, "idle")
    /\ UNCHANGED <<locks, call, disk>>

\* A mount flag is refused; or this process cannot decode the volume ID, after
\* its key was rotated, or the capability does not fit: whatever the flags.
PublishRefused(w) ==
    /\ Publishing(w, "look")
    /\ Answer(w, "invalid")
    /\ UNCHANGED <<locks, disk>>

\* Faulty: the durable record is not consulted, or the memory is trusted alone.
RecognisedByOptions(w) ==
    Acceptable(Req(w).h, AsListed(Head(mounts[Target(w)])), Req(w).ro, Req(w).flags)

RecognisedByMemory(w) ==
    /\ Acceptable(Req(w).h, AsListed(Head(mounts[Target(w)])), Req(w).ro, Req(w).flags)
    /\ Memory(w) = Req(w)

\* The mount at the target is the one asked for: the kernel lists it so, the
\* durable record and the memory, if there is one, say so.
Recognised(w) ==
    /\ Acceptable(Req(w).h, AsListed(Head(mounts[Target(w)])), Req(w).ro, Req(w).flags)
    /\ record[Target(w)] = Req(w)
    /\ Memory(w) \in {Null, Req(w)}

\* Lookup finds a mount.  Only an administrator can change it before the
\* record is read, so that one step reads both.
PublishMounted(w) ==
    /\ Publishing(w, "look")
    /\ Valid(w)
    /\ mounts[Target(w)] # <<>>
    /\ \/ /\ Recognised(w)
          /\ memory' = [memory EXCEPT ![ptr[w]] = Req(w)]
          /\ Answer(w, "ok")
       \/ /\ ~Recognised(w)
          /\ UNCHANGED memory
          /\ Answer(w, "exists")
    /\ UNCHANGED <<targets, refs, owner, ptr, disk>>

\* Lookup finds none: what the target was published with before is forgotten.
\* An SMB secret may be unusable.
PublishAbsent(w) ==
    /\ Publishing(w, "look")
    /\ Valid(w)
    /\ mounts[Target(w)] = <<>>
    /\ memory' = [memory EXCEPT ![ptr[w]] = Null]
    /\ \/ Goto(w, "persist") /\ UNCHANGED call
       \/ Req(w).h.proto = "smb" /\ Answer(w, "invalid")
    /\ UNCHANGED <<targets, refs, owner, ptr, disk>>

\* Faulty: a failed write of the record is ignored.
PersistOrNot(w) ==
    /\ pc[w] = "persist"
    /\ record' \in {record, [record EXCEPT ![Target(w)] = Req(w)]}
    /\ memory' = [memory EXCEPT ![ptr[w]] = Req(w)]
    /\ Goto(w, "mount")
    /\ UNCHANGED <<targets, refs, owner, ptr, call, mounts, dirs>>

\* writePublishState: the rename replaces the record at once; an error may be
\* reported after it.
Persist(w) ==
    /\ pc[w] = "persist"
    /\ \/ /\ record' = [record EXCEPT ![Target(w)] = Req(w)]
          /\ memory' = [memory EXCEPT ![ptr[w]] = Req(w)]
          /\ Goto(w, "mount")
          /\ UNCHANGED call
       \/ /\ record' \in {record, [record EXCEPT ![Target(w)] = Req(w)]}
          /\ UNCHANGED memory
          /\ Answer(w, "error")
    /\ UNCHANGED <<targets, refs, owner, ptr, mounts, dirs>>

\* Mount: MkdirAll and mount(8), which ends at the latest when kubelet's
\* deadline kills it, and may have mounted when it reports an error.
Mount(w) ==
    /\ pc[w] = "mount"
    /\ \/ /\ mounts' = [mounts EXCEPT ![Target(w)] = <<Req(w)>> \o @]
          /\ dirs' = dirs \cup {Target(w)}
          /\ \E a \in {"ok", "error"} : Answer(w, a)
       \/ /\ dirs' \in {dirs, dirs \cup {Target(w)}}
          /\ Answer(w, "error")
          /\ UNCHANGED mounts
    /\ UNCHANGED <<locks, record>>

-----------------------------------------------------------------------------
(* NodeUnpublishVolume                                                     *)

Unpublishing(w) == pc[w] = "look" /\ call[w].kind = "unpublish"

\* Whose mount it is can be told only when the volume ID decodes; otherwise
\* whatever is mounted comes off.
UnpublishMounted(w) ==
    /\ Unpublishing(w)
    /\ mounts[Target(w)] # <<>>
    /\ \/ Goto(w, "unmount") /\ UNCHANGED call
       \/ /\ ~SameVolume(Req(w).h, AsListed(Head(mounts[Target(w)])))
          /\ Answer(w, "mismatch")
    /\ UNCHANGED <<locks, disk>>

UnpublishAbsent(w) ==
    /\ Unpublishing(w)
    /\ mounts[Target(w)] = <<>>
    /\ Goto(w, "forget")
    /\ UNCHANGED <<locks, call, disk>>

\* Faulty: a failed umount(8) is taken as done.
UnmountOrNot(w) ==
    /\ pc[w] = "unmount"
    /\ mounts' \in {mounts, [mounts EXCEPT ![Target(w)] = IF @ = <<>> THEN @ ELSE Tail(@)]}
    /\ Goto(w, "forget")
    /\ UNCHANGED <<locks, call, record, dirs>>

\* umount(8) takes the topmost mount; it fails on a target with none, and may
\* have unmounted when it reports an error.
Unmount(w) ==
    /\ pc[w] = "unmount"
    /\ \/ /\ mounts[Target(w)] # <<>>
          /\ mounts' = [mounts EXCEPT ![Target(w)] = Tail(@)]
          /\ \/ Goto(w, "forget") /\ UNCHANGED call
             \/ Answer(w, "error")
       \/ /\ Answer(w, "error")
          /\ UNCHANGED mounts
    /\ UNCHANGED <<locks, record, dirs>>

\* removePublishState, then the memory; an error may be reported after the
\* record is gone.
Forget(w) ==
    /\ pc[w] = "forget"
    /\ \/ /\ record' = [record EXCEPT ![Target(w)] = Null]
          /\ memory' = [memory EXCEPT ![ptr[w]] = Null]
          /\ Goto(w, "rmdir")
          /\ UNCHANGED call
       \/ /\ record' \in {record, [record EXCEPT ![Target(w)] = Null]}
          /\ UNCHANGED memory
          /\ Answer(w, "error")
    /\ UNCHANGED <<targets, refs, owner, ptr, mounts, dirs>>

\* os.Remove of the target: not when something is mounted there, and a
\* failure is only logged.
RemoveTarget(w) ==
    /\ pc[w] = "rmdir"
    /\ \/ mounts[Target(w)] = <<>> /\ dirs' = dirs \ {Target(w)}
       \/ UNCHANGED dirs
    /\ Answer(w, "ok")
    /\ UNCHANGED <<locks, mounts, record>>

\* The mount table cannot be read or is ambiguous.
LookFails(w) ==
    /\ pc[w] = "look"
    /\ call[w].kind = "publish" => Valid(w)
    /\ Answer(w, "error")
    /\ UNCHANGED <<locks, disk>>

-----------------------------------------------------------------------------
(* Around the driver                                                       *)

\* The node pod restarts: what is in memory is gone, and with the container
\* any mount(8) it was running; mounts, records and directories stay.
Crash ==
    /\ targets' = [t \in Targets |-> Null]
    /\ refs' = [l \in Locks |-> 0]
    /\ owner' = [l \in Locks |-> Null]
    /\ memory' = [l \in Locks |-> Null]
    /\ ptr' = [w \in Workers |-> Null]
    /\ pc' = [w \in Workers |-> "idle"]
    /\ call' = [w \in Workers |-> Null]

PodRestarts == Crash /\ UNCHANGED disk

\* The node restarts: the mount table is empty, the files of kubelet stay.
NodeRestarts ==
    /\ Crash
    /\ mounts' = [t \in Targets |-> <<>>]
    /\ UNCHANGED <<record, dirs>>

\* Calls that run inside the lock of t while an administrator acts on it.
Disturb(t) ==
    call' = [w \in Workers |-> IF pc[w] \in Inside \ {"unlock"} /\ Target(w) = t
                               THEN [call[w] EXCEPT !.disturbed = TRUE] ELSE call[w]]

AdminUnmounts(t) ==
    /\ mounts[t] # <<>>
    /\ mounts' = [mounts EXCEPT ![t] = Tail(@)]
    /\ Disturb(t)
    /\ UNCHANGED <<locks, pc, record, dirs>>

\* Assumed not to happen on top of a mount: NodeUnpublishVolume takes off one.
AdminMounts(t) ==
    /\ t \in dirs
    /\ mounts[t] = <<>>
    /\ \E m \in Foreign : mounts' = [mounts EXCEPT ![t] = <<m>>]
    /\ Disturb(t)
    /\ UNCHANGED <<locks, pc, record, dirs>>

Handle(w) ==
    \/ PublishRefused(w) \/ PublishMounted(w) \/ PublishAbsent(w) \/ Persist(w) \/ Mount(w)
    \/ UnpublishMounted(w) \/ UnpublishAbsent(w) \/ Unmount(w) \/ Forget(w) \/ RemoveTarget(w)
    \/ LookFails(w)

Step(w) == Start(w) \/ Acquire(w) \/ Handle(w) \/ Release(w) \/ Unlock(w)

Next == \/ \E w \in Workers : Step(w)
        \/ PodRestarts
        \/ NodeRestarts
        \/ \E t \in Targets : AdminUnmounts(t) \/ AdminMounts(t)

Spec == Init /\ [][Next]_vars

(***************************************************************************)
(* Calls need not arrive; a handler runs on, mount(8) and umount(8) ending *)
(* with kubelet's deadline, and sync.Mutex hands the lock to a starved     *)
(* waiter.                                                                 *)
(***************************************************************************)
Fairness ==
    \A w \in Workers :
        /\ SF_vars(Acquire(w))
        /\ WF_vars(Handle(w))
        /\ WF_vars(Release(w))
        /\ WF_vars(Unlock(w))

FairSpec == Spec /\ Fairness

-----------------------------------------------------------------------------
(* Properties                                                              *)

\* Two calls never work on one target at the same time, although the unlock
\* function drops the map entry before it unlocks the mutex, and a new call
\* then locks another object (node.go:309-316).
TargetsExclusive ==
    \A v, w \in Workers :
        /\ v # w
        /\ {pc[v], pc[w]} \subseteq Inside \ {"unlock"}
        => Target(v) # Target(w)

\* The calls counted in refs for a target.
Users(t) == {w \in Workers : pc[w] \in {"wait"} \cup (Inside \ {"unlock"}) /\ Target(w) = t}

\* The map keeps an entry exactly while a call uses it or the target is
\* published, so that it neither grows with every target ever seen nor loses
\* what it remembers; and it never contradicts the durable record
\* (node.go:312, node.go:114).
MapKeepsMemory ==
    /\ \A t \in Targets :
         IF targets[t] = Null THEN Users(t) = {}
         ELSE /\ Users(t) # {} \/ memory[targets[t]] # Null
              /\ \A w \in Users(t) : ptr[w] = targets[t]
              /\ record[t] # Null => memory[targets[t]] \in {Null, record[t]}
    /\ \A l \in Locks : memory[l] # Null => \E t \in Targets : targets[t] = l

\* A volume this driver has mounted has the durable record of the arguments it
\* was mounted with, whatever call failed half way and whenever the pod
\* stopped: without it no later publish could be told to be the same
\* (node.go:136-143, node.go:191-195).
RecordCoversMount ==
    \A t \in Targets : \A m \in MountsAt(t) : m \in Requests => record[t] = m

\* A publish that is called again for its own mount succeeds, also in a new
\* pod, unless it asks for an option the kernel does not list (node.go:103-118).
RetryAccepted ==
    [][\A w \in Workers :
         /\ PublishMounted(w)
         /\ Head(mounts[Target(w)]) = Req(w)
         /\ Unlisted(Req(w).flags) = {}
         => call'[w].answer = "ok"]_vars

AnswerHolds(w) ==
    LET t == Target(w)
    IN  (pc[w] = "release" /\ call[w].answer = "ok" /\ ~call[w].disturbed)
        => IF call[w].kind = "publish"
           THEN /\ mounts[t] # <<>>
                /\ record[t] = Req(w)
                /\ \/ Head(mounts[t]) = Req(w)
                   \/ /\ Head(mounts[t]) \in Foreign
                      /\ Acceptable(Req(w).h, Head(mounts[t]), Req(w).ro, Req(w).flags)
           ELSE record[t] = Null /\ MountsAt(t) \cap Requests = {}

\* What a call answers is so: after a publish the target shows the volume,
\* mounted by this request or recorded for it and mounted as it asks; after an
\* unpublish nothing of this driver is mounted or recorded there
\* (node.go:118, node.go:146, node.go:203).
AnswersHold == \A w \in Workers : AnswerHolds(w)

\* The requests whose mounts a target shows.
Shown == [t \in Targets |-> MountsAt(t) \cap Requests]

P == INSTANCE NodePromise WITH shown <- Shown

\* A target never shows two publishes, nor one publish's mount on top of
\* another's, however calls overlap and fail (node.go:99-143).
Promise == P!Spec

\* Every call that kubelet makes is answered, whatever other calls wait for
\* the same target, unless the pod restarts (node.go:294-317).
EveryCallReturns == \A w \in Workers : (pc[w] # "idle") ~> (pc[w] = "idle")

=============================================================================
