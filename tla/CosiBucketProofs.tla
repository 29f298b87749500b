--------------------------- MODULE CosiBucketProofs ---------------------------
(***************************************************************************)
(* Proofs about CosiBucket, for any number of workers, paths, classes,     *)
(* requests and faults.                                                    *)
(*                                                                         *)
(* Base is the inductive invariant.  It says that Core is in order         *)
(* (CoreOK), that what callers were told is true (HistOK), and what is     *)
(* known of each write under way (MsgOK) and of each handler at its        *)
(* control point (LocalOK).  Writes carry no identity of what they are     *)
(* meant for except an ETag or a file ID, and may arrive long after their  *)
(* handler has gone; what makes them harmless must therefore be stable:    *)
(*   - Harmless: a policy write is bound to the ETag of a policy without   *)
(*     statements, or, unconditional, to a bucket that the call did not    *)
(*     find with a policy when it came;                                    *)
(*   - Droppable: the bucket registered now is the one that the handle of  *)
(*     a DELETE names, or it or its directory came after the call;         *)
(*   - a tree-delete job is for a directory that a purge was asked for.    *)
(* Evolves collects what no step undoes, because Core hands out a number   *)
(* once: a registration keeps its path until it goes, a policy that        *)
(* changes has a new ETag, a path keeps its directory, loses it or has a   *)
(* new one.  From it follows once, in LocalStays and MsgStays, that a step *)
(* of one actor keeps what the others know, and each action is left with   *)
(* what it does itself.  ReadyIsConfigured, the last theorem, needs a      *)
(* second invariant on top of Base: Config, defined where it is used.      *)
(***************************************************************************)
EXTENDS CosiBucket, TLAPS

\* Control points, and the values of Core's fields.
Points == {"idle"} \cup CreatePoints \cup DeletePoints

Versionings == {"Unversioned", "Enabled", "Suspended"}

Policies == {"open", "none", "grants"}

\* Handles and calls, with numbers of any size.
Handles == [path : Paths, id : Nat, managed : BOOLEAN]

Calls == [kind : {"none", "create", "import", "delete"}, class : Classes, handle : Handles,
          ctx : {"purge", "root", "keep"}, since : Nat, known : SUBSET Nat]

\* The local variables of a handler.
Locals == [pc : Points, call : Calls,
           cur : [path : Paths, versioning : Versionings, lock : BOOLEAN],
           id : Nat, etag : Nat, try : Nat, calm : BOOLEAN]

\* Writes to Core, and the bucket as Core keeps it.
Ops == {"post", "policy", "version", "lock", "quota", "limit", "abort", "drop", "tree"}

Writes == [op : Ops, call : Calls, id : Nat, etag : Nat, flag : BOOLEAN]

Buckets == [reg : Nat, path : Paths, policy : Policies, etag : Nat,
            versioning : Versionings, lock : BOOLEAN, uploads : BOOLEAN]

\* The variables of Core and the history have their types.
CoreTypes ==
    /\ next \in Nat \ {0}
    /\ bucket \in Buckets
    /\ files \subseteq [id : Nat, path : Paths \cup {"elsewhere"}, full : BOOLEAN]
    /\ quotas \subseteq [id : Nat, limit : Nat, etag : Nat]
    /\ jobs \subseteq [id : Nat, aborted : BOOLEAN]
    /\ hist \in [handles : SUBSET Handles,
                 ready : SUBSET [call : Calls, reg : Nat, id : Nat],
                 deleted : SUBSET [handle : Handles, purged : BOOLEAN], purged : SUBSET Nat]

\* Numbers of Core have been handed out, and each has one meaning.
CoreOK ==
    /\ bucket.reg < next /\ bucket.etag < next
    /\ ~Registered => bucket.policy = "none" /\ bucket.etag = 0
    /\ Registered => bucket.etag # 0
    /\ \A f \in files : f.id # 0 /\ f.id < next
    /\ \A f, g \in files : f # g => f.id # g.id /\ (f.path = g.path => f.path = "elsewhere")
    /\ \A q, r \in quotas : q.id = r.id => q = r
    /\ \A j, k \in jobs : j.id = k.id => j = k

\* The bucket that the handle names is registered, on the directory it names.
InPlace(h) == Registered /\ bucket.path = h.path /\ At(h.path) = h.id

\* The bucket of this handle is unregistered, and its directory gone.
Done(h, purged) ==
    h.id # 0 => ~InPlace(h) /\ (purged => At(h.path) # h.id)

\* What callers were told is true: handles have numbers that Core handed out, a job was
\* asked for by a purge, and what was reported deleted is.
HistOK ==
    /\ LegacyHandle \in hist.handles
    /\ \A h \in hist.handles : h.id < next /\ (h.managed => h.id # 0)
    /\ \A j \in jobs : j.id # 0 /\ j.id < next /\ j.id \in hist.purged
    /\ \A d \in hist.deleted : d.handle \in hist.handles /\ Done(d.handle, d.purged)

\* A registration that had a policy when the call came has one until it goes.
KnownOK(c) ==
    \A r \in c.known : r # 0 /\ r < next /\ (r = bucket.reg => bucket.policy # "open")

\* A request names a handle that was handed out; a purge names one that proves the
\* driver made the directory.
CallOK(c) ==
    /\ c.handle \in hist.handles /\ KnownOK(c) /\ c.since <= next
    /\ c.ctx = "purge" => c.handle.managed /\ c.handle.id \in hist.purged

\* A policy write with this ETag removes no statement of a known bucket.
Harmless(c, etag) ==
    /\ etag = 0 => bucket.reg \notin c.known
    /\ etag # 0 => etag < next /\ (bucket.etag = etag => bucket.policy # "grants")

\* A DELETE for this call unregisters no bucket it may not.
Droppable(c) == Registered => MayDrop(c)

\* What is known of a write under way, however late it arrives.
MsgOK(m) ==
    /\ CallOK(m.call) /\ m.id < next
    /\ m.op = "policy" => Harmless(m.call, m.etag)
    /\ m.op = "drop" => Droppable(m.call)
    /\ m.op = "tree" => m.id # 0 /\ m.id \in hist.purged

\* What is known at the points of DriverCreateBucket.
CreateOK(k) ==
    /\ k.pc \in {"cGet", "cPost", "cReget", "cPostOpen", "cLockDown"} => k.try = 1 /\ k.etag = 0
    /\ k.pc = "cLockDown" => bucket.reg \notin k.call.known
    /\ k.pc \in {"cPolicy", "cPutPolicy"} => k.try \in 1..PolicyAttempts
    /\ k.pc = "cPutPolicy" => Harmless(k.call, k.etag)
    /\ k.pc \in {"cQuota", "cQuotaGet", "cQuotaPut"} => k.id # 0

\* What is known at the points of DriverDeleteBucket.  The directory that a purge
\* is about is the one of the handle, or that one is gone.
DeleteOK(k) ==
    LET h == k.call.handle IN
    /\ k.pc \in {"dGet", "dResume", "dRoot"} => k.id = 0 /\ k.try = 1
    /\ k.pc = "dResume" => k.call.ctx = "purge" /\ ~InPlace(h)
    /\ k.pc = "dRoot" =>
         /\ h.id # 0
         /\ Registered /\ bucket.reg < k.call.since => bucket.path = h.path
    /\ k.pc \in {"dAbort", "dDrop"} =>
         /\ k.try \in 1..2 /\ Droppable(k.call)
         /\ k.id # 0 => k.id = h.id /\ k.call.ctx = "purge"
         /\ k.id = 0 /\ k.call.ctx = "purge" => At(h.path) # h.id
    /\ k.pc \in {"dJob", "dTree", "dRejob", "dWait"} =>
         /\ k.id # 0 /\ k.id = h.id /\ k.call.ctx = "purge" /\ ~InPlace(h)
    /\ k.pc = "dWait" => JobOf(k.id) # {} \/ ~Exists(k.id)
    /\ k.pc = "dDone" => Done(h, k.call.ctx = "purge")

\* What is known of the handler with these local variables.
LocalOK(k) == CallOK(k.call) /\ k.id < next /\ CreateOK(k) /\ DeleteOK(k)

\* The inductive invariant.
Base ==
    /\ CoreTypes
    /\ CoreOK
    /\ HistOK
    /\ late \subseteq Writes /\ \A m \in late : MsgOK(m)
    /\ work \in [Workers -> Locals] /\ \A w \in Workers : LocalOK(work[w])
    /\ count \in [requests : Nat, faults : Nat]

\* What no step undoes.
Evolves ==
    /\ next' >= next
    /\ \/ /\ bucket'.reg = bucket.reg /\ bucket'.path = bucket.path
          /\ \/ bucket'.etag = bucket.etag /\ bucket'.policy = bucket.policy
             \/ bucket'.etag >= next /\ bucket'.policy # "open"
       \/ ~Registered'
       \/ ~Registered /\ bucket'.reg >= next /\ bucket'.etag >= next /\ At(bucket.path)' >= next
    /\ \A p \in Paths : At(p)' \in {At(p), 0} \/ At(p)' >= next
    /\ \A i \in Nat : Exists(i)' => Exists(i) \/ i >= next
    /\ \A i \in Nat : JobOf(i) # {} => JobOf(i)' # {} \/ ~Exists(i)'
    /\ hist.handles \subseteq hist'.handles
    /\ hist.purged \subseteq hist'.purged

\* The part of the invariant that is about Core and the history alone.
World == CoreTypes /\ CoreOK /\ HistOK

\* A worker without a call has well-typed local variables.
LEMMA IdleType == Idle \in Locals /\ Idle.pc = "idle" /\ Idle.call = NoCall
<1>1. (CHOOSE c \in Classes : TRUE) \in Classes
  BY BucketAssumption
<1>2. LegacyHandle \in Handles
  BY BucketAssumption DEF LegacyHandle, Handles
<1>3. NoCall \in Calls
  BY <1>1, <1>2 DEF NoCall, Calls
<1>4. Facts(NoBucket) \in [path : Paths, versioning : Versionings, lock : BOOLEAN]
  BY BucketAssumption DEF Facts, NoBucket, Versionings
<1> QED
  BY <1>3, <1>4 DEF Idle, Locals, Points

\* The directory at a path is found by its file ID.
LEMMA AtIs ==
    ASSUME CoreOK, NEW f \in files, f.path \in Paths
    PROVE  At(f.path) = f.id
<1>1. \A g \in files : g.path = f.path => g = f
  BY BucketAssumption DEF CoreOK
<1> QED
  BY <1>1 DEF At

\* What is found at a path exists.
LEMMA AtSome ==
    ASSUME CoreTypes, NEW p
    PROVE  /\ At(p) \in Nat
           /\ At(p) # 0 => \E f \in files : f.path = p /\ f.id = At(p)
           /\ (\A f \in files : f.path # p) => At(p) = 0
<1>1. CASE \E f \in files : f.path = p
  <2>1. At(p) = (CHOOSE f \in files : f.path = p).id
    BY <1>1 DEF At
  <2>2. (CHOOSE f \in files : f.path = p) \in files /\ (CHOOSE f \in files : f.path = p).path = p
    BY <1>1
  <2> QED
    BY <1>1, <2>1, <2>2 DEF CoreTypes
<1>2. CASE ~\E f \in files : f.path = p
  BY <1>2 DEF At
<1> QED
  BY <1>1, <1>2

\* What Core finds at a path is the identity of the one directory there.
AtTypes ==
    \A p \in Paths :
        /\ At(p) \in Nat
        /\ At(p) # 0 => \E f \in files : f.path = p /\ f.id = At(p)
        /\ \A f \in files : f.path = p => At(p) = f.id

\* It does so in every state, and hence after the step.
LEMMA AtTypesNext ==
    (CoreTypes /\ CoreOK => AtTypes) /\ (CoreTypes' /\ CoreOK' => AtTypes')
<1>1. CoreTypes /\ CoreOK => AtTypes
  BY AtSome, AtIs DEF AtTypes
<1> QED
  BY <1>1, PTL

\* If only directories with new numbers come to a path, the path keeps what it
\* had, loses it or has something new.
LEMMA AtFollows ==
    ASSUME CoreTypes, CoreOK, CoreTypes', CoreOK', NEW p \in Paths,
           \A f \in files' : f.path = p =>
             f.id >= next \/ \E g \in files : g.path = p /\ g.id = f.id
    PROVE  At(p)' \in {At(p), 0} \/ At(p)' >= next
<1>1. AtTypes /\ AtTypes'
  BY AtTypesNext
<1>2. CASE At(p)' = 0
  BY <1>2
<1>3. CASE At(p)' # 0
  <2>1. PICK f \in files' : f.path = p /\ f.id = At(p)'
    BY <1>1, <1>3 DEF AtTypes
  <2>2. CASE f.id >= next
    BY <2>1, <2>2
  <2>3. CASE \E g \in files : g.path = p /\ g.id = f.id
    BY <1>1, <2>1, <2>3 DEF AtTypes
  <2> QED
    BY <2>1, <2>2, <2>3
<1> QED
  BY <1>2, <1>3

\* A bucket and its directory that are gone do not come back.
LEMMA InPlaceStays ==
    ASSUME World, CoreTypes', CoreOK', Evolves, NEW h \in Handles, h.id # 0, h.id < next, ~InPlace(h)
    PROVE  ~InPlace(h)'
<1>1. /\ h.id \in Nat /\ next \in Nat /\ At(h.path) \in Nat /\ At(h.path)' \in Nat
      /\ bucket.reg \in Nat /\ bucket'.reg \in Nat /\ h.path \in Paths
  BY AtTypesNext DEF AtTypes, World, CoreTypes, Buckets, Handles
<1> SUFFICES ASSUME InPlace(h)' PROVE FALSE
  OBVIOUS
<1>2. Registered' /\ bucket'.path = h.path /\ At(h.path)' = h.id
  BY DEF InPlace
<1>3. At(h.path) = h.id
  BY <1>1, <1>2 DEF Evolves
<1>4. At(bucket.path)' = h.id
  BY <1>2
<1>5. Registered /\ bucket.path = h.path
  BY <1>1, <1>2, <1>4 DEF Evolves, Registered
<1> QED
  BY <1>3, <1>5 DEF InPlace

\* A deletion that is done stays done.
LEMMA DoneStays ==
    ASSUME World, CoreTypes', CoreOK', Evolves, NEW h \in Handles, h.id < next, NEW purged \in BOOLEAN,
           Done(h, purged)
    PROVE  Done(h, purged)'
<1>1. h.id # 0 => ~InPlace(h)'
  BY InPlaceStays DEF Done
<1>2. h.id # 0 /\ purged => At(h.path)' # h.id
  <2>1. /\ h.id \in Nat /\ next \in Nat /\ At(h.path) \in Nat /\ At(h.path)' \in Nat
        /\ h.path \in Paths
    BY AtTypesNext DEF AtTypes, World, CoreTypes, Handles
  <2>2. h.id # 0 /\ purged => At(h.path) # h.id
    BY DEF Done
  <2> QED
    BY <2>1, <2>2 DEF Evolves
<1> QED
  BY <1>1, <1>2 DEF Done

\* What a call may unregister it may unregister later.
LEMMA DroppableStays ==
    ASSUME World, CoreTypes', CoreOK', Evolves, NEW c \in Calls, c.since <= next, Droppable(c)
    PROVE  Droppable(c)'
<1>1. /\ c.since \in Nat /\ next \in Nat /\ bucket.reg \in Nat /\ bucket'.reg \in Nat
      /\ c.handle.path \in Paths /\ bucket.path \in Paths /\ bucket'.path \in Paths
  BY DEF World, CoreTypes, Buckets, Calls, Handles
<1> SUFFICES ASSUME Registered', c.handle.id # 0 PROVE MayDrop(c)'
  BY DEF Droppable, MayDrop
<1>2. CASE bucket'.reg >= next
  BY <1>1, <1>2 DEF MayDrop
<1>3. CASE bucket'.reg < next
  <2>1. Registered /\ bucket'.reg = bucket.reg /\ bucket'.path = bucket.path
    BY <1>1, <1>3 DEF Evolves, Registered
  <2>2. MayDrop(c)
    BY <2>1 DEF Droppable
  <2>3. CASE bucket.reg >= c.since
    BY <1>1, <2>1, <2>3 DEF MayDrop
  <2>4. CASE ~(bucket.reg >= c.since)
    <3>1. /\ bucket.path = c.handle.path
          /\ At(bucket.path) = c.handle.id \/ At(bucket.path) = 0 \/ At(bucket.path) >= c.since
      BY <2>2, <2>4 DEF MayDrop
    <3>2. PICK p \in Paths : p = bucket.path /\ p = bucket'.path
      BY <1>1, <2>1
    <3>3. At(p)' \in {At(p), 0} \/ At(p)' >= next
      BY DEF Evolves
    <3>5. At(p) \in Nat /\ At(p)' \in Nat
      BY AtTypesNext DEF World, AtTypes
    <3>4. \/ At(p)' = c.handle.id \/ At(p)' = 0 \/ At(p)' >= c.since
      BY <1>1, <3>1, <3>2, <3>3, <3>5
    <3> QED
      BY <2>1, <3>1, <3>2, <3>4 DEF MayDrop
  <2> QED
    BY <2>3, <2>4
<1> QED
  BY <1>1, <1>2, <1>3

\* A policy write that does no harm does none later.
LEMMA HarmlessStays ==
    ASSUME World, CoreTypes', CoreOK', Evolves, NEW c \in Calls, KnownOK(c),
           NEW etag \in Nat, Harmless(c, etag)
    PROVE  Harmless(c, etag)'
<1>1. /\ next \in Nat /\ bucket.reg \in Nat /\ bucket'.reg \in Nat /\ bucket.etag \in Nat
      /\ bucket'.etag \in Nat /\ next' \in Nat
      /\ next' >= next
  BY DEF World, CoreTypes, Buckets, Evolves
<1>2. \A r \in c.known : r # 0 /\ r < next /\ r \in Nat
  BY DEF KnownOK, Calls
<1>3. ~Registered' => bucket'.etag = 0 /\ bucket'.reg = 0
  BY DEF CoreOK, Registered
<1>4. etag = 0 => bucket'.reg \notin c.known
  <2> SUFFICES ASSUME etag = 0 PROVE bucket'.reg \notin c.known
    OBVIOUS
  <2>1. bucket.reg \notin c.known
    BY DEF Harmless
  <2> QED
    BY <1>1, <1>2, <1>3, <2>1 DEF Evolves
<1>5. etag # 0 => etag < next' /\ (bucket'.etag = etag => bucket'.policy # "grants")
  <2> SUFFICES ASSUME etag # 0
               PROVE  etag < next' /\ (bucket'.etag = etag => bucket'.policy # "grants")
    OBVIOUS
  <2>1. etag < next /\ (bucket.etag = etag => bucket.policy # "grants")
    BY DEF Harmless
  <2> QED
    BY <1>1, <1>3, <2>1 DEF Evolves
<1> QED
  BY <1>4, <1>5 DEF Harmless

\* What is true of a call stays so.
LEMMA CallStays ==
    ASSUME World, CoreTypes', CoreOK', Evolves, NEW c \in Calls, CallOK(c)
    PROVE  CallOK(c)'
<1>1. c.since \in Nat /\ next \in Nat /\ next' \in Nat /\ next' >= next /\ c.known \subseteq Nat
  BY DEF World, CoreTypes, Calls, Evolves
<1>2. /\ bucket.reg \in Nat /\ bucket'.reg \in Nat
      /\ (~Registered' => bucket'.reg = 0)
  BY DEF World, CoreTypes, Buckets, Registered
<1>3. ASSUME NEW r \in c.known
      PROVE  r # 0 /\ r < next' /\ (r = bucket'.reg => bucket'.policy # "open")
  <2>1. r \in Nat /\ r # 0 /\ r < next /\ (r = bucket.reg => bucket.policy # "open")
    BY <1>1 DEF CallOK, KnownOK
  <2>2. r = bucket'.reg => r = bucket.reg
    BY <1>1, <1>2, <2>1 DEF Evolves
  <2>3. r = bucket'.reg => bucket'.policy # "open"
    BY <1>1, <1>2, <2>1, <2>2 DEF Evolves
  <2> QED
    BY <1>1, <2>1, <2>3
<1>4. KnownOK(c)'
  BY <1>3 DEF KnownOK
<1> QED
  BY <1>1, <1>4 DEF CallOK, Evolves

\* What is true of a write on its way stays so.
LEMMA MsgStays ==
    ASSUME World, CoreTypes', CoreOK', Evolves, NEW m \in Writes, MsgOK(m)
    PROVE  MsgOK(m)'
<1>1. /\ m.call \in Calls /\ m.id \in Nat /\ m.etag \in Nat /\ next \in Nat /\ next' \in Nat
      /\ next' >= next
  BY DEF World, CoreTypes, Writes, Evolves
<1>2. CallOK(m.call) /\ KnownOK(m.call) /\ m.call.since <= next
  BY DEF MsgOK, CallOK
<1>3. CallOK(m.call)'
  BY <1>1, <1>2, CallStays
<1>4. m.op = "policy" => Harmless(m.call, m.etag)'
  BY <1>1, <1>2, HarmlessStays DEF MsgOK
<1>5. m.op = "drop" => Droppable(m.call)'
  BY <1>1, <1>2, DroppableStays DEF MsgOK
<1> QED
  BY <1>1, <1>3, <1>4, <1>5 DEF MsgOK, Evolves

\* What is true of a worker's local variables stays so.
LEMMA LocalStays ==
    ASSUME World, CoreTypes', CoreOK', Evolves, NEW k \in Locals, LocalOK(k)
    PROVE  LocalOK(k)'
<1>1. /\ k.call \in Calls /\ k.id \in Nat /\ k.etag \in Nat /\ next \in Nat /\ next' \in Nat
      /\ next' >= next /\ k.call.handle \in Handles /\ k.call.handle.id \in Nat
      /\ k.call.since \in Nat /\ k.call.handle.path \in Paths
      /\ bucket.reg \in Nat /\ bucket'.reg \in Nat
  BY DEF World, CoreTypes, Locals, Evolves, Calls, Handles, Buckets
<1>2. /\ CallOK(k.call) /\ KnownOK(k.call) /\ k.call.since <= next
      /\ k.call.handle \in hist.handles /\ k.id < next
  BY DEF LocalOK, CallOK
<1>3. /\ k.call.handle.id < next
      /\ k.call.ctx = "purge" => k.call.handle.id # 0
  BY <1>1, <1>2 DEF World, HistOK, CallOK
<1>4. CallOK(k.call)' /\ k.id < next'
  BY <1>1, <1>2, CallStays
<1>5. CreateOK(k)'
  <2>1. k.pc = "cLockDown" => bucket'.reg \notin k.call.known
    <3> SUFFICES ASSUME k.pc = "cLockDown" PROVE bucket'.reg \notin k.call.known
      OBVIOUS
    <3>1. Harmless(k.call, 0)
      BY DEF LocalOK, CreateOK, Harmless
    <3>2. Harmless(k.call, 0)'
      BY <1>1, <1>2, <3>1, HarmlessStays
    <3> QED
      BY <3>2 DEF Harmless
  <2>2. k.pc = "cPutPolicy" => Harmless(k.call, k.etag)'
    BY <1>1, <1>2, HarmlessStays DEF LocalOK, CreateOK
  <2> QED
    BY <2>1, <2>2 DEF LocalOK, CreateOK
<1>6. DeleteOK(k)'
  <2> DEFINE h == k.call.handle
  <2>1. h.id # 0 /\ ~InPlace(h) => ~InPlace(h)'
    BY <1>1, <1>3, InPlaceStays
  <2>2. h.id # 0 /\ At(h.path) # h.id => (At(h.path) # h.id)'
    <3>1. At(h.path) \in Nat /\ At(h.path)' \in Nat
      BY <1>1, AtTypesNext DEF World, AtTypes
    <3> QED
      BY <1>1, <1>3, <3>1 DEF Evolves
  <2>3. k.pc \in {"dAbort", "dDrop"} => Droppable(k.call)'
    BY <1>1, <1>2, DroppableStays DEF LocalOK, DeleteOK
  <2>4. k.pc = "dRoot" => (Registered /\ bucket.reg < k.call.since => bucket.path = h.path)'
    BY <1>1, <1>2 DEF LocalOK, DeleteOK, Evolves, Registered
  <2>5. (JobOf(k.id) # {} \/ ~Exists(k.id)) => (JobOf(k.id) # {} \/ ~Exists(k.id))'
    BY <1>1, <1>2 DEF Evolves
  <2>6. k.pc = "dDone" => Done(h, k.call.ctx = "purge")'
    <3>1. PICK b \in BOOLEAN : b = (k.call.ctx = "purge")
      BY Zenon
    <3>2. Done(h, b) => Done(h, b)'
      BY <1>1, <1>3, DoneStays
    <3> QED
      BY <3>1, <3>2 DEF LocalOK, DeleteOK
  <2>7. k.pc = "dResume" => k.call.ctx = "purge" /\ ~InPlace(h)'
    BY <1>3, <2>1 DEF LocalOK, DeleteOK
  <2>8. k.pc \in {"dAbort", "dDrop"} =>
         /\ k.try \in 1..2
         /\ k.id # 0 => k.id = h.id /\ k.call.ctx = "purge"
         /\ k.id = 0 /\ k.call.ctx = "purge" => (At(h.path) # h.id)'
    BY <1>3, <2>2 DEF LocalOK, DeleteOK
  <2>9. k.pc \in {"dJob", "dTree", "dRejob", "dWait"} =>
         /\ k.id # 0 /\ k.id = h.id /\ k.call.ctx = "purge" /\ ~InPlace(h)'
    BY <1>3, <2>1 DEF LocalOK, DeleteOK
  <2>10. k.pc = "dWait" => (JobOf(k.id) # {} \/ ~Exists(k.id))'
    BY <2>5 DEF LocalOK, DeleteOK
  <2>11. k.pc \in {"dGet", "dResume", "dRoot"} => k.id = 0 /\ k.try = 1
    BY DEF LocalOK, DeleteOK
  <2>12. k.pc = "dRoot" => h.id # 0
    BY DEF LocalOK, DeleteOK
  <2> QED
    BY <2>3, <2>4, <2>6, <2>7, <2>8, <2>9, <2>10, <2>11, <2>12 DEF DeleteOK
<1> QED
  BY <1>4, <1>5, <1>6 DEF LocalOK

\* The history stays true of Core, and what is added to it is.
LEMMA HistGrows ==
    ASSUME World, CoreTypes', CoreOK', Evolves,
           \A j \in jobs' : j.id # 0 /\ j.id < next /\ j.id \in hist'.purged,
           \A h \in hist'.handles : h \in hist.handles \/ (h.id < next /\ (h.managed => h.id # 0)),
           \A d \in hist'.deleted :
             d \in hist.deleted \/ (d.handle \in hist.handles /\ Done(d.handle, d.purged))
    PROVE  HistOK'
<1>1. /\ next \in Nat /\ next' \in Nat /\ next' >= next /\ bucket.reg \in Nat /\ bucket'.reg \in Nat
      /\ bucket'.reg < next'
      /\ hist.handles \subseteq Handles /\ hist'.handles \subseteq Handles
      /\ hist'.deleted \subseteq [handle : Handles, purged : BOOLEAN]
      /\ hist.handles \subseteq hist'.handles
      /\ \A j \in jobs' : j.id \in Nat
  BY DEF World, CoreTypes, CoreOK, Buckets, Evolves
<1>2. /\ LegacyHandle \in hist.handles
      /\ \A h \in hist.handles : h.id < next /\ (h.managed => h.id # 0)
  BY DEF World, HistOK
<1>3. \A h \in hist'.handles : h.id < next' /\ (h.managed => h.id # 0)
  BY <1>1, <1>2 DEF Handles
<1>6. \A j \in jobs' : j.id # 0 /\ j.id < next' /\ j.id \in hist'.purged
  BY <1>1
<1>7. ASSUME NEW d \in hist'.deleted
      PROVE  d.handle \in hist'.handles /\ Done(d.handle, d.purged)'
  <2>1. d.handle \in hist.handles /\ Done(d.handle, d.purged) /\ d.handle \in Handles
        /\ d.handle.id < next
    BY <1>1, <1>2 DEF World, HistOK
  <2>2. PICK b \in BOOLEAN : b = d.purged
    BY <1>1
  <2> QED
    BY <1>1, <2>1, <2>2, DoneStays
<1> QED
  BY <1>1, <1>2, <1>3, <1>6, <1>7 DEF HistOK

\* What callers were told stays true while nobody is told anything more.
LEMMA HistStays ==
    ASSUME World, CoreTypes', CoreOK', Evolves, UNCHANGED hist,
           \A j \in jobs' : j.id # 0 /\ j.id < next /\ j.id \in hist.purged
    PROVE  HistOK'
<1>1. /\ hist'.handles = hist.handles
      /\ hist'.deleted = hist.deleted /\ hist'.purged = hist.purged
  BY Zenon
<1>2. \A j \in jobs' : j.id # 0 /\ j.id < next /\ j.id \in hist'.purged
  BY <1>1
<1>3. \A h \in hist'.handles : h \in hist.handles \/ (h.id < next /\ (h.managed => h.id # 0))
  BY <1>1
<1>4. \A d \in hist'.deleted :
        d \in hist.deleted \/ (d.handle \in hist.handles /\ Done(d.handle, d.purged))
  BY <1>1
<1> QED
  BY <1>2, <1>3, <1>4, HistGrows

\* A POST that Core accepts.
LEMMA PostCommits ==
    ASSUME World, UNCHANGED hist, NEW m \in Writes, m.op = "post", Answer(m) = "ok", Effect(m)
    PROVE  CoreTypes' /\ CoreOK' /\ Evolves /\ jobs' = jobs
<1>0. /\ next \in Nat \ {0} /\ Want \in Paths
      /\ files \subseteq [id : Nat, path : Paths \cup {"elsewhere"}, full : BOOLEAN]
      /\ \A f \in files : f.id # 0 /\ f.id < next
  BY BucketAssumption DEF World, CoreTypes, CoreOK
<1>1. /\ bucket' = [NoBucket EXCEPT !.reg = next, !.etag = next, !.lock = m.call.class.lock,
                                    !.policy = IF m.flag THEN "none" ELSE "open"]
      /\ files' = files \cup {[id |-> next, path |-> Want, full |-> FALSE]}
      /\ next' = next + 1
      /\ quotas' = quotas /\ jobs' = jobs
  BY DEF Effect
<1>b. PICK new \in [id : Nat, path : Paths \cup {"elsewhere"}, full : BOOLEAN] :
        files' = files \cup {new} /\ new.id = next /\ new.path = Want
  <2>1. PICK new : new = [id |-> next, path |-> Want, full |-> FALSE]
    OBVIOUS
  <2>2. files' = files \cup {new}
    BY <1>1, <2>1, Zenon
  <2>3. new \in [id : Nat, path : Paths \cup {"elsewhere"}, full : BOOLEAN]
    BY <1>0, <2>1
  <2>4. new.id = next /\ new.path = Want
    BY <2>1
  <2> QED
    BY <2>2, <2>3, <2>4
<1>2. ~Registered /\ At(Want) = 0
  BY DEF Answer
<1>3. m.call.class.lock \in BOOLEAN
  BY BucketAssumption DEF Writes, Calls
<1>4. /\ bucket' \in Buckets /\ bucket'.reg = next /\ bucket'.path = Want /\ bucket'.etag = next
      /\ bucket'.policy \in {"none", "open"}
  BY <1>0, <1>1, <1>3 DEF NoBucket, Buckets, Policies, Versionings
<1>5. ASSUME NEW f \in files PROVE f.path # Want
  <2>1. f.path \in Paths => At(f.path) = f.id
    BY AtIs DEF World
  <2> QED
    BY <1>0, <1>2, <2>1
<1>6. CoreTypes'
  BY <1>0, <1>1, <1>b, <1>4 DEF World, CoreTypes
<1>7. CoreOK'
  <2>2. \A f \in files' : f.id # 0 /\ f.id < next'
    BY <1>0, <1>1, <1>b
  <2>3. \A f, g \in files' : f # g => f.id # g.id /\ (f.path = g.path => f.path = "elsewhere")
    BY <1>0, <1>b, <1>5 DEF World, CoreOK
  <2> QED
    BY <1>0, <1>1, <1>4, <2>2, <2>3 DEF World, CoreOK, Registered
<1>8. At(Want)' = next
  <2>1. \E f \in files' : f.path = Want /\ f.id = next
    BY <1>b
  <2> QED
    BY <1>0, <1>6, <1>7, <2>1, AtTypesNext DEF AtTypes
<1>9. ASSUME NEW p \in Paths PROVE At(p)' \in {At(p), 0} \/ At(p)' >= next
  <2>1. \A f \in files' : f.path = p =>
          f.id >= next \/ \E g \in files : g.path = p /\ g.id = f.id
    BY <1>0, <1>b
  <2> QED
    BY <1>6, <1>7, <2>1, AtFollows DEF World
<1>10. \A i \in Nat : Exists(i)' => Exists(i) \/ i >= next
  BY <1>0, <1>b DEF Exists
<1>11. ~Registered /\ bucket'.reg >= next /\ bucket'.etag >= next /\ At(bucket.path)' >= next
  <2>1. PICK p \in Paths : p = Want /\ p = bucket'.path
    BY <1>0, <1>4
  <2>2. At(p)' >= next
    BY <1>0, <1>8, <2>1
  <2> QED
    BY <1>0, <1>2, <1>4, <2>1, <2>2
<1> QED
  BY <1>0, <1>1, <1>6, <1>7, <1>9, <1>10, <1>11 DEF Evolves, JobOf

\* A change of the bucket's properties only.
LEMMA BucketChanges ==
    ASSUME World, UNCHANGED <<files, quotas, jobs>>,
           bucket' \in Buckets, bucket'.reg = bucket.reg, bucket'.path = bucket.path,
           next' \in Nat, next' >= next, bucket'.etag < next',
           ~Registered => bucket'.policy = "none" /\ bucket'.etag = 0,
           \/ bucket'.etag = bucket.etag /\ bucket'.policy = bucket.policy
           \/ bucket'.etag >= next /\ bucket'.policy # "open",
           hist.handles \subseteq hist'.handles, hist.purged \subseteq hist'.purged,
           hist' \in [handles : SUBSET Handles,
                 ready : SUBSET [call : Calls, reg : Nat, id : Nat],
                 deleted : SUBSET [handle : Handles, purged : BOOLEAN], purged : SUBSET Nat]
    PROVE  CoreTypes' /\ CoreOK' /\ Evolves
<1>1. /\ next \in Nat \ {0} /\ bucket \in Buckets /\ bucket.reg \in Nat
      /\ files \subseteq [id : Nat, path : Paths \cup {"elsewhere"}, full : BOOLEAN]
      /\ files' = files /\ quotas' = quotas /\ jobs' = jobs
  BY DEF World, CoreTypes, Buckets
<1>2. CoreTypes'
  BY <1>1 DEF World, CoreTypes
<1>3. CoreOK'
  <2>1. \A f \in files' : f.id # 0 /\ f.id < next'
    BY <1>1 DEF World, CoreOK
  <2> QED
    BY <1>1, <2>1 DEF World, CoreOK, Registered
<1>4. ASSUME NEW p \in Paths PROVE At(p)' \in {At(p), 0} \/ At(p)' >= next
  BY <1>1, <1>2, <1>3, AtFollows DEF World
<1>5. \A i \in Nat : Exists(i)' => Exists(i) \/ i >= next
  BY <1>1 DEF Exists
<1>6. \A i \in Nat : JobOf(i) # {} => JobOf(i)' # {} \/ ~Exists(i)'
  BY <1>1 DEF JobOf
<1> QED
  BY <1>2, <1>3, <1>4, <1>5, <1>6 DEF Evolves

\* A change of the quotas only.
LEMMA QuotasChange ==
    ASSUME World, UNCHANGED <<bucket, files, jobs, hist>>, next' = next + 1,
           quotas' \subseteq [id : Nat, limit : Nat, etag : Nat],
           \A q, r \in quotas' : q.id = r.id => q = r
    PROVE  CoreTypes' /\ CoreOK' /\ Evolves
<1>1. /\ next \in Nat \ {0} /\ bucket \in Buckets
      /\ bucket.reg \in Nat /\ bucket.etag \in Nat
      /\ files \subseteq [id : Nat, path : Paths \cup {"elsewhere"}, full : BOOLEAN]
      /\ bucket' = bucket /\ files' = files /\ jobs' = jobs /\ hist' = hist
  BY DEF World, CoreTypes, Buckets
<1>2. CoreTypes'
  BY <1>1 DEF World, CoreTypes
<1>3. CoreOK'
  <2>1. \A f \in files' : f.id # 0 /\ f.id < next'
    BY <1>1 DEF World, CoreOK
  <2>2. bucket'.reg < next' /\ bucket'.etag < next'
    BY <1>1 DEF World, CoreOK
  <2> QED
    BY <1>1, <2>1, <2>2 DEF World, CoreOK, Registered
<1>4. ASSUME NEW p \in Paths PROVE At(p)' \in {At(p), 0} \/ At(p)' >= next
  BY <1>1, <1>2, <1>3, AtFollows DEF World
<1>5. \A i \in Nat : Exists(i)' => Exists(i) \/ i >= next
  BY <1>1 DEF Exists
<1>6. \A i \in Nat : JobOf(i) # {} => JobOf(i)' # {} \/ ~Exists(i)'
  BY <1>1 DEF JobOf
<1> QED
  BY <1>1, <1>2, <1>3, <1>4, <1>5, <1>6 DEF Evolves

\* Directories that go, and with them the registration or jobs.
LEMMA FilesGo ==
    ASSUME World, UNCHANGED <<quotas, next, hist>>, bucket' \in {bucket, NoBucket},
           files' \subseteq files, jobs' \subseteq [id : Nat, aborted : BOOLEAN],
           \A j, k \in jobs' : j.id = k.id => j = k,
           \A i \in Nat : JobOf(i) # {} => JobOf(i)' # {} \/ ~Exists(i)'
    PROVE  CoreTypes' /\ CoreOK' /\ Evolves
<1>1. /\ next \in Nat \ {0} /\ bucket \in Buckets
      /\ bucket.reg \in Nat /\ bucket.etag \in Nat
      /\ files \subseteq [id : Nat, path : Paths \cup {"elsewhere"}, full : BOOLEAN]
      /\ quotas' = quotas /\ next' = next /\ hist' = hist
  BY DEF World, CoreTypes, Buckets
<1>2. /\ NoBucket \in Buckets /\ NoBucket.reg = 0 /\ NoBucket.etag = 0
      /\ NoBucket.policy = "none"
  BY BucketAssumption DEF NoBucket, Buckets, Policies, Versionings
<1>3. CoreTypes'
  BY <1>1, <1>2 DEF World, CoreTypes
<1>4. CoreOK'
  <2>1. \A f \in files' : f.id # 0 /\ f.id < next'
    BY <1>1 DEF World, CoreOK
  <2>2. bucket'.reg < next' /\ bucket'.etag < next'
        /\ (~Registered' => bucket'.policy = "none" /\ bucket'.etag = 0)
        /\ (Registered' => bucket'.etag # 0)
    BY <1>1, <1>2 DEF World, CoreOK, Registered
  <2> QED
    BY <1>1, <2>1, <2>2 DEF World, CoreOK
<1>5. ASSUME NEW p \in Paths PROVE At(p)' \in {At(p), 0} \/ At(p)' >= next
  BY <1>1, <1>3, <1>4, AtFollows DEF World
<1>6. \A i \in Nat : Exists(i)' => Exists(i) \/ i >= next
  BY DEF Exists
<1>7. \/ bucket' = bucket
      \/ ~Registered'
  BY <1>2 DEF Registered
<1> QED
  BY <1>1, <1>3, <1>4, <1>5, <1>6, <1>7 DEF Evolves

\* What Core is does not change by itself.
LEMMA NothingChanges ==
    ASSUME World, UNCHANGED <<core, hist>>
    PROVE  World' /\ Evolves
<1>1. /\ bucket' = bucket /\ files' = files /\ quotas' = quotas /\ jobs' = jobs /\ next' = next
      /\ hist' = hist
  BY DEF core
<1>2. CoreTypes' /\ CoreOK' /\ Evolves
  BY <1>1, BucketChanges DEF World, CoreTypes, CoreOK, Buckets
<1>3. \A j \in jobs' : j.id # 0 /\ j.id < next /\ j.id \in hist.purged
  BY <1>1 DEF World, HistOK
<1> QED
  BY <1>1, <1>2, <1>3, HistStays DEF World

\* A write to the bucket's properties that Core accepts.
LEMMA PatchCommits ==
    ASSUME World, UNCHANGED hist, NEW m \in Writes,
           m.op \in {"policy", "version", "lock", "abort"}, Answer(m) = "ok", Effect(m)
    PROVE  CoreTypes' /\ CoreOK' /\ Evolves /\ jobs' = jobs
<1>0. /\ next \in Nat \ {0} /\ bucket \in Buckets /\ bucket.reg \in Nat /\ bucket.etag \in Nat
      /\ bucket.etag < next /\ (~Registered => bucket.policy = "none" /\ bucket.etag = 0)
      /\ m.call.class.versioning \in Versionings
  BY BucketAssumption DEF World, CoreTypes, CoreOK, Buckets, Writes, Calls, Versionings
<1>1. UNCHANGED <<files, quotas, jobs>>
  BY DEF Effect
<1>2. CASE m.op = "policy"
  <2>1. /\ bucket' = [bucket EXCEPT !.policy = "none", !.etag = next] /\ next' = next + 1
    BY <1>2 DEF Effect
  <2>2. Registered
    BY <1>2 DEF Answer
  <2>3. /\ bucket' \in Buckets /\ bucket'.reg = bucket.reg /\ bucket'.path = bucket.path
        /\ bucket'.etag = next /\ bucket'.policy = "none" /\ next' \in Nat
    <3>1. "none" \in Policies
      BY DEF Policies
    <3>2. bucket' \in Buckets
      BY <1>0, <2>1, <3>1 DEF Buckets
    <3>3. bucket'.policy = "none"
      BY <1>0, <2>1 DEF Buckets
    <3>4. bucket'.etag = next
      BY <1>0, <2>1 DEF Buckets
    <3>5. bucket'.reg = bucket.reg /\ bucket'.path = bucket.path
      BY <1>0, <2>1 DEF Buckets
    <3> QED
      BY <1>0, <2>1, <3>2, <3>3, <3>4, <3>5
  <2> QED
    BY <1>0, <1>1, <2>1, <2>2, <2>3, BucketChanges DEF World, CoreTypes
<1>3. CASE m.op # "policy"
  <2>1. /\ next' = next
        /\ \/ bucket' = [bucket EXCEPT !.versioning = m.call.class.versioning]
           \/ bucket' = [bucket EXCEPT !.lock = TRUE]
           \/ bucket' = [bucket EXCEPT !.uploads = FALSE]
    BY <1>3 DEF Effect
  <2>2. /\ bucket' \in Buckets /\ bucket'.reg = bucket.reg /\ bucket'.path = bucket.path
        /\ bucket'.etag = bucket.etag /\ bucket'.policy = bucket.policy
    <3>1. CASE bucket' = [bucket EXCEPT !.versioning = m.call.class.versioning]
      BY <1>0, <3>1 DEF Buckets
    <3>2. CASE bucket' = [bucket EXCEPT !.lock = TRUE]
      BY <1>0, <3>2 DEF Buckets
    <3>3. CASE bucket' = [bucket EXCEPT !.uploads = FALSE]
      BY <1>0, <3>3 DEF Buckets
    <3> QED
      BY <2>1, <3>1, <3>2, <3>3
  <2> QED
    BY <1>0, <1>1, <2>1, <2>2, BucketChanges DEF World, CoreTypes
<1> QED
  BY <1>1, <1>2, <1>3

\* A write to a quota that Core accepts.
LEMMA QuotaCommits ==
    ASSUME World, UNCHANGED hist, NEW m \in Writes, m.op \in {"quota", "limit"}, Effect(m)
    PROVE  CoreTypes' /\ CoreOK' /\ Evolves /\ jobs' = jobs
<1>0. /\ next \in Nat \ {0} /\ quotas \subseteq [id : Nat, limit : Nat, etag : Nat]
      /\ m.id \in Nat /\ m.call.class.quota \in Nat
  BY BucketAssumption DEF World, CoreTypes, Writes, Calls
<1>1. /\ UNCHANGED <<bucket, files, jobs>> /\ next' = next + 1
      /\ quotas' = (quotas \ QuotaOf(m.id))
                     \cup {[id |-> m.id, limit |-> m.call.class.quota, etag |-> next]}
  BY DEF Effect
<1>2. PICK r \in [id : Nat, limit : Nat, etag : Nat] :
        r = [id |-> m.id, limit |-> m.call.class.quota, etag |-> next]
  BY <1>0
<1>3. r.id = m.id /\ quotas' = (quotas \ QuotaOf(m.id)) \cup {r}
  BY <1>1, <1>2
<1>4. quotas' \subseteq [id : Nat, limit : Nat, etag : Nat]
  BY <1>0, <1>3
<1>5. \A p, q \in quotas' : p.id = q.id => p = q
  BY <1>3 DEF World, CoreOK, QuotaOf
<1> QED
  BY <1>1, <1>4, <1>5, QuotasChange

\* A DELETE of the bucket that Core accepts.
LEMMA DropCommits ==
    ASSUME World, UNCHANGED hist, NEW m \in Writes, m.op = "drop", Effect(m)
    PROVE  CoreTypes' /\ CoreOK' /\ Evolves /\ jobs' = jobs
<1>1. /\ bucket' = NoBucket /\ files' \subseteq files /\ UNCHANGED <<quotas, jobs, next>>
  BY DEF Effect
<1>2. \A i \in Nat : JobOf(i) # {} => JobOf(i)' # {} \/ ~Exists(i)'
  BY <1>1 DEF JobOf
<1> QED
  BY <1>1, <1>2, FilesGo DEF World, CoreTypes, CoreOK

\* A POST of a tree-delete job that Core accepts.
LEMMA TreeCommits ==
    ASSUME World, UNCHANGED hist, NEW m \in Writes, m.op = "tree", Answer(m) = "ok", Effect(m)
    PROVE  /\ CoreTypes' /\ CoreOK' /\ Evolves
           /\ \A j \in jobs' : j \in jobs \/ j.id = m.id
           /\ JobOf(m.id)' # {}
<1>0. jobs \subseteq [id : Nat, aborted : BOOLEAN] /\ m.id \in Nat /\ JobOf(m.id) = {}
  BY DEF World, CoreTypes, Writes, Answer
<1>1. /\ jobs' = jobs \cup {[id |-> m.id, aborted |-> FALSE]}
      /\ UNCHANGED <<bucket, files, quotas, next>>
  BY DEF Effect
<1>2. PICK k \in [id : Nat, aborted : BOOLEAN] : jobs' = jobs \cup {k} /\ k.id = m.id
  <2>1. PICK k : k = [id |-> m.id, aborted |-> FALSE]
    OBVIOUS
  <2>2. k \in [id : Nat, aborted : BOOLEAN] /\ k.id = m.id
    BY <1>0, <2>1
  <2> QED
    BY <1>1, <2>1, <2>2, Zenon
<1>3. jobs' \subseteq [id : Nat, aborted : BOOLEAN]
  BY <1>0, <1>2
<1>4. \A j, l \in jobs' : j.id = l.id => j = l
  BY <1>0, <1>2 DEF World, CoreOK, JobOf
<1>5. \A i \in Nat : JobOf(i) # {} => JobOf(i)' # {} \/ ~Exists(i)'
  BY <1>2 DEF JobOf
<1>6. JobOf(m.id)' # {}
  BY <1>2 DEF JobOf
<1> QED
  BY <1>1, <1>2, <1>3, <1>4, <1>5, <1>6, FilesGo

\* A write that reaches Core.
LEMMA CommitOK ==
    ASSUME World, UNCHANGED hist, NEW m \in Writes, MsgOK(m), Commit(m)
    PROVE  World' /\ Evolves
<1>1. CASE Answer(m) # "ok"
  BY <1>1, NothingChanges DEF Commit
<1>2. CASE Answer(m) = "ok"
  <2>1. Effect(m)
    BY <1>2 DEF Commit
  <2>2. /\ CoreTypes' /\ CoreOK' /\ Evolves
        /\ jobs' = jobs \/ (m.op = "tree" /\ \A j \in jobs' : j \in jobs \/ j.id = m.id)
    <3>1. CASE m.op = "post"
      BY <1>2, <2>1, <3>1, PostCommits
    <3>2. CASE m.op \in {"policy", "version", "lock", "abort"}
      BY <1>2, <2>1, <3>2, PatchCommits
    <3>3. CASE m.op \in {"quota", "limit"}
      BY <2>1, <3>3, QuotaCommits
    <3>4. CASE m.op = "drop"
      BY <2>1, <3>4, DropCommits
    <3>5. CASE m.op = "tree"
      BY <1>2, <2>1, <3>5, TreeCommits
    <3> QED
      BY <3>1, <3>2, <3>3, <3>4, <3>5 DEF Writes, Ops
  <2>3. \A j \in jobs' : j.id # 0 /\ j.id < next /\ j.id \in hist.purged
    BY <2>2 DEF World, HistOK, MsgOK
  <2> QED
    BY <2>2, <2>3, HistStays DEF World
<1> QED
  BY <1>1, <1>2

\* Every worker's local variables are in order: said of the value they have, and
\* of the worker.
Held == work \in [Workers -> Locals]
        /\ \A w \in Workers, k \in Locals : work[w] = k => LocalOK(k)

WorkersOK == work \in [Workers -> Locals] /\ \A w \in Workers : LocalOK(work[w])

\* If the values are in order in the next state, the workers are.
LEMMA HeldNext == Held' => WorkersOK'
<1>1. Held => WorkersOK
  BY DEF Held, WorkersOK
<1> QED
  BY <1>1, PTL

\* A step that leaves Core and the history in order leaves everything in order
\* if the writes and the workers it changes are.
LEMMA BaseFrom ==
    ASSUME Base, World', Evolves, late' \subseteq Writes,
           \A m \in late' : m \in late \/ MsgOK(m),
           work' \in [Workers -> Locals],
           \A w \in Workers, k \in Locals : work'[w] = k => LocalOK(k) \/ LocalOK(k)',
           count' \in [requests : Nat, faults : Nat]
    PROVE  Base'
<1>1. World
  BY DEF Base, World
<1>2. CoreTypes' /\ CoreOK' /\ HistOK'
  BY DEF World
<1>3. \A m \in late' : MsgOK(m)'
  BY <1>1, <1>2, MsgStays DEF Base
<1>4. Held'
  BY <1>1, <1>2, LocalStays DEF Held
<1> QED
  BY <1>2, <1>3, <1>4, HeldNext DEF Base, WorkersOK

\* Counting keeps the counters numbers.
LEMMA Counted ==
    ASSUME Base
    PROVE  /\ [count EXCEPT !.faults = @ + 1] \in [requests : Nat, faults : Nat]
           /\ [count EXCEPT !.requests = @ + 1] \in [requests : Nat, faults : Nat]
<1>1. count \in [requests : Nat, faults : Nat]
  BY DEF Base
<1>2. ASSUME NEW c \in [requests : Nat, faults : Nat], NEW n \in Nat
      PROVE  /\ [c EXCEPT !.faults = n] \in [requests : Nat, faults : Nat]
             /\ [c EXCEPT !.requests = n] \in [requests : Nat, faults : Nat]
  OBVIOUS
<1>3. count.faults + 1 \in Nat /\ count.requests + 1 \in Nat
  BY <1>1
<1> QED
  BY <1>1, <1>2, <1>3, Zenon

\* A step of one worker that changes neither Core nor the history.
LEMMA MoveOK ==
    ASSUME Base, NEW w \in Workers, NEW k \in Locals, LocalOK(k),
           work' = [work EXCEPT ![w] = k], UNCHANGED <<core, hist>>,
           late' \subseteq Writes, \A m \in late' : m \in late \/ MsgOK(m),
           count' \in [requests : Nat, faults : Nat]
    PROVE  Base' /\ Evolves
<1>1. World
  BY DEF Base, World
<1>2. World' /\ Evolves
  BY <1>1, NothingChanges
<1>3. /\ work' \in [Workers -> Locals]
      /\ \A v \in Workers : work'[v] \in {work[v], k}
  BY DEF Base
<1>4. \A v \in Workers : work[v] \in Locals /\ LocalOK(work[v])
  BY DEF Base
<1> QED
  BY <1>2, <1>3, <1>4, BaseFrom

\* A worker without a call.
LEMMA IdleOK == ASSUME Base PROVE Idle \in Locals /\ LocalOK(Idle)
<1>1. Idle \in Locals /\ Idle.pc = "idle" /\ Idle.call = NoCall /\ Idle.id = 0
  BY IdleType DEF Idle
<1>2. NoCall.handle = LegacyHandle /\ NoCall.known = {} /\ NoCall.since = 0 /\ NoCall.ctx = "keep"
  BY DEF NoCall
<1>3. LegacyHandle \in hist.handles /\ next \in Nat \ {0}
  BY DEF Base, HistOK, CoreTypes
<1> QED
  BY <1>1, <1>2, <1>3 DEF LocalOK, CallOK, KnownOK, CreateOK, DeleteOK

\* A write that Core answers while the handler waits.
LEMMA Answered ==
    ASSUME Base, NEW w \in Workers, NEW m \in Writes, MsgOK(m), Commit(m),
           NEW k \in Locals, work' = [work EXCEPT ![w] = k], LocalOK(k) \/ LocalOK(k)',
           late' \subseteq late, UNCHANGED <<count, hist>>
    PROVE  Base'
<1>1. World
  BY DEF Base, World
<1>2. World' /\ Evolves
  BY <1>1, CommitOK
<1>3. /\ work' \in [Workers -> Locals]
      /\ \A v \in Workers : work'[v] \in {work[v], k}
  BY DEF Base
<1>4. \A v \in Workers : work[v] \in Locals /\ LocalOK(work[v])
  BY DEF Base
<1>5. /\ late' \subseteq Writes /\ \A n \in late' : n \in late
      /\ count' \in [requests : Nat, faults : Nat]
  BY DEF Base
<1> QED
  BY <1>2, <1>3, <1>4, <1>5, BaseFrom

\* A write whose answer is lost.
LEMMA Lost ==
    ASSUME Base, NEW w \in Workers, NEW m \in Writes, MsgOK(m), Fault, late' = late \cup {m},
           NEW k \in Locals, LocalOK(k),
           work' = [work EXCEPT ![w] = k] \/ UNCHANGED work, UNCHANGED <<core, hist>>
    PROVE  Base'
<1>1. late' \subseteq Writes /\ \A n \in late' : n \in late \/ MsgOK(n)
  BY DEF Base
<1>2. count' \in [requests : Nat, faults : Nat]
  BY Counted DEF Fault
<1>3. CASE work' = [work EXCEPT ![w] = k]
  BY <1>1, <1>2, <1>3, MoveOK
<1>4. CASE UNCHANGED work
  <2>1. PICK l \in Locals : l = work[w]
    BY DEF Base
  <2>2. LocalOK(l) /\ work' = [work EXCEPT ![w] = l]
    BY <1>4, <2>1 DEF Base
  <2> QED
    BY <1>1, <1>2, <2>2, MoveOK
<1> QED
  BY <1>3, <1>4

\* A write whose answer was lost reaches Core.
LEMMA LateWriteOK == Base /\ LateWrite => Base'
<1> SUFFICES ASSUME Base, LateWrite PROVE Base'
  OBVIOUS
<1>1. PICK m \in late : Commit(m) /\ late' = late \ {m} /\ UNCHANGED <<work, count, hist>>
  BY DEF LateWrite
<1>2. m \in Writes /\ MsgOK(m)
  BY DEF Base
<1>3. World' /\ Evolves
  BY <1>1, <1>2, CommitOK DEF Base, World
<1>4. /\ late' \subseteq Writes /\ \A n \in late' : n \in late
      /\ work' \in [Workers -> Locals] /\ \A w \in Workers : work'[w] = work[w]
      /\ \A w \in Workers : LocalOK(work[w])
      /\ count' \in [requests : Nat, faults : Nat]
  BY <1>1 DEF Base
<1> QED
  BY <1>3, <1>4, BaseFrom

\* A step of something else than a handler, a message or an operator.
LEMMA OutsideOK ==
    ASSUME Base, World', Evolves, UNCHANGED <<late, work>>, Fault \/ UNCHANGED count
    PROVE  Base'
<1>1. count' \in [requests : Nat, faults : Nat]
  BY Counted DEF Fault, Base
<1>2. /\ late' \subseteq Writes /\ \A n \in late' : n \in late
      /\ work' \in [Workers -> Locals] /\ \A w \in Workers : work'[w] = work[w]
      /\ \A w \in Workers : LocalOK(work[w])
  BY DEF Base
<1> QED
  BY <1>1, <1>2, BaseFrom

\* A tree-delete job removes its directory.
LEMMA JobEndsOK == Base /\ JobEnds => Base' /\ Evolves
<1> SUFFICES ASSUME Base, JobEnds PROVE Base' /\ Evolves
  OBVIOUS
<1>1. PICK j \in jobs : /\ jobs' = jobs \ {j}
                        /\ files' = {f \in files : f.id # j.id}
                        /\ UNCHANGED <<bucket, quotas, next, late, work, count, hist>>
  BY DEF JobEnds
<1>2. jobs' \subseteq [id : Nat, aborted : BOOLEAN] /\ \A i, k \in jobs' : i.id = k.id => i = k
  BY <1>1 DEF Base, CoreTypes, CoreOK
<1>3. \A i \in Nat : JobOf(i) # {} => JobOf(i)' # {} \/ ~Exists(i)'
  BY <1>1 DEF JobOf, Exists
<1>4. World
  BY DEF Base, World
<1>5. files' \subseteq files /\ CoreTypes' /\ CoreOK' /\ Evolves
  BY <1>1, <1>2, <1>3, <1>4, FilesGo
<1>6. \A i \in jobs' : i.id # 0 /\ i.id < next /\ i.id \in hist.purged
  BY <1>1, <1>4 DEF World, HistOK
<1>7. World'
  BY <1>1, <1>4, <1>5, <1>6, HistStays DEF World
<1> QED
  BY <1>1, <1>5, <1>7, OutsideOK

\* A tree-delete job aborts and stays on Core's list.
LEMMA JobAbortsOK == Base /\ JobAborts => Base' /\ Evolves
<1> SUFFICES ASSUME Base, JobAborts PROVE Base' /\ Evolves
  OBVIOUS
<1>1. PICK j \in jobs : /\ Fault
                        /\ jobs' = (jobs \ {j}) \cup {[j EXCEPT !.aborted = TRUE]}
                        /\ UNCHANGED <<bucket, files, quotas, next, late, work, hist>>
  BY DEF JobAborts
<1>2. World /\ jobs \subseteq [id : Nat, aborted : BOOLEAN]
  BY DEF Base, World, CoreTypes
<1>3. PICK k \in [id : Nat, aborted : BOOLEAN] : k.id = j.id /\ jobs' = (jobs \ {j}) \cup {k}
  <2>1. PICK k : k = [j EXCEPT !.aborted = TRUE]
    OBVIOUS
  <2>2. k \in [id : Nat, aborted : BOOLEAN] /\ k.id = j.id
    BY <1>2, <2>1
  <2> QED
    BY <1>1, <2>1, <2>2, Zenon
<1>4. jobs' \subseteq [id : Nat, aborted : BOOLEAN] /\ \A i, l \in jobs' : i.id = l.id => i = l
  BY <1>2, <1>3 DEF World, CoreOK
<1>5. \A i \in Nat : JobOf(i) # {} => JobOf(i)' # {} \/ ~Exists(i)'
  BY <1>3 DEF JobOf
<1>6. CoreTypes' /\ CoreOK' /\ Evolves
  BY <1>1, <1>2, <1>4, <1>5, FilesGo
<1>7. \A i \in jobs' : i.id # 0 /\ i.id < next /\ i.id \in hist.purged
  BY <1>2, <1>3 DEF World, HistOK
<1>8. World'
  BY <1>1, <1>2, <1>6, <1>7, HistStays DEF World
<1> QED
  BY <1>1, <1>6, <1>8, OutsideOK

\* A grant of access adds its statement to the policy.
LEMMA ClientIsGrantedOK == Base /\ ClientIsGranted => Base' /\ Evolves
<1> SUFFICES ASSUME Base, ClientIsGranted PROVE Base' /\ Evolves
  OBVIOUS
<1>1. /\ Registered /\ bucket' = [bucket EXCEPT !.policy = "grants", !.etag = next]
      /\ next' = next + 1
      /\ files' = files /\ quotas' = quotas /\ jobs' = jobs
      /\ UNCHANGED <<late, work, count, hist>>
  BY DEF ClientIsGranted, Usable
<1>2. World /\ next \in Nat \ {0} /\ bucket \in Buckets
  BY DEF Base, World, CoreTypes
<1>3. /\ bucket' \in Buckets /\ bucket'.reg = bucket.reg /\ bucket'.path = bucket.path
      /\ bucket'.etag = next /\ bucket'.policy = "grants" /\ next' \in Nat
  <2>1. "grants" \in Policies
    BY DEF Policies
  <2>2. bucket' \in Buckets
    BY <1>1, <1>2, <2>1 DEF Buckets
  <2>3. bucket'.policy = "grants"
    BY <1>1, <1>2 DEF Buckets
  <2>4. bucket'.etag = next
    BY <1>1, <1>2 DEF Buckets
  <2>5. bucket'.reg = bucket.reg /\ bucket'.path = bucket.path
    BY <1>1, <1>2 DEF Buckets
  <2> QED
    BY <1>1, <1>2, <2>2, <2>3, <2>4, <2>5
<1>4. CoreTypes' /\ CoreOK' /\ Evolves
  BY <1>1, <1>2, <1>3, BucketChanges DEF World, CoreTypes
<1>5. \A j \in jobs' : j.id # 0 /\ j.id < next /\ j.id \in hist.purged
  BY <1>1, <1>2 DEF World, HistOK
<1>6. World'
  BY <1>1, <1>2, <1>4, <1>5, HistStays DEF World
<1> QED
  BY <1>1, <1>4, <1>6, OutsideOK

\* Directories that are marked: each keeps its identity and its path, or is away
\* from path "away".
LEMMA Marked ==
    ASSUME CoreTypes, CoreOK, NEW mark,
           \A f \in files : /\ mark[f] \in [id : Nat, path : Paths \cup {"elsewhere"}, full : BOOLEAN]
                            /\ mark[f].id = f.id /\ mark[f].path \in {f.path, "elsewhere"},
           NEW marks, \A g \in marks : \E f \in files : g = mark[f]
    PROVE  /\ marks \subseteq [id : Nat, path : Paths \cup {"elsewhere"}, full : BOOLEAN]
           /\ \A g \in marks : g.id # 0 /\ g.id < next
           /\ \A g, h \in marks : g # h => g.id # h.id /\ (g.path = h.path => g.path = "elsewhere")
<1>2. ASSUME NEW g \in marks, NEW h \in marks, g # h
      PROVE  g.id # h.id /\ (g.path = h.path => g.path = "elsewhere")
  <2>1. PICK a \in files : g = mark[a]
    OBVIOUS
  <2>2. PICK b \in files : h = mark[b]
    OBVIOUS
  <2>3. a # b
    BY <1>2, <2>1, <2>2
  <2>4. a.id # b.id /\ (a.path = b.path => a.path = "elsewhere")
    BY <2>3 DEF CoreOK
  <2> QED
    BY <2>1, <2>2, <2>4
<1>3. ASSUME NEW g \in marks
      PROVE  /\ g \in [id : Nat, path : Paths \cup {"elsewhere"}, full : BOOLEAN]
             /\ g.id # 0 /\ g.id < next
  <2>1. PICK a \in files : g = mark[a]
    OBVIOUS
  <2> QED
    BY <2>1 DEF CoreOK
<1> QED
  BY <1>2, <1>3

\* A client stores an object or begins an upload.
LEMMA ClientWritesOK == Base /\ ClientWrites => Base' /\ Evolves
<1> SUFFICES ASSUME Base, ClientWrites PROVE Base' /\ Evolves
  OBVIOUS
<1>1. UNCHANGED <<quotas, jobs, next, late, work, count, hist>>
  BY DEF ClientWrites
<1>2. World /\ next \in Nat \ {0} /\ bucket \in Buckets /\ bucket.etag < next
      /\ (~Registered => bucket.policy = "none" /\ bucket.etag = 0)
      /\ files \subseteq [id : Nat, path : Paths \cup {"elsewhere"}, full : BOOLEAN]
  BY DEF Base, World, CoreTypes, CoreOK
<1>3. CoreTypes' /\ CoreOK' /\ Evolves
  <2>1. CASE bucket' = [bucket EXCEPT !.uploads = TRUE] /\ UNCHANGED files
    <3>1. /\ bucket' \in Buckets /\ bucket'.reg = bucket.reg /\ bucket'.path = bucket.path
          /\ bucket'.etag = bucket.etag /\ bucket'.policy = bucket.policy
      BY <1>2, <2>1 DEF Buckets
    <3> QED
      BY <1>1, <1>2, <2>1, <3>1, BucketChanges DEF World, CoreTypes
  <2>2. CASE /\ files' = {IF f.path = bucket.path THEN [f EXCEPT !.full = TRUE] ELSE f : f \in files}
             /\ UNCHANGED bucket
    <3>1. PICK mark : mark = [f \in files |-> IF f.path = bucket.path
                                              THEN [f EXCEPT !.full = TRUE] ELSE f]
      OBVIOUS
    <3>2. files' = {mark[f] : f \in files}
      BY <2>2, <3>1, Zenon
    <3>3. ASSUME NEW f \in files
          PROVE  /\ mark[f] \in [id : Nat, path : Paths \cup {"elsewhere"}, full : BOOLEAN]
                 /\ mark[f].id = f.id /\ mark[f].path \in {f.path, "elsewhere"}
                 /\ mark[f].path = f.path
      BY <1>2, <3>1
    <3>4. PICK marks : marks = files' /\ \A g \in marks : \E f \in files : g = mark[f]
      BY <3>2
    <3>5. /\ marks \subseteq [id : Nat, path : Paths \cup {"elsewhere"}, full : BOOLEAN]
          /\ \A g \in marks : g.id # 0 /\ g.id < next
          /\ \A g, h \in marks : g # h => g.id # h.id /\ (g.path = h.path => g.path = "elsewhere")
      BY <3>3, <3>4, Marked DEF Base
    <3>6. \A g \in files' : \E f \in files : g.id = f.id /\ g.path = f.path
      <4> SUFFICES ASSUME NEW g \in files' PROVE \E f \in files : g.id = f.id /\ g.path = f.path
        OBVIOUS
      <4>1. PICK f \in files : g = mark[f]
        BY <3>2
      <4> QED
        BY <3>3, <4>1
    <3>7. CoreTypes'
      BY <1>1, <1>2, <2>2, <3>4, <3>5 DEF World, CoreTypes
    <3>8. CoreOK'
      BY <1>1, <1>2, <2>2, <3>4, <3>5 DEF World, CoreOK, Registered
    <3>9. ASSUME NEW p \in Paths PROVE At(p)' \in {At(p), 0} \/ At(p)' >= next
      BY <1>2, <3>6, <3>7, <3>8, AtFollows DEF World
    <3>10. \A i \in Nat : Exists(i)' => Exists(i) \/ i >= next
      BY <3>6 DEF Exists
    <3>11. \A i \in Nat : JobOf(i) # {} => JobOf(i)' # {} \/ ~Exists(i)'
      BY <1>1 DEF JobOf
    <3> QED
      BY <1>1, <1>2, <2>2, <3>7, <3>8, <3>9, <3>10, <3>11 DEF Evolves
  <2> QED
    BY <2>1, <2>2 DEF ClientWrites
<1>4. \A j \in jobs' : j.id # 0 /\ j.id < next /\ j.id \in hist.purged
  BY <1>1, <1>2 DEF World, HistOK
<1>5. World'
  BY <1>1, <1>2, <1>3, <1>4, HistStays DEF World
<1> QED
  BY <1>1, <1>3, <1>5, OutsideOK

\* What is said of a worker does not depend on whether it was disturbed.
LEMMA CalmFree ==
    ASSUME NEW k \in Locals, NEW b \in BOOLEAN, NEW l, l = [k EXCEPT !.calm = b]
    PROVE  l \in Locals /\ (LocalOK(k) => LocalOK(l))
<1>1. l \in Locals
  BY DEF Locals
<1>2. l.pc = k.pc /\ l.call = k.call /\ l.id = k.id /\ l.etag = k.etag /\ l.try = k.try
  BY DEF Locals
<1> QED
  BY <1>1, <1>2 DEF LocalOK, CreateOK, DeleteOK

\* An operator moves what is at the path away and puts a directory there.
Puts(path) ==
    files' = {IF f.path = path THEN [f EXCEPT !.path = "elsewhere"] ELSE f : f \in files}
               \cup {[id |-> next, path |-> path, full |-> TRUE]}

\* The directories after an operator has put one of his own at a path.
LEMMA PutsDirectory ==
    ASSUME World, NEW path \in Paths, next' = next + 1, Puts(path)
    PROVE  /\ files' \subseteq [id : Nat, path : Paths \cup {"elsewhere"}, full : BOOLEAN]
           /\ \A f \in files' : f.id # 0 /\ f.id < next'
           /\ \A f, g \in files' : f # g => f.id # g.id /\ (f.path = g.path => f.path = "elsewhere")
           /\ \A f \in files' : f.id >= next \/ \E g \in files : g.id = f.id
           /\ \A p \in Paths : \A f \in files' : f.path = p =>
                f.id >= next \/ \E g \in files : g.path = p /\ g.id = f.id
           /\ \E f \in files' : f.path = path /\ f.id = next
<1>1. /\ next \in Nat \ {0} /\ "elsewhere" \notin Paths
      /\ files \subseteq [id : Nat, path : Paths \cup {"elsewhere"}, full : BOOLEAN]
  BY BucketAssumption DEF World, CoreTypes
<1>14. CoreTypes /\ CoreOK
  BY DEF World
<1>2. PICK mark : mark = [f \in files |-> IF f.path = path
                                          THEN [f EXCEPT !.path = "elsewhere"] ELSE f]
  OBVIOUS
<1>3. PICK new \in [id : Nat, path : Paths \cup {"elsewhere"}, full : BOOLEAN] :
        /\ new = [id |-> next, path |-> path, full |-> TRUE]
        /\ new.id = next /\ new.path = path
  <2>1. PICK new : new = [id |-> next, path |-> path, full |-> TRUE]
    OBVIOUS
  <2>2. new \in [id : Nat, path : Paths \cup {"elsewhere"}, full : BOOLEAN]
    BY <1>1, <2>1
  <2>3. new.id = next /\ new.path = path
    BY <2>1
  <2> QED
    BY <2>1, <2>2, <2>3
<1>4. PICK marks : /\ files' = marks \cup {new}
                   /\ \A g \in marks : \E f \in files : g = mark[f]
  <2>1. PICK marks : marks = {mark[f] : f \in files}
    OBVIOUS
  <2>2. marks = {IF f.path = path THEN [f EXCEPT !.path = "elsewhere"] ELSE f : f \in files}
    BY <1>2, <2>1, Zenon
  <2>3. files' = marks \cup {new}
    BY <1>3, <2>2, Zenon DEF Puts
  <2>4. \A g \in marks : \E f \in files : g = mark[f]
    BY <2>1
  <2> QED
    BY <2>3, <2>4
<1>5. ASSUME NEW f \in files
      PROVE  /\ mark[f] \in [id : Nat, path : Paths \cup {"elsewhere"}, full : BOOLEAN]
             /\ mark[f].id = f.id /\ mark[f].path \in {f.path, "elsewhere"}
  BY <1>1, <1>2
<1>6. /\ marks \subseteq [id : Nat, path : Paths \cup {"elsewhere"}, full : BOOLEAN]
      /\ \A g \in marks : /\ g.id # 0 /\ g.id < next
                          /\ \E f \in files : g.id = f.id /\ g.path \in {f.path, "elsewhere"}
      /\ \A g, h \in marks : g # h => g.id # h.id /\ (g.path = h.path => g.path = "elsewhere")
  <2>1. \A f \in files : /\ mark[f] \in [id : Nat, path : Paths \cup {"elsewhere"}, full : BOOLEAN]
                         /\ mark[f].id = f.id /\ mark[f].path \in {f.path, "elsewhere"}
    BY <1>5
  <2>2. \A g \in marks : \E f \in files : g = mark[f]
    BY <1>4
  <2>3. ASSUME NEW g \in marks
        PROVE  \E f \in files : g.id = f.id /\ g.path \in {f.path, "elsewhere"}
    <3>1. PICK f \in files : g = mark[f]
      BY <2>2
    <3> QED
      BY <2>1, <3>1
  <2>4. marks \subseteq [id : Nat, path : Paths \cup {"elsewhere"}, full : BOOLEAN]
    BY <1>14, <2>1, <2>2, Marked
  <2>5. \A g \in marks : g.id # 0 /\ g.id < next
    BY <1>14, <2>1, <2>2, Marked
  <2>6. ASSUME NEW g \in marks, NEW h \in marks, g # h
        PROVE  g.id # h.id /\ (g.path = h.path => g.path = "elsewhere")
    <3>1. PICK a \in files : g = mark[a]
      BY <2>2
    <3>2. PICK b \in files : h = mark[b]
      BY <2>2
    <3>3. a # b
      BY <2>6, <3>1, <3>2
    <3>4. a.id # b.id /\ (a.path = b.path => a.path = "elsewhere")
      BY <1>14, <3>3 DEF CoreOK
    <3> QED
      BY <2>1, <3>1, <3>2, <3>4
  <2> QED
    BY <2>3, <2>4, <2>5, <2>6
<1>7. \A g \in marks : g.path # path
  <2>1. \A f \in files : mark[f].path # path
    BY <1>1, <1>2
  <2> QED
    BY <1>4, <2>1
<1>8. files' \subseteq [id : Nat, path : Paths \cup {"elsewhere"}, full : BOOLEAN]
  BY <1>4, <1>6
<1>9. ASSUME NEW f \in files' PROVE f.id # 0 /\ f.id < next'
  <2>1. f = new \/ f \in marks
    BY <1>4
  <2>2. CASE f = new
    BY <1>1, <1>3, <2>2
  <2>3. CASE f \in marks
    BY <1>1, <1>6, <1>8, <2>3
  <2> QED
    BY <2>1, <2>2, <2>3
<1>10. \A f, g \in files' : f # g => f.id # g.id /\ (f.path = g.path => f.path = "elsewhere")
  <2>1. \A g \in marks : g.id # new.id /\ g.path # new.path
    BY <1>1, <1>3, <1>6, <1>7
  <2>2. \A g \in files' : g = new \/ g \in marks
    BY <1>4
  <2> QED
    BY <1>6, <2>1, <2>2
<1>11. \A f \in files' : f.id >= next \/ \E g \in files : g.id = f.id
  BY <1>1, <1>3, <1>4, <1>6
<1>12. ASSUME NEW p \in Paths, NEW f \in files', f.path = p
       PROVE  f.id >= next \/ \E g \in files : g.path = p /\ g.id = f.id
  <2>1. CASE f = new
    BY <1>1, <1>3, <2>1
  <2>2. CASE f \in marks
    <3>1. PICK g \in files : f.id = g.id /\ f.path \in {g.path, "elsewhere"}
      BY <1>6, <2>2
    <3>2. g.path = p
      BY <1>1, <1>12, <3>1
    <3> QED
      BY <3>1, <3>2
  <2> QED
    BY <1>4, <2>1, <2>2
<1>13. \E f \in files' : f.path = path /\ f.id = next
  BY <1>3, <1>4
<1> QED
  BY <1>8, <1>9, <1>10, <1>11, <1>12, <1>13

\* An operator replaces a directory, or registers the free name.
LEMMA OperatorActsOK == Base /\ OperatorActs => Base' /\ Evolves
<1> SUFFICES ASSUME Base, OperatorActs PROVE Base' /\ Evolves
  OBVIOUS
<1>1. PICK path \in Paths :
        /\ Fault
        /\ IF Registered THEN path = bucket.path /\ UNCHANGED bucket
           ELSE \E p \in {"open", "grants"} :
                  bucket' = [NoBucket EXCEPT !.reg = next, !.path = path,
                                             !.policy = p, !.etag = next]
        /\ files' = {IF f.path = path THEN [f EXCEPT !.path = "elsewhere"] ELSE f : f \in files}
                      \cup {[id |-> next, path |-> path, full |-> TRUE]}
        /\ next' = next + 1
        /\ work' = Disturbed
        /\ UNCHANGED <<quotas, jobs, late, hist>>
  BY DEF OperatorActs
<1>2. World /\ next \in Nat \ {0} /\ bucket \in Buckets /\ bucket.reg \in Nat /\ bucket.etag \in Nat
      /\ bucket.reg < next /\ bucket.etag < next
      /\ (~Registered => bucket.policy = "none" /\ bucket.etag = 0)
  BY DEF Base, World, CoreTypes, CoreOK, Buckets
<1>3. /\ files' \subseteq [id : Nat, path : Paths \cup {"elsewhere"}, full : BOOLEAN]
      /\ \A f \in files' : f.id # 0 /\ f.id < next'
      /\ \A f, g \in files' : f # g => f.id # g.id /\ (f.path = g.path => f.path = "elsewhere")
      /\ \A f \in files' : f.id >= next \/ \E g \in files : g.id = f.id
      /\ \A p \in Paths : \A f \in files' : f.path = p =>
           f.id >= next \/ \E g \in files : g.path = p /\ g.id = f.id
      /\ \E f \in files' : f.path = path /\ f.id = next
  BY <1>1, <1>2, PutsDirectory DEF Puts
<1>5. /\ bucket' \in Buckets
      /\ \/ Registered /\ bucket' = bucket
         \/ ~Registered /\ bucket'.reg = next /\ bucket'.path = path /\ bucket'.etag = next
  <2>1. CASE Registered
    BY <1>1, <1>2, <2>1
  <2>2. CASE ~Registered
    <3>1. PICK p \in {"open", "grants"} :
            bucket' = [NoBucket EXCEPT !.reg = next, !.path = path, !.policy = p, !.etag = next]
      BY <1>1, <2>2
    <3>2. NoBucket \in Buckets
      BY BucketAssumption DEF NoBucket, Buckets, Policies, Versionings
    <3>3. p \in Policies
      BY DEF Policies
    <3>4. bucket' \in Buckets
      BY <1>2, <3>1, <3>2, <3>3 DEF Buckets
    <3>5. bucket'.reg = next /\ bucket'.path = path
      BY <3>1, <3>2 DEF Buckets
    <3>6. bucket'.etag = next
      BY <3>1, <3>2 DEF Buckets
    <3> QED
      BY <2>2, <3>4, <3>5, <3>6
  <2> QED
    BY <2>1, <2>2
<1>6. CoreTypes'
  BY <1>1, <1>2, <1>3, <1>5 DEF World, CoreTypes
<1>7. CoreOK'
  BY <1>1, <1>2, <1>3, <1>5 DEF World, CoreOK, Registered
<1>8. At(path)' = next
  BY <1>3, <1>6, <1>7, AtTypesNext DEF AtTypes
<1>9. Evolves
  <2>1. ASSUME NEW p \in Paths PROVE At(p)' \in {At(p), 0} \/ At(p)' >= next
    BY <1>2, <1>3, <1>6, <1>7, AtFollows DEF World
  <2>2. \A i \in Nat : Exists(i)' => Exists(i) \/ i >= next
    BY <1>3 DEF Exists
  <2>3. \A i \in Nat : JobOf(i) # {} => JobOf(i)' # {} \/ ~Exists(i)'
    BY <1>1 DEF JobOf
  <2>4. \/ Registered /\ bucket' = bucket
        \/ ~Registered /\ bucket'.reg >= next /\ bucket'.etag >= next /\ At(bucket.path)' >= next
    <3>1. CASE Registered
      BY <1>5, <3>1
    <3>2. CASE ~Registered
      <4>1. bucket'.reg = next /\ bucket'.path = path /\ bucket'.etag = next
        BY <1>5, <3>2
      <4>2. PICK p \in Paths : p = path /\ p = bucket'.path
        BY <4>1
      <4>3. At(p)' = next
        BY <1>8, <4>2
      <4> QED
        BY <1>2, <3>2, <4>1, <4>2, <4>3
    <3> QED
      BY <3>1, <3>2
  <2>5. hist.handles \subseteq hist'.handles /\ hist.purged \subseteq hist'.purged
    BY <1>1
  <2>6. next' >= next
    BY <1>1, <1>2
  <2> QED
    BY <2>1, <2>2, <2>3, <2>4, <2>5, <2>6 DEF Evolves
<1>10. HistOK'
  <2>1. \A j \in jobs' : j.id # 0 /\ j.id < next /\ j.id \in hist.purged
    BY <1>1, <1>2 DEF World, HistOK
  <2> QED
    BY <1>1, <1>2, <1>6, <1>7, <1>9, <2>1, HistStays
<1>11. /\ work' \in [Workers -> Locals]
       /\ \A w \in Workers, k \in Locals : work'[w] = k => LocalOK(k)
  <2>1. ASSUME NEW w \in Workers
        PROVE  work'[w] \in Locals /\ \A k \in Locals : work'[w] = k => LocalOK(k)
    <3>1. PICK l \in Locals : l = work[w] /\ LocalOK(l)
      BY DEF Base
    <3>2. CASE work'[w] = l
      BY <3>1, <3>2
    <3>3. CASE work'[w] = [l EXCEPT !.calm = FALSE]
      BY <3>1, <3>3, CalmFree
    <3> QED
      BY <1>1, <3>1, <3>2, <3>3 DEF Disturbed
  <2>2. work' = [w \in Workers |-> work'[w]]
    BY <1>1 DEF Disturbed
  <2> QED
    BY <2>1, <2>2
<1>12. count' \in [requests : Nat, faults : Nat]
  BY <1>1, Counted DEF Fault
<1>13. late' \subseteq Writes /\ \A m \in late' : m \in late
  BY <1>1 DEF Base
<1> QED
  BY <1>6, <1>7, <1>9, <1>10, <1>11, <1>12, <1>13, BaseFrom DEF World

\* A worker that goes on in its call.
LEMMA GoIs ==
    ASSUME Base, NEW w \in Workers, NEW p \in Points, NEW k, k = Go(w, p)
    PROVE  /\ k \in Locals /\ k.pc = p /\ k.call = work[w].call /\ k.cur = work[w].cur
           /\ k.id = work[w].id /\ k.etag = work[w].etag /\ k.try = work[w].try
<1>1. work[w] \in Locals
  BY DEF Base
<1>2. k = [work[w] EXCEPT !.pc = p]
  BY DEF Go
<1> QED
  BY <1>1, <1>2 DEF Locals

\* What is known of a worker that serves a call.
LEMMA WorkIs ==
    ASSUME Base, NEW w \in Workers
    PROVE  /\ work[w] \in Locals /\ LocalOK(work[w]) /\ work[w].call \in Calls
           /\ CallOK(work[w].call) /\ work[w].id < next
           /\ CreateOK(work[w]) /\ DeleteOK(work[w])
<1>1. work[w] \in Locals /\ LocalOK(work[w])
  BY DEF Base
<1> QED
  BY <1>1 DEF LocalOK, Locals

\* Local variables at a point of DriverCreateBucket, or of no call.
LEMMA CreateLocal ==
    ASSUME Base, NEW w \in Workers, NEW k \in Locals, k.call = work[w].call, k.id < next,
           k.pc \in CreatePoints, CreateOK(k)
    PROVE  LocalOK(k)
<1>1. CallOK(k.call)
  BY WorkIs
<1>2. DeleteOK(k)
  BY DEF DeleteOK, CreatePoints
<1> QED
  BY <1>1, <1>2 DEF LocalOK

\* Local variables at a point of DriverDeleteBucket.
LEMMA DeleteLocal ==
    ASSUME Base, NEW w \in Workers, NEW k \in Locals, k.call = work[w].call, k.id < next,
           k.pc \in DeletePoints, DeleteOK(k)
    PROVE  LocalOK(k)
<1>1. CallOK(k.call)
  BY WorkIs
<1>2. CreateOK(k)
  BY DEF CreateOK, DeletePoints
<1> QED
  BY <1>1, <1>2 DEF LocalOK

\* A step that only moves a worker on.
LEMMA MoveStep ==
    ASSUME Base, NEW w \in Workers, NEW k \in Locals, LocalOK(k), Move(w, k)
    PROVE  Base' /\ Evolves
<1>1. /\ work' = [work EXCEPT ![w] = k] /\ UNCHANGED <<core, hist>>
      /\ late' = late /\ count' = count
  BY DEF Move
<1>2. /\ late' \subseteq Writes /\ \A m \in late' : m \in late
      /\ count' \in [requests : Nat, faults : Nat]
  BY <1>1 DEF Base
<1> QED
  BY <1>1, <1>2, MoveOK

\* A write carries the call of its worker.
LEMMA WriteIs ==
    ASSUME Base, NEW w \in Workers, NEW op \in Ops, NEW b \in BOOLEAN,
           NEW m, m = [Write(w, op) EXCEPT !.flag = b]
    PROVE  /\ m \in Writes /\ m.op = op /\ m.call = work[w].call /\ m.id = work[w].id
           /\ m.etag = work[w].etag /\ m.flag = b
<1>1. work[w].call \in Calls /\ work[w].id \in Nat /\ work[w].etag \in Nat
  BY WorkIs DEF Locals
<1>2. PICK n \in Writes : /\ n = Write(w, op) /\ n.op = op /\ n.call = work[w].call
                          /\ n.id = work[w].id /\ n.etag = work[w].etag
  <2>1. PICK n : n = Write(w, op)
    OBVIOUS
  <2>2. n \in Writes /\ n.op = op /\ n.call = work[w].call /\ n.id = work[w].id
        /\ n.etag = work[w].etag
    BY <1>1, <2>1 DEF Write, Writes
  <2> QED
    BY <2>1, <2>2
<1> QED
  BY <1>2 DEF Writes

\* The same of a write without a flag.
LEMMA PlainWriteIs ==
    ASSUME Base, NEW w \in Workers, NEW op \in Ops, NEW m, m = Write(w, op)
    PROVE  /\ m \in Writes /\ m.op = op /\ m.call = work[w].call /\ m.id = work[w].id
           /\ m.etag = work[w].etag
<1>1. work[w].call \in Calls /\ work[w].id \in Nat /\ work[w].etag \in Nat
  BY WorkIs DEF Locals
<1> QED
  BY <1>1 DEF Write, Writes

\* A write that no condition is attached to.
LEMMA FreeWrite ==
    ASSUME Base, NEW w \in Workers, NEW m \in Writes, m.call = work[w].call, m.id = work[w].id,
           m.op \notin {"policy", "drop", "tree"}
    PROVE  MsgOK(m)
BY WorkIs DEF MsgOK

\* At most one write reaches Core in a step, the one sent for the call of the
\* worker that the step moves, or an earlier one whose answer was lost.
OneWrite ==
    \/ UNCHANGED core
    \/ \E m \in Writes :
         /\ MsgOK(m) /\ Commit(m)
         /\ \A v \in Workers : work'[v] # work[v] => m.call = work[v].call
         /\ \A n \in late \ late' : n = m

\* A write and the handler's step on its answer.
LEMMA SendOK ==
    ASSUME Base, NEW w \in Workers, NEW m \in Writes, MsgOK(m), NEW after, Send(w, m, after),
           UNCHANGED hist, m.call = work[w].call,
           after["lost"] \in Locals, LocalOK(after["lost"]),
           NEW k \in Locals, k = after[Answer(m)], Commit(m) => LocalOK(k) \/ LocalOK(k)'
    PROVE  Base' /\ OneWrite
<1>1. CASE /\ Commit(m)
           /\ work' = [work EXCEPT ![w] = after[Answer(m)]]
           /\ late' = IF m.etag = 0 THEN late ELSE late \ {m}
           /\ UNCHANGED count
  <2>1. late' \subseteq late /\ \A n \in late \ late' : n = m
    BY <1>1
  <2>2. work' = [work EXCEPT ![w] = k]
    BY <1>1
  <2>3. \A v \in Workers : work'[v] # work[v] => m.call = work[v].call
    BY <2>2 DEF Base
  <2>4. Base'
    BY <1>1, <2>1, <2>2, Answered
  <2> QED
    BY <1>1, <2>1, <2>3, <2>4 DEF OneWrite
<1>2. CASE /\ Fault
           /\ late' = late \cup {m}
           /\ \/ work' = [work EXCEPT ![w] = after["lost"]]
              \/ m.op \in Replayed /\ UNCHANGED work
           /\ UNCHANGED core
  <2>1. PICK l \in Locals : l = after["lost"]
    OBVIOUS
  <2>2. LocalOK(l) /\ (work' = [work EXCEPT ![w] = l] \/ UNCHANGED work)
    BY <1>2, <2>1
  <2> QED
    BY <1>2, <2>2, Lost DEF OneWrite
<1> QED
  BY <1>1, <1>2 DEF Send

\* A handler gives up, or its process stops.
LEMMA AbandonOK == ASSUME Base, NEW w \in Workers, Abandon(w) PROVE Base' /\ Evolves
<1>1. /\ Fault /\ work' = [work EXCEPT ![w] = Idle]
      /\ UNCHANGED <<core, hist>> /\ late' = late
  BY DEF Abandon
<1>2. count' \in [requests : Nat, faults : Nat]
  BY <1>1, Counted DEF Fault
<1>3. late' \subseteq Writes /\ \A m \in late' : m \in late
  BY <1>1 DEF Base
<1>4. PICK k \in Locals : k = Idle /\ LocalOK(k)
  BY IdleOK
<1> QED
  BY <1>1, <1>2, <1>3, <1>4, MoveOK

\* A call that arrives.
LEMMA StartOK ==
    ASSUME Base, NEW w \in Workers, NEW c \in Calls, NEW p \in {"cGet", "iGet", "dGet"},
           Start(w, c, p), c.handle \in hist.handles, KnownOK(c),
           c.since <= next, c.ctx = "purge" => c.handle.managed
    PROVE  Base' /\ Evolves
<1>1. World /\ hist \in [handles : SUBSET Handles,
                 ready : SUBSET [call : Calls, reg : Nat, id : Nat],
                 deleted : SUBSET [handle : Handles, purged : BOOLEAN], purged : SUBSET Nat]
      /\ c.handle.id \in Nat /\ c.since \in Nat
  BY DEF Base, World, CoreTypes, Calls, Handles
<1>2. /\ count' = [count EXCEPT !.requests = @ + 1]
      /\ hist' = [hist EXCEPT !.ready = {r \in @ : Agree(c, r.call)},
                              !.purged = @ \cup IF c.ctx = "purge" THEN {c.handle.id} ELSE {}]
      /\ UNCHANGED <<core, late>>
  BY DEF Start
<1>3. PICK ready : ready = {r \in hist.ready : Agree(c, r.call)}
  OBVIOUS
<1>4. PICK purged : purged = hist.purged \cup IF c.ctx = "purge" THEN {c.handle.id} ELSE {}
  OBVIOUS
<1>5. ready \subseteq hist.ready /\ purged \in SUBSET Nat /\ hist.purged \subseteq purged
      /\ (c.ctx = "purge" => c.handle.id \in purged)
  BY <1>1, <1>3, <1>4
<1>6. hist' = [hist EXCEPT !.ready = ready, !.purged = purged]
  BY <1>2, <1>3, <1>4, Zenon
<1>7. /\ hist' \in [handles : SUBSET Handles,
                 ready : SUBSET [call : Calls, reg : Nat, id : Nat],
                 deleted : SUBSET [handle : Handles, purged : BOOLEAN], purged : SUBSET Nat]
      /\ hist'.handles = hist.handles /\ hist'.deleted = hist.deleted
      /\ hist'.purged = purged
  BY <1>1, <1>5, <1>6
<1>8. CoreTypes' /\ CoreOK' /\ Evolves
  <2>1. bucket' = bucket /\ next' = next /\ UNCHANGED <<files, quotas, jobs>>
    BY <1>2 DEF core
  <2>2. hist.handles \subseteq hist'.handles /\ hist.purged \subseteq hist'.purged
    BY <1>5, <1>7
  <2> QED
    BY <1>1, <1>7, <2>1, <2>2, BucketChanges DEF World, CoreTypes, CoreOK, Buckets
<1>9. HistOK'
  <2>1. jobs' = jobs /\ next' = next
    BY <1>2 DEF core
  <2>2. \A j \in jobs' : j.id # 0 /\ j.id < next /\ j.id \in hist'.purged
    BY <1>1, <1>5, <1>7, <2>1 DEF World, HistOK
  <2>3. /\ \A h \in hist'.handles : h \in hist.handles
        /\ \A d \in hist'.deleted : d \in hist.deleted
    BY <1>7
  <2> QED
    BY <1>1, <1>8, <2>2, <2>3, HistGrows
<1>10. World'
  BY <1>8, <1>9 DEF World
<1>11. CallOK(c)'
  <2>1. bucket' = bucket /\ next' = next
    BY <1>2 DEF core
  <2>2. KnownOK(c)'
    BY <2>1 DEF KnownOK
  <2> QED
    BY <1>1, <1>5, <1>7, <2>1, <2>2 DEF CallOK
<1>12. \A v \in Workers, k \in Locals : work'[v] = k => LocalOK(k) \/ LocalOK(k)'
  <2> SUFFICES ASSUME NEW v \in Workers, NEW k \in Locals, work'[v] = k
               PROVE  LocalOK(k) \/ LocalOK(k)'
    OBVIOUS
  <2>1. CASE v = w
    <3>1. k.pc = p /\ k.call = c /\ k.id = 0 /\ k.etag = 0 /\ k.try = 1
      <4>1. work'[w].pc = p /\ work'[w].call = c /\ work'[w].id = 0 /\ work'[w].etag = 0
            /\ work'[w].try = 1
        BY DEF Start, Idle
      <4> QED
        BY <2>1, <4>1
    <3>2. next' \in Nat /\ next' > 0
      BY <1>10 DEF World, CoreTypes
    <3>3. CreateOK(k)' /\ DeleteOK(k)'
      BY <3>1 DEF CreateOK, DeleteOK
    <3> QED
      BY <1>11, <3>1, <3>2, <3>3 DEF LocalOK
  <2>2. CASE v # w
    <3>1. PICK l \in Locals : l = work[v] /\ LocalOK(l)
      BY DEF Base
    <3>2. \/ work'[v] = l
          \/ \E b \in BOOLEAN : work'[v] = [l EXCEPT !.calm = b]
      <4>1. PICK b : b = (l.calm /\ Agree(c, l.call))
        OBVIOUS
      <4>2. b \in BOOLEAN
        BY <4>1, Zenon
      <4>3. work'[v] = l \/ work'[v] = [work[v] EXCEPT !.calm = @ /\ Agree(c, work[v].call)]
        BY <2>2, <3>1 DEF Start
      <4>4. [work[v] EXCEPT !.calm = @ /\ Agree(c, work[v].call)] = [l EXCEPT !.calm = b]
        BY <3>1, <4>1, Zenon
      <4> QED
        BY <4>2, <4>3, <4>4
    <3> QED
      BY <3>1, <3>2, CalmFree
  <2> QED
    BY <2>1, <2>2
<1>13. work' \in [Workers -> Locals]
  <2>1. ASSUME NEW v \in Workers PROVE work'[v] \in Locals
    <3>1. CASE v = w
      <4>1. PICK b \in BOOLEAN :
              work'[w] = [Idle EXCEPT !.pc = p, !.call = c, !.calm = b]
        <5> DEFINE creates == {u \in Workers : ~Is(u, "idle") /\ work[u].call.kind = "create"}
                   quiet == /\ \A u \in Workers : ~Is(u, "idle") => Agree(c, work[u].call)
                            /\ \A m \in late : Agree(c, m.call)
        <5>1. work'[w] = [Idle EXCEPT !.pc = p, !.call = c, !.calm = (c.kind = "create" => quiet)]
          BY DEF Start
        <5>2. PICK b : b = (c.kind = "create" => quiet)
          OBVIOUS
        <5>3. b \in BOOLEAN
          BY <5>2, Zenon
        <5> QED
          BY <5>1, <5>2, <5>3, Zenon
      <4>2. Idle \in Locals
        BY IdleType
      <4>3. [Idle EXCEPT !.pc = p, !.call = c, !.calm = b] \in Locals
        BY <4>2 DEF Locals, Points, CreatePoints, DeletePoints
      <4> QED
        BY <3>1, <4>1, <4>3
    <3>2. CASE v # w
      <4>1. PICK l \in Locals : l = work[v]
        BY DEF Base
      <4>2. PICK b : b = (l.calm /\ Agree(c, l.call))
        OBVIOUS
      <4>3. b \in BOOLEAN
        BY <4>2, Zenon
      <4>4. work'[v] = l \/ work'[v] = [work[v] EXCEPT !.calm = @ /\ Agree(c, work[v].call)]
        BY <3>2, <4>1 DEF Start
      <4>5. [work[v] EXCEPT !.calm = @ /\ Agree(c, work[v].call)] = [l EXCEPT !.calm = b]
        BY <4>1, <4>2, Zenon
      <4>6. [l EXCEPT !.calm = b] \in Locals
        BY <4>3, CalmFree
      <4> QED
        BY <4>1, <4>4, <4>5, <4>6
    <3> QED
      BY <3>1, <3>2
  <2>2. work' = [v \in Workers |-> work'[v]]
    BY DEF Start
  <2> QED
    BY <2>1, <2>2
<1>14. count' \in [requests : Nat, faults : Nat]
  BY <1>2, Counted
<1>15. late' \subseteq Writes /\ \A m \in late' : m \in late
  BY <1>2 DEF Base
<1> QED
  BY <1>8, <1>10, <1>12, <1>13, <1>14, <1>15, BaseFrom

\* The parts of a request that a kind of call does not use.
LEMMA NoCallIs ==
    ASSUME Base
    PROVE  /\ NoCall \in Calls /\ NoCall.handle = LegacyHandle /\ NoCall.known = {}
           /\ NoCall.since = 0 /\ NoCall.ctx = "keep"
           /\ LegacyHandle \in hist.handles /\ next \in Nat
<1>1. NoCall \in Calls
  BY IdleType DEF Locals
<1>2. LegacyHandle \in hist.handles /\ next \in Nat
  BY DEF Base, HistOK, CoreTypes
<1> QED
  BY <1>1, <1>2 DEF NoCall

\* A create or an import arrives.
LEMMA StartCreateOK == ASSUME Base, NEW w \in Workers, StartCreate(w) PROVE Base' /\ Evolves
<1>1. PICK c \in Classes :
        IF c.import THEN Start(w, [NoCall EXCEPT !.kind = "import"], "iGet")
        ELSE Start(w, [NoCall EXCEPT !.kind = "create", !.class = c, !.known = Documented], "cGet")
  BY DEF StartCreate
<1>2. /\ NoCall \in Calls /\ NoCall.handle = LegacyHandle /\ NoCall.known = {}
      /\ NoCall.since = 0 /\ NoCall.ctx = "keep"
      /\ LegacyHandle \in hist.handles /\ next \in Nat
  BY NoCallIs
<1>3. CASE c.import
  <2>1. PICK d : d = [NoCall EXCEPT !.kind = "import"]
    OBVIOUS
  <2>2. /\ d \in Calls /\ d.handle = LegacyHandle /\ d.known = {} /\ d.since = 0 /\ d.ctx = "keep"
    BY <1>2, <2>1 DEF Calls
  <2>3. Start(w, d, "iGet")
    BY <1>1, <1>3, <2>1
  <2>4. KnownOK(d)
    BY <2>2 DEF KnownOK
  <2> QED
    BY <1>2, <2>2, <2>3, <2>4, StartOK
<1>4. CASE ~c.import
  <2>0. PICK known : known = Documented
    OBVIOUS
  <2>1. PICK d : d = [NoCall EXCEPT !.kind = "create", !.class = c, !.known = known]
    OBVIOUS
  <2>2. known \subseteq Nat
    BY <2>0 DEF Documented, Base, CoreTypes, Buckets
  <2>3. /\ d \in Calls /\ d.handle = LegacyHandle /\ d.known = known /\ d.since = 0
        /\ d.ctx = "keep"
    BY <1>2, <2>1, <2>2 DEF Calls
  <2>4. Start(w, d, "cGet")
    BY <1>1, <1>4, <2>0, <2>1
  <2>5. KnownOK(d)
    BY <2>0, <2>3 DEF KnownOK, Documented, Base, CoreOK, Registered
  <2> QED
    BY <1>2, <2>3, <2>4, <2>5, StartOK
<1> QED
  BY <1>3, <1>4

\* A delete arrives: a purge is recorded as asked for.
LEMMA StartDeleteOK == ASSUME Base, NEW w \in Workers, StartDelete(w) PROVE Base' /\ Evolves
<1>1. PICK h \in hist.handles, ctx \in Contexts :
        Start(w, [NoCall EXCEPT !.kind = "delete", !.handle = h, !.since = next,
                                !.ctx = IF h.managed THEN ctx ELSE "keep"], "dGet")
  BY DEF StartDelete
<1>2. /\ NoCall \in Calls /\ NoCall.known = {} /\ next \in Nat /\ h \in Handles
      /\ ctx \in {"purge", "root", "keep"}
  BY NoCallIs, BucketAssumption DEF Base, CoreTypes
<1>3. PICK x \in {"purge", "root", "keep"} :
        x = (IF h.managed THEN ctx ELSE "keep") /\ (x = "purge" => h.managed)
  BY <1>2
<1>4. PICK d : d = [NoCall EXCEPT !.kind = "delete", !.handle = h, !.since = next, !.ctx = x]
  OBVIOUS
<1>5. d \in Calls /\ d.handle = h /\ d.known = {} /\ d.since = next /\ d.ctx = x
  BY <1>2, <1>3, <1>4 DEF Calls
<1>6. Start(w, d, "dGet")
  BY <1>1, <1>3, <1>4, Zenon
<1>7. d.handle \in hist.handles /\ KnownOK(d) /\ d.since <= next
      /\ (d.ctx = "purge" => d.handle.managed)
  BY <1>2, <1>3, <1>5 DEF KnownOK
<1> QED
  BY <1>5, <1>6, <1>7, StartOK

\* What the handler remembers of the bucket it has read.
LEMMA FactsType ==
    ASSUME Base
    PROVE  /\ Facts(bucket) \in [path : Paths, versioning : Versionings, lock : BOOLEAN]
           /\ \A cur \in [path : Paths, versioning : Versionings, lock : BOOLEAN] :
                Rest(cur) \in [path : Paths, versioning : Versionings, lock : BOOLEAN]
           /\ Rest(bucket) \in [path : Paths, versioning : Versionings, lock : BOOLEAN]
<1>1. bucket \in Buckets
  BY DEF Base, CoreTypes
<1>2. Facts(bucket) \in [path : Paths, versioning : Versionings, lock : BOOLEAN]
  BY <1>1 DEF Facts, Buckets
<1>3. Facts(NoBucket) \in [path : Paths, versioning : Versionings, lock : BOOLEAN]
  BY BucketAssumption DEF Facts, NoBucket, Versionings
<1>4. \A cur \in [path : Paths, versioning : Versionings, lock : BOOLEAN] :
        Rest(cur) \in [path : Paths, versioning : Versionings, lock : BOOLEAN]
  BY <1>3 DEF Rest
<1>5. Rest(bucket) \in [path : Paths, versioning : Versionings, lock : BOOLEAN]
  BY <1>1, <1>3 DEF Rest, Buckets
<1> QED
  BY <1>2, <1>4, <1>5

\* What a create makes of the bucket it has read.
LEMMA FoundOK ==
    ASSUME Base, NEW w \in Workers, work[w].pc \in {"cGet", "cReget"},
           NEW none \in Locals, LocalOK(none), NEW k, k = Found(w, none)
    PROVE  k \in Locals /\ LocalOK(k)
<1>1. CASE k = none
  BY <1>1
<1>2. CASE k = Idle
  BY <1>2, IdleOK
<1>3. CASE k = [Go(w, "cPolicy") EXCEPT !.cur = Facts(bucket)]
  <2>1. PICK l \in Locals : /\ l = Go(w, "cPolicy") /\ l.pc = "cPolicy" /\ l.call = work[w].call
                            /\ l.id = work[w].id /\ l.try = work[w].try
    BY GoIs DEF Points, CreatePoints
  <2>2. /\ k \in Locals /\ k.pc = "cPolicy" /\ k.call = work[w].call /\ k.id = work[w].id
        /\ k.try = work[w].try
    BY <1>3, <2>1, FactsType DEF Locals
  <2>3. work[w].id < next /\ work[w].try = 1
    BY WorkIs DEF CreateOK
  <2>4. 1 \in 1..PolicyAttempts
    BY BucketAssumption
  <2>5. CreateOK(k)
    BY <2>2, <2>3, <2>4 DEF CreateOK
  <2> QED
    BY <2>2, <2>3, <2>5, CreateLocal DEF CreatePoints
<1> QED
  BY <1>1, <1>2, <1>3 DEF Found

\* A worker that stays where try and etag have their first values.
LEMMA EarlyOK ==
    ASSUME Base, NEW w \in Workers, work[w].pc \in {"cGet", "cPost", "cPostOpen", "cReget"},
           NEW p \in {"cPost", "cPostOpen", "cReget"}, NEW k, k = Go(w, p)
    PROVE  k \in Locals /\ LocalOK(k)
<1>1. /\ k \in Locals /\ k.pc = p /\ k.call = work[w].call /\ k.id = work[w].id
      /\ k.etag = work[w].etag /\ k.try = work[w].try
  BY GoIs DEF Points, CreatePoints
<1>2. work[w].id < next /\ work[w].try = 1 /\ work[w].etag = 0
  BY WorkIs DEF CreateOK
<1>3. CreateOK(k)
  BY <1>1, <1>2 DEF CreateOK
<1> QED
  BY <1>1, <1>2, <1>3, CreateLocal DEF CreatePoints

\* The first GetBucket of a create.
LEMMA CreateGetOK == ASSUME Base, NEW w \in Workers, CreateGet(w) PROVE Base' /\ Evolves
<1>1. work[w].pc = "cGet" /\ Move(w, Found(w, Go(w, "cPost")))
  BY DEF CreateGet, Is
<1>2. PICK none \in Locals : none = Go(w, "cPost") /\ LocalOK(none)
  BY <1>1, EarlyOK
<1>3. PICK k \in Locals : k = Found(w, none) /\ LocalOK(k)
  BY <1>1, <1>2, FoundOK
<1> QED
  BY <1>1, <1>2, <1>3, MoveStep

\* GetBucket after a conflict.
LEMMA CreateRegetOK == ASSUME Base, NEW w \in Workers, CreateReget(w) PROVE Base' /\ Evolves
<1>1. work[w].pc = "cReget" /\ Move(w, Found(w, Idle))
  BY DEF CreateReget, Is
<1>2. PICK none \in Locals : none = Idle /\ LocalOK(none)
  BY IdleOK
<1>3. PICK k \in Locals : k = Found(w, none) /\ LocalOK(k)
  BY <1>1, <1>2, FoundOK
<1> QED
  BY <1>1, <1>2, <1>3, MoveStep

\* The POST of the bucket: a registration that Core accepts is a new one, which was
\* not there when this call came.
LEMMA PostBucketOK ==
    ASSUME Base, NEW w \in Workers, NEW p \in {"cPost", "cPostOpen"}, NEW flag \in BOOLEAN,
           NEW done \in {"cPolicy", "cLockDown"}, PostBucket(w, p, flag, done)
    PROVE  Base' /\ OneWrite
<1>1. work[w].pc = p /\ UNCHANGED hist
  BY DEF PostBucket, Is
<1>2. PICK m \in Writes : /\ m = [Write(w, "post") EXCEPT !.flag = flag] /\ m.op = "post"
                          /\ m.call = work[w].call /\ m.id = work[w].id
  <2>1. PICK m : m = [Write(w, "post") EXCEPT !.flag = flag]
    OBVIOUS
  <2>2. "post" \in Ops
    BY DEF Ops
  <2> QED
    BY <2>1, <2>2, WriteIs
<1>3. MsgOK(m)
  BY <1>2, FreeWrite
<1>4. PICK made : made = [Go(w, done) EXCEPT !.cur = [@ EXCEPT !.lock = Class(w).lock]]
  OBVIOUS
<1>5. /\ made \in Locals /\ made.pc = done /\ made.call = work[w].call /\ made.id = work[w].id
      /\ made.etag = 0 /\ made.try = 1
  <2>1. PICK l \in Locals : /\ l = Go(w, done) /\ l.pc = done /\ l.call = work[w].call
                            /\ l.id = work[w].id /\ l.etag = work[w].etag /\ l.try = work[w].try
    BY GoIs DEF Points, CreatePoints
  <2>2. Class(w).lock \in BOOLEAN
    BY WorkIs, BucketAssumption DEF Class, Calls
  <2>3. PICK cur \in [path : Paths, versioning : Versionings, lock : BOOLEAN] :
          cur = [l.cur EXCEPT !.lock = Class(w).lock]
    BY <2>2 DEF Locals
  <2>4. made = [l EXCEPT !.cur = cur]
    BY <1>4, <2>1, <2>3
  <2>5. work[w].try = 1 /\ work[w].etag = 0
    BY <1>1, WorkIs DEF CreateOK
  <2> QED
    BY <2>1, <2>4, <2>5 DEF Locals
<1>6. PICK reget \in Locals : reget = Go(w, "cReget") /\ LocalOK(reget)
  BY <1>1, EarlyOK
<1>7. PICK after : after = [ok |-> made, exists |-> reget, lost |-> Idle]
  OBVIOUS
<1>8. Send(w, m, after)
  BY <1>2, <1>4, <1>6, <1>7 DEF PostBucket
<1>9. Answer(m) \in {"ok", "exists"}
  BY <1>2 DEF Answer
<1>10. after["lost"] \in Locals /\ LocalOK(after["lost"])
  BY <1>7, IdleOK
<1>11. PICK k \in Locals : k = after[Answer(m)] /\ (k = reget \/ (k = made /\ Answer(m) = "ok"))
  BY <1>5, <1>7, <1>9
<1>12. ASSUME k = made, Answer(m) = "ok", Commit(m)
       PROVE  LocalOK(k)'
  <2>1. World /\ World' /\ Evolves
    BY <1>1, <1>3, <1>12, CommitOK DEF Base, World
  <2>2. bucket'.reg = next
    BY <1>2, <1>12 DEF Commit, Effect, NoBucket
  <2>3. \A r \in k.call.known : r < next /\ r \in Nat
    BY <1>5, <1>12, <2>1, WorkIs DEF CallOK, KnownOK, Calls
  <2>4. CallOK(k.call)'
    BY <1>5, <1>12, <2>1, WorkIs, CallStays DEF World
  <2>5. k.id < next'
    BY <1>5, <1>12, <2>1, WorkIs DEF Evolves, World, CoreTypes, Locals
  <2>6. CreateOK(k)'
    <3>1. bucket'.reg \notin k.call.known
      BY <2>1, <2>2, <2>3 DEF World, CoreTypes
    <3>2. 1 \in 1..PolicyAttempts
      BY BucketAssumption
    <3> QED
      BY <1>5, <1>12, <3>1, <3>2 DEF CreateOK
  <2>7. DeleteOK(k)'
    BY <1>5, <1>12 DEF DeleteOK
  <2> QED
    BY <2>4, <2>5, <2>6, <2>7 DEF LocalOK
<1>13. Commit(m) => LocalOK(k) \/ LocalOK(k)'
  BY <1>6, <1>11, <1>12
<1> QED
  BY <1>1, <1>2, <1>3, <1>8, <1>10, <1>11, <1>13, SendOK

\* The POST, with `private` or, on an older Core, without.
LEMMA CreatePostOK == ASSUME Base, NEW w \in Workers, CreatePost(w) PROVE Base' /\ OneWrite
<1>1. CASE PostBucket(w, "cPost", TRUE, "cPolicy")
  BY <1>1, PostBucketOK
<1>2. CASE Is(w, "cPost") /\ Move(w, Go(w, "cPostOpen"))
  <2>1. PICK k \in Locals : k = Go(w, "cPostOpen") /\ LocalOK(k)
    BY <1>2, EarlyOK DEF Is
  <2> QED
    BY <1>2, <2>1, MoveStep DEF Move, OneWrite
<1>3. CASE PostBucket(w, "cPostOpen", FALSE, "cLockDown")
  BY <1>3, PostBucketOK
<1> QED
  BY <1>1, <1>2, <1>3 DEF CreatePost

\* A point of DriverCreateBucket at which nothing more is said.
LEMMA LaterOK ==
    ASSUME Base, NEW w \in Workers, NEW k \in Locals, k.call = work[w].call, k.id < next,
           k.pc \in {"cVersion", "cLock", "cQuotaRoot", "cRoot", "iGet", "iRoot"}
    PROVE  LocalOK(k)
<1>1. CreateOK(k)
  BY DEF CreateOK
<1> QED
  BY <1>1, CreateLocal DEF CreatePoints

\* What a worker does after each part of ensureBucketConfig.
LEMMA AfterIs ==
    ASSUME Base, NEW w \in Workers, NEW k, k \in {AfterPolicy(w), AfterVersion(w), AfterLock(w)}
    PROVE  k \in Locals /\ LocalOK(k)
<1>1. PICK l \in Locals : l = work[w] /\ l.id < next
  BY WorkIs
<1>2. ASSUME NEW j, j = AfterLock(w)
      PROVE  /\ j \in Locals /\ j.call = l.call /\ j.id = l.id
             /\ j.pc \in {"cVersion", "cLock", "cQuotaRoot", "cRoot"}
  <2>1. PICK pc \in {"cQuotaRoot", "cRoot"} :
          pc = (IF Class(w).quota > 0 THEN "cQuotaRoot" ELSE "cRoot")
    OBVIOUS
  <2>2. PICK cur \in [path : Paths, versioning : Versionings, lock : BOOLEAN] : cur = Rest(l.cur)
    BY FactsType DEF Locals
  <2>3. j = [l EXCEPT !.pc = pc, !.cur = cur, !.etag = 0, !.try = 1]
    BY <1>1, <1>2, <2>1, <2>2 DEF AfterLock
  <2>4. pc \in Points
    BY <2>1 DEF Points, CreatePoints
  <2> QED
    BY <2>1, <2>3, <2>4 DEF Locals
<1>3. ASSUME NEW p \in {"cVersion", "cLock"}, NEW j, j = [Go(w, p) EXCEPT !.etag = 0, !.try = 1]
      PROVE  /\ j \in Locals /\ j.call = l.call /\ j.id = l.id
             /\ j.pc \in {"cVersion", "cLock", "cQuotaRoot", "cRoot"}
  <2>1. PICK i \in Locals : /\ i = Go(w, p) /\ i.pc = p /\ i.call = l.call /\ i.id = l.id
    BY <1>1, GoIs DEF Points, CreatePoints
  <2> QED
    BY <1>3, <2>1 DEF Locals
<1>4. ASSUME NEW j, j = AfterVersion(w)
      PROVE  /\ j \in Locals /\ j.call = l.call /\ j.id = l.id
             /\ j.pc \in {"cVersion", "cLock", "cQuotaRoot", "cRoot"}
  BY <1>2, <1>3, <1>4 DEF AfterVersion
<1>5. ASSUME NEW j, j = AfterPolicy(w)
      PROVE  /\ j \in Locals /\ j.call = l.call /\ j.id = l.id
             /\ j.pc \in {"cVersion", "cLock", "cQuotaRoot", "cRoot"}
  BY <1>3, <1>4, <1>5 DEF AfterPolicy
<1>6. /\ k \in Locals /\ k.call = l.call /\ k.id = l.id
      /\ k.pc \in {"cVersion", "cLock", "cQuotaRoot", "cRoot"}
  BY <1>2, <1>4, <1>5
<1> QED
  BY <1>1, <1>6, LaterOK

\* lockDownLegacy: its unconditional PUT goes to a bucket that had no policy when
\* the create was called.
LEMMA LockDownOK == ASSUME Base, NEW w \in Workers, LockDown(w) PROVE Base' /\ OneWrite
<1>1. work[w].pc = "cLockDown" /\ UNCHANGED hist
  BY DEF LockDown, Is
<1>2. work[w].try = 1 /\ work[w].etag = 0 /\ bucket.reg \notin work[w].call.known
      /\ CallOK(work[w].call) /\ work[w].id < next
  BY <1>1, WorkIs DEF CreateOK
<1>3. PICK m \in Writes : /\ m = Write(w, "policy") /\ m.op = "policy" /\ m.call = work[w].call
                          /\ m.id = work[w].id /\ m.etag = 0
  <2>1. PICK m : m = Write(w, "policy")
    OBVIOUS
  <2>2. "policy" \in Ops
    BY DEF Ops
  <2>3. /\ m \in Writes /\ m.op = "policy" /\ m.call = work[w].call
        /\ m.id = work[w].id /\ m.etag = work[w].etag
    BY <2>1, <2>2, PlainWriteIs
  <2> QED
    BY <1>2, <2>1, <2>3
<1>4. MsgOK(m)
  BY <1>2, <1>3 DEF MsgOK, Harmless
<1>5. PICK l \in Locals : /\ l = Go(w, "cPolicy") /\ l.pc = "cPolicy" /\ l.call = work[w].call
                          /\ l.id = work[w].id /\ l.try = 1
  BY <1>2, GoIs DEF Points, CreatePoints
<1>6. LocalOK(l)
  <2>1. CreateOK(l)
    BY <1>5, BucketAssumption DEF CreateOK
  <2> QED
    BY <1>2, <1>5, <2>1, CreateLocal DEF CreatePoints
<1>7. PICK after : after = [ok |-> l, missing |-> Idle, lost |-> Idle]
  OBVIOUS
<1>8. Send(w, m, after)
  BY <1>3, <1>5, <1>7 DEF LockDown
<1>9. Answer(m) \in {"ok", "missing"}
  BY <1>3 DEF Answer
<1>10. after["lost"] \in Locals /\ LocalOK(after["lost"])
  BY <1>7, IdleOK
<1>11. PICK k \in Locals : k = after[Answer(m)] /\ LocalOK(k)
  BY <1>6, <1>7, <1>9, IdleOK
<1> QED
  BY <1>1, <1>3, <1>4, <1>8, <1>10, <1>11, SendOK

\* GetBucketPolicy: what it reads makes the write that follows harmless.
LEMMA GetPolicyOK == ASSUME Base, NEW w \in Workers, GetPolicy(w) PROVE Base' /\ Evolves
<1>1. /\ work[w].pc = "cPolicy"
      /\ Move(w, IF bucket.policy = "grants" THEN AfterPolicy(w)
                 ELSE [Go(w, "cPutPolicy") EXCEPT !.etag = IF bucket.policy = "open" THEN 0
                                                           ELSE bucket.etag])
  BY DEF GetPolicy, Is
<1>2. CASE bucket.policy = "grants"
  <2>1. PICK k \in Locals : k = AfterPolicy(w) /\ LocalOK(k)
    BY AfterIs
  <2> QED
    BY <1>1, <1>2, <2>1, MoveStep
<1>3. CASE bucket.policy # "grants"
  <2>1. PICK etag \in Nat : etag = (IF bucket.policy = "open" THEN 0 ELSE bucket.etag)
    BY DEF Base, CoreTypes, Buckets
  <2>2. PICK l \in Locals : /\ l = Go(w, "cPutPolicy") /\ l.pc = "cPutPolicy"
                            /\ l.call = work[w].call /\ l.id = work[w].id /\ l.try = work[w].try
    BY GoIs DEF Points, CreatePoints
  <2>3. PICK k : k = [l EXCEPT !.etag = etag]
    OBVIOUS
  <2>4. /\ k \in Locals /\ k.pc = "cPutPolicy" /\ k.call = work[w].call /\ k.id = work[w].id
        /\ k.try = work[w].try /\ k.etag = etag
    BY <2>2, <2>3 DEF Locals
  <2>5. Move(w, k)
    BY <1>1, <1>3, <2>1, <2>2, <2>3
  <2>6. Harmless(work[w].call, etag)
    <3>1. KnownOK(work[w].call)
      BY WorkIs DEF CallOK
    <3>2. 0 \notin work[w].call.known
      BY <3>1 DEF KnownOK
    <3>3. bucket.reg \in work[w].call.known => bucket.policy # "open"
      BY <3>1 DEF KnownOK
    <3>4. bucket.etag < next /\ (bucket.etag = 0 => bucket.reg = 0)
      BY DEF Base, CoreOK, Registered
    <3>5. etag = 0 => bucket.reg \notin work[w].call.known
      BY <2>1, <3>1, <3>2, <3>3, <3>4
    <3>6. etag # 0 => etag < next /\ bucket.policy # "grants"
      BY <1>3, <2>1, <3>4
    <3> QED
      BY <3>5, <3>6 DEF Harmless
  <2>7. work[w].try \in 1..PolicyAttempts /\ work[w].id < next
    BY <1>1, WorkIs DEF CreateOK
  <2>8. CreateOK(k)
    BY <2>4, <2>6, <2>7 DEF CreateOK
  <2>9. LocalOK(k)
    BY <2>4, <2>7, <2>8, CreateLocal DEF CreatePoints
  <2> QED
    BY <2>4, <2>5, <2>9, MoveStep
<1> QED
  BY <1>2, <1>3

\* The PUT of the policy and the next attempt.
LEMMA PutPolicyOK == ASSUME Base, NEW w \in Workers, PutPolicy(w) PROVE Base' /\ OneWrite
<1>1. work[w].pc = "cPutPolicy" /\ UNCHANGED hist
  BY DEF PutPolicy, Is
<1>2. /\ work[w].try \in 1..PolicyAttempts /\ Harmless(work[w].call, work[w].etag)
      /\ CallOK(work[w].call) /\ work[w].id < next
  BY <1>1, WorkIs DEF CreateOK
<1>3. PICK m \in Writes : /\ m = Write(w, "policy") /\ m.op = "policy" /\ m.call = work[w].call
                          /\ m.id = work[w].id /\ m.etag = work[w].etag
  <2>1. PICK m : m = Write(w, "policy")
    OBVIOUS
  <2>2. "policy" \in Ops
    BY DEF Ops
  <2>3. /\ m \in Writes /\ m.op = "policy" /\ m.call = work[w].call
        /\ m.id = work[w].id /\ m.etag = work[w].etag
    BY <2>1, <2>2, PlainWriteIs
  <2> QED
    BY <2>1, <2>3
<1>4. MsgOK(m)
  BY <1>2, <1>3 DEF MsgOK
<1>5. PICK ok \in Locals : ok = AfterPolicy(w) /\ LocalOK(ok)
  BY AfterIs
<1>6. PICK again \in Locals : again = Again(w) /\ LocalOK(again)
  <2>1. CASE work[w].try < PolicyAttempts
    <3>1. PICK l \in Locals : /\ l = Go(w, "cPolicy") /\ l.pc = "cPolicy" /\ l.call = work[w].call
                              /\ l.id = work[w].id /\ l.try = work[w].try
      BY GoIs DEF Points, CreatePoints
    <3>2. PICK n \in 1..PolicyAttempts : n = l.try + 1 /\ n \in Nat
      BY <1>2, <2>1, <3>1, BucketAssumption
    <3>3. PICK k : k = [l EXCEPT !.etag = 0, !.try = n]
      OBVIOUS
    <3>4. k \in Locals /\ k.pc = "cPolicy" /\ k.call = work[w].call /\ k.id = work[w].id
          /\ k.try = n
      BY <3>1, <3>2, <3>3 DEF Locals
    <3>5. [Go(w, "cPolicy") EXCEPT !.etag = 0, !.try = @ + 1] = k
      BY <3>1, <3>2, <3>3, Zenon
    <3>6. k = Again(w)
      BY <2>1, <3>5 DEF Again
    <3>7. CreateOK(k)
      BY <3>2, <3>4 DEF CreateOK
    <3>8. LocalOK(k)
      BY <1>2, <3>4, <3>7, CreateLocal DEF CreatePoints
    <3> QED
      BY <3>4, <3>6, <3>8
  <2>2. CASE ~(work[w].try < PolicyAttempts)
    BY <2>2, IdleOK DEF Again
  <2> QED
    BY <2>1, <2>2
<1>7. PICK after : after = [ok |-> ok, stale |-> again, missing |-> Idle, lost |-> Idle]
  OBVIOUS
<1>8. Send(w, m, after)
  BY <1>3, <1>5, <1>6, <1>7 DEF PutPolicy
<1>9. Answer(m) \in {"ok", "stale", "missing"}
  BY <1>3 DEF Answer
<1>10. after["lost"] \in Locals /\ LocalOK(after["lost"])
  BY <1>7, IdleOK
<1>11. PICK k \in Locals : k = after[Answer(m)] /\ LocalOK(k)
  BY <1>5, <1>6, <1>7, <1>9, IdleOK
<1> QED
  BY <1>1, <1>3, <1>4, <1>8, <1>10, <1>11, SendOK

\* The PATCHes for versioning and object lock.
LEMMA PatchBucketOK == ASSUME Base, NEW w \in Workers, PatchBucket(w) PROVE Base' /\ OneWrite
<1>1. UNCHANGED hist
  BY DEF PatchBucket
<1>2. ASSUME NEW op \in {"version", "lock"}, NEW ok \in Locals, LocalOK(ok),
             Send(w, Write(w, op), [ok |-> ok, missing |-> Idle, lost |-> Idle])
      PROVE  Base' /\ OneWrite
  <2>1. PICK m \in Writes : /\ m = Write(w, op) /\ m.op = op /\ m.call = work[w].call
                            /\ m.id = work[w].id
    <3>1. PICK m : m = Write(w, op)
      OBVIOUS
    <3>2. op \in Ops
      BY DEF Ops
    <3>3. m \in Writes /\ m.op = op /\ m.call = work[w].call /\ m.id = work[w].id
      BY <3>1, <3>2, PlainWriteIs
    <3> QED
      BY <3>1, <3>3
  <2>2. MsgOK(m)
    BY <2>1, FreeWrite
  <2>3. PICK after : after = [ok |-> ok, missing |-> Idle, lost |-> Idle]
    OBVIOUS
  <2>4. Send(w, m, after)
    BY <1>2, <2>1, <2>3
  <2>5. Answer(m) \in {"ok", "missing"}
    BY <2>1 DEF Answer
  <2>6. after["lost"] \in Locals /\ LocalOK(after["lost"])
    BY <2>3, IdleOK
  <2>7. PICK k \in Locals : k = after[Answer(m)] /\ LocalOK(k)
    BY <1>2, <2>3, <2>5, IdleOK
  <2> QED
    BY <1>1, <2>1, <2>2, <2>4, <2>6, <2>7, SendOK
<1>3. PICK k1 \in Locals : k1 = AfterVersion(w) /\ LocalOK(k1)
  BY AfterIs
<1>4. PICK k2 \in Locals : k2 = AfterLock(w) /\ LocalOK(k2)
  BY AfterIs
<1>5. \/ Send(w, Write(w, "version"), [ok |-> k1, missing |-> Idle, lost |-> Idle])
      \/ Send(w, Write(w, "lock"), [ok |-> k2, missing |-> Idle, lost |-> Idle])
  BY <1>3, <1>4 DEF PatchBucket
<1> QED
  BY <1>2, <1>3, <1>4, <1>5

\* The quota is there.
LEMMA HasQuotaIs ==
    ASSUME Base, NEW w \in Workers, NEW k, k = HasQuota(w)
    PROVE  k \in Locals /\ LocalOK(k)
<1>1. PICK l \in Locals : l = Go(w, "cRoot") /\ l.pc = "cRoot" /\ l.call = work[w].call
  BY GoIs DEF Points, CreatePoints
<1>2. k = [l EXCEPT !.id = 0, !.etag = 0]
  BY <1>1 DEF HasQuota
<1>3. k \in Locals /\ k.pc = "cRoot" /\ k.call = work[w].call /\ k.id = 0
  <2>1. k \in Locals
    <3>1. [l EXCEPT !.id = 0, !.etag = 0] \in Locals
      BY DEF Locals
    <3> QED
      BY <1>2, <3>1
  <2>2. k.pc = "cRoot" /\ k.call = work[w].call
    BY <1>1, <1>2 DEF Locals
  <2>3. k.id = 0
    BY <1>1, <1>2 DEF Locals
  <2> QED
    BY <2>1, <2>2, <2>3
<1>4. 0 < next
  BY DEF Base, CoreTypes
<1> QED
  BY <1>3, <1>4, LaterOK

\* A point at which the handler knows the directory of the quota.
LEMMA QuotaPoint ==
    ASSUME Base, NEW w \in Workers, NEW k \in Locals, k.call = work[w].call, k.id < next,
           k.id # 0, k.pc \in {"cQuota", "cQuotaGet", "cQuotaPut"}
    PROVE  LocalOK(k)
<1>1. CreateOK(k)
  BY DEF CreateOK
<1> QED
  BY <1>1, CreateLocal DEF CreatePoints

\* applyQuota finds the directory.
LEMMA QuotaRootOK == ASSUME Base, NEW w \in Workers, QuotaRoot(w) PROVE Base' /\ Evolves
<1>1. Move(w, IF At(work[w].cur.path) = 0 THEN Idle
              ELSE [Go(w, "cQuota") EXCEPT !.id = At(work[w].cur.path)])
  BY DEF QuotaRoot
<1>2. CASE At(work[w].cur.path) = 0
  BY <1>1, <1>2, IdleOK, MoveStep
<1>3. CASE At(work[w].cur.path) # 0
  <2>1. PICK p \in Paths : p = work[w].cur.path
    BY WorkIs DEF Locals
  <2>2. PICK id \in Nat : id = At(p) /\ id # 0 /\ id < next
    <3>1. AtTypes
      BY AtTypesNext DEF Base
    <3>2. PICK f \in files : f.path = p /\ f.id = At(p)
      BY <1>3, <2>1, <3>1 DEF AtTypes
    <3>3. f.id # 0 /\ f.id < next
      BY DEF Base, CoreOK
    <3> QED
      BY <3>1, <3>2, <3>3 DEF AtTypes
  <2>3. PICK l \in Locals : l = Go(w, "cQuota") /\ l.pc = "cQuota" /\ l.call = work[w].call
    BY GoIs DEF Points, CreatePoints
  <2>4. PICK k : k = [l EXCEPT !.id = id]
    OBVIOUS
  <2>5. k \in Locals /\ k.pc = "cQuota" /\ k.call = work[w].call /\ k.id = id
    BY <2>3, <2>4 DEF Locals
  <2>6. Move(w, k)
    BY <1>1, <1>3, <2>1, <2>2, <2>3, <2>4
  <2>7. LocalOK(k)
    BY <2>2, <2>5, QuotaPoint
  <2> QED
    BY <2>5, <2>6, <2>7, MoveStep
<1> QED
  BY <1>2, <1>3

\* A write to a quota and the answers it may get.
LEMMA QuotaWrite ==
    ASSUME Base, NEW w \in Workers, NEW op \in {"quota", "limit"}, NEW m, m = Write(w, op)
    PROVE  /\ m \in Writes /\ MsgOK(m) /\ m.call = work[w].call
           /\ Answer(m) \in {"ok", "exists", "missing", "stale"}
           /\ op = "quota" => Answer(m) # "stale"
           /\ op = "limit" => Answer(m) # "exists"
<1>1. op \in Ops
  BY DEF Ops
<1>2. m \in Writes /\ m.op = op /\ m.call = work[w].call /\ m.id = work[w].id
  BY <1>1, PlainWriteIs
<1>3. MsgOK(m)
  BY <1>2, FreeWrite
<1> QED
  BY <1>2, <1>3 DEF Answer

\* The POST of the quota.
LEMMA CreateQuotaOK == ASSUME Base, NEW w \in Workers, CreateQuota(w) PROVE Base' /\ OneWrite
<1>1. work[w].pc = "cQuota" /\ UNCHANGED hist
  BY DEF CreateQuota, Is
<1>2. PICK m : m = Write(w, "quota")
  OBVIOUS
<1>3. m \in Writes /\ MsgOK(m) /\ m.call = work[w].call /\ Answer(m) \in {"ok", "exists", "missing"}
  BY <1>2, QuotaWrite
<1>4. PICK ok \in Locals : ok = HasQuota(w) /\ LocalOK(ok)
  BY HasQuotaIs
<1>5. PICK get \in Locals : get = Go(w, "cQuotaGet") /\ LocalOK(get)
  <2>1. PICK l \in Locals : /\ l = Go(w, "cQuotaGet") /\ l.pc = "cQuotaGet"
                            /\ l.call = work[w].call /\ l.id = work[w].id
    BY GoIs DEF Points, CreatePoints
  <2>2. l.id # 0 /\ l.id < next
    BY <1>1, <2>1, WorkIs DEF CreateOK
  <2> QED
    BY <2>1, <2>2, QuotaPoint
<1>6. PICK after : after = [ok |-> ok, exists |-> get, missing |-> Idle, lost |-> get]
  OBVIOUS
<1>7. Send(w, m, after)
  BY <1>2, <1>4, <1>5, <1>6 DEF CreateQuota
<1>8. after["lost"] \in Locals /\ LocalOK(after["lost"])
  BY <1>5, <1>6
<1>9. PICK k \in Locals : k = after[Answer(m)] /\ LocalOK(k)
  BY <1>3, <1>4, <1>5, <1>6, IdleOK
<1> QED
  BY <1>1, <1>3, <1>7, <1>8, <1>9, SendOK

\* The quota is read back.
LEMMA GetQuotaOK == ASSUME Base, NEW w \in Workers, GetQuota(w) PROVE Base' /\ Evolves
<1>1. /\ work[w].pc = "cQuotaGet"
      /\ Move(w, IF QuotaOf(work[w].id) = {} THEN Idle
                 ELSE LET q == CHOOSE q \in QuotaOf(work[w].id) : TRUE
                      IN  IF q.limit = Class(w).quota THEN HasQuota(w)
                          ELSE [Go(w, "cQuotaPut") EXCEPT !.etag = q.etag])
  BY DEF GetQuota, Is
<1>2. CASE QuotaOf(work[w].id) = {}
  BY <1>1, <1>2, IdleOK, MoveStep
<1>3. CASE QuotaOf(work[w].id) # {}
  <2>1. PICK q : q = (CHOOSE r \in QuotaOf(work[w].id) : TRUE)
    OBVIOUS
  <2>2. q \in QuotaOf(work[w].id)
    BY <1>3, <2>1
  <2>3. q.etag \in Nat
    BY <2>2 DEF QuotaOf, Base, CoreTypes
  <2>4. CASE q.limit = Class(w).quota
    <3>1. PICK k \in Locals : k = HasQuota(w) /\ LocalOK(k)
      BY HasQuotaIs
    <3>2. Move(w, k)
      BY <1>1, <1>3, <2>1, <2>4, <3>1
    <3> QED
      BY <3>1, <3>2, MoveStep
  <2>5. CASE q.limit # Class(w).quota
    <3>1. PICK l \in Locals : /\ l = Go(w, "cQuotaPut") /\ l.pc = "cQuotaPut"
                              /\ l.call = work[w].call /\ l.id = work[w].id
      BY GoIs DEF Points, CreatePoints
    <3>2. PICK k : k = [l EXCEPT !.etag = q.etag]
      OBVIOUS
    <3>3. k \in Locals /\ k.pc = "cQuotaPut" /\ k.call = work[w].call /\ k.id = work[w].id
      BY <2>3, <3>1, <3>2 DEF Locals
    <3>4. Move(w, k)
      BY <1>1, <1>3, <2>1, <2>5, <3>1, <3>2
    <3>5. k.id # 0 /\ k.id < next
      BY <1>1, <3>3, WorkIs DEF CreateOK
    <3> QED
      BY <3>3, <3>4, <3>5, QuotaPoint, MoveStep
  <2> QED
    BY <2>4, <2>5
<1> QED
  BY <1>2, <1>3

\* The PUT of the quota's limit.
LEMMA UpdateQuotaOK == ASSUME Base, NEW w \in Workers, UpdateQuota(w) PROVE Base' /\ OneWrite
<1>1. UNCHANGED hist
  BY DEF UpdateQuota
<1>2. PICK m : m = Write(w, "limit")
  OBVIOUS
<1>3. m \in Writes /\ MsgOK(m) /\ m.call = work[w].call /\ Answer(m) \in {"ok", "stale", "missing"}
  BY <1>2, QuotaWrite
<1>4. PICK ok \in Locals : ok = HasQuota(w) /\ LocalOK(ok)
  BY HasQuotaIs
<1>5. PICK after : after = [ok |-> ok, stale |-> Idle, missing |-> Idle, lost |-> Idle]
  OBVIOUS
<1>6. Send(w, m, after)
  BY <1>2, <1>4, <1>5 DEF UpdateQuota
<1>7. after["lost"] \in Locals /\ LocalOK(after["lost"])
  BY <1>5, IdleOK
<1>8. PICK k \in Locals : k = after[Answer(m)] /\ LocalOK(k)
  BY <1>3, <1>4, <1>5, IdleOK
<1> QED
  BY <1>1, <1>3, <1>6, <1>7, <1>8, SendOK

\* The GetBucket of an import.
LEMMA ImportGetOK == ASSUME Base, NEW w \in Workers, ImportGet(w) PROVE Base' /\ Evolves
<1>1. Move(w, IF Registered THEN [Go(w, "iRoot") EXCEPT !.cur = Rest(bucket)] ELSE Idle)
  BY DEF ImportGet
<1>2. CASE ~Registered
  BY <1>1, <1>2, IdleOK, MoveStep
<1>3. CASE Registered
  <2>1. PICK cur \in [path : Paths, versioning : Versionings, lock : BOOLEAN] : cur = Rest(bucket)
    BY FactsType
  <2>2. PICK l \in Locals : /\ l = Go(w, "iRoot") /\ l.pc = "iRoot" /\ l.call = work[w].call
                            /\ l.id = work[w].id
    BY GoIs DEF Points, CreatePoints
  <2>3. PICK k : k = [l EXCEPT !.cur = cur]
    OBVIOUS
  <2>4. k \in Locals /\ k.pc = "iRoot" /\ k.call = work[w].call /\ k.id = work[w].id
    BY <2>1, <2>2, <2>3 DEF Locals
  <2>5. Move(w, k)
    BY <1>1, <1>3, <2>1, <2>2, <2>3
  <2>6. LocalOK(k)
    BY <2>4, WorkIs, LaterOK
  <2> QED
    BY <2>4, <2>5, <2>6, MoveStep
<1> QED
  BY <1>2, <1>3

\* A create or an import returns a handle.
LEMMA ReturnsOK ==
    ASSUME Base, NEW w \in Workers, NEW managed \in BOOLEAN, Returns(w, managed),
           At(work[w].cur.path) # 0
    PROVE  Base' /\ Evolves
<1>1. World /\ hist \in [handles : SUBSET Handles,
                 ready : SUBSET [call : Calls, reg : Nat, id : Nat],
                 deleted : SUBSET [handle : Handles, purged : BOOLEAN], purged : SUBSET Nat]
      /\ bucket \in Buckets /\ next \in Nat
  BY DEF Base, World, CoreTypes
<1>2. PICK p \in Paths : p = work[w].cur.path
  BY WorkIs DEF Locals
<1>3. PICK id \in Nat : id = At(p) /\ id # 0 /\ id < next
  <2>1. AtTypes
    BY AtTypesNext DEF Base
  <2>2. PICK f \in files : f.path = p /\ f.id = At(p)
    BY <1>2, <2>1 DEF AtTypes
  <2>3. f.id # 0 /\ f.id < next
    BY DEF Base, CoreOK
  <2> QED
    BY <2>1, <2>2, <2>3 DEF AtTypes
<1>4. PICK h \in Handles : h = [path |-> p, id |-> id, managed |-> managed] /\ h.id = id
  <2>1. PICK h : h = [path |-> p, id |-> id, managed |-> managed]
    OBVIOUS
  <2>2. h \in Handles /\ h.id = id
    BY <2>1 DEF Handles
  <2> QED
    BY <2>1, <2>2
<1>6. PICK ready \in SUBSET [call : Calls, reg : Nat, id : Nat] :
        ready = IF managed /\ work[w].calm
                THEN {[call |-> [work[w].call EXCEPT !.known = {}], reg |-> bucket.reg, id |-> id]}
                ELSE {}
  <2>1. PICK c \in Calls : c = [work[w].call EXCEPT !.known = {}]
    <3>1. [work[w].call EXCEPT !.known = {}] \in Calls
      BY WorkIs DEF Calls
    <3> QED
      BY <3>1
  <2>2. PICK r \in [call : Calls, reg : Nat, id : Nat] : r = [call |-> c, reg |-> bucket.reg, id |-> id]
    BY <1>1 DEF Buckets
  <2>3. {r} \in SUBSET [call : Calls, reg : Nat, id : Nat]
    OBVIOUS
  <2>4. {[call |-> [work[w].call EXCEPT !.known = {}], reg |-> bucket.reg, id |-> id]} = {r}
    BY <2>1, <2>2, Zenon
  <2> QED
    BY <2>3, <2>4
<1>7. /\ hist' = [hist EXCEPT !.handles = @ \cup {h}, !.ready = @ \cup ready]
      /\ work' = [work EXCEPT ![w] = Idle]
      /\ UNCHANGED <<core, late, count>>
  BY <1>2, <1>3, <1>4, <1>6, Zenon DEF Returns
<1>8. /\ hist' \in [handles : SUBSET Handles,
                 ready : SUBSET [call : Calls, reg : Nat, id : Nat],
                 deleted : SUBSET [handle : Handles, purged : BOOLEAN], purged : SUBSET Nat]
      /\ hist'.handles = hist.handles \cup {h}
      /\ hist'.deleted = hist.deleted /\ hist'.purged = hist.purged
  <2>1. PICK ready2 \in SUBSET [call : Calls, reg : Nat, id : Nat] : ready2 = hist.ready \cup ready
    BY <1>1
  <2>2. PICK handles2 \in SUBSET Handles : handles2 = hist.handles \cup {h}
    BY <1>1
  <2>4. hist' = [hist EXCEPT !.handles = handles2, !.ready = ready2]
    BY <1>7, <2>1, <2>2, Zenon
  <2>5. hist' \in [handles : SUBSET Handles,
                 ready : SUBSET [call : Calls, reg : Nat, id : Nat],
                 deleted : SUBSET [handle : Handles, purged : BOOLEAN], purged : SUBSET Nat]
    BY <1>1, <2>4
  <2>6. hist'.handles = handles2
        /\ hist'.deleted = hist.deleted /\ hist'.purged = hist.purged
    BY <1>1, <2>4
  <2> QED
    BY <2>2, <2>5, <2>6
<1>9. bucket' = bucket /\ next' = next /\ jobs' = jobs /\ UNCHANGED <<files, quotas>>
  BY <1>7 DEF core
<1>10. CoreTypes' /\ CoreOK' /\ Evolves
  <2>1. /\ hist.handles \subseteq hist'.handles /\ hist.purged \subseteq hist'.purged
    BY <1>8, <1>9
  <2> QED
    BY <1>1, <1>8, <1>9, <2>1, BucketChanges DEF World, CoreTypes, CoreOK, Buckets
<1>11. HistOK'
  <2>1. \A j \in jobs' : j.id # 0 /\ j.id < next /\ j.id \in hist'.purged
    BY <1>1, <1>8, <1>9 DEF World, HistOK
  <2>2. \A i \in hist'.handles : i \in hist.handles \/ (i.id < next /\ (i.managed => i.id # 0))
    BY <1>3, <1>4, <1>8
  <2>3. \A d \in hist'.deleted : d \in hist.deleted
    BY <1>8
  <2> QED
    BY <1>1, <1>10, <2>1, <2>2, <2>3, HistGrows
<1>12. PICK k \in Locals : k = Idle /\ LocalOK(k)
  BY IdleOK
<1>13. /\ work' \in [Workers -> Locals]
       /\ \A v \in Workers : work'[v] \in {work[v], k}
  BY <1>7, <1>12 DEF Base
<1>14. \A v \in Workers : work[v] \in Locals /\ LocalOK(work[v])
  BY DEF Base
<1>15. /\ late' \subseteq Writes /\ \A n \in late' : n \in late
       /\ count' \in [requests : Nat, faults : Nat]
  BY <1>7 DEF Base
<1> QED
  BY <1>10, <1>11, <1>12, <1>13, <1>14, <1>15, BaseFrom DEF World

\* The end of a create or an import.
LEMMA RootFoundOK ==
    ASSUME Base, NEW w \in Workers, NEW p, NEW managed \in BOOLEAN, RootFound(w, p, managed)
    PROVE  Base' /\ Evolves
<1>1. CASE At(work[w].cur.path) = 0
  BY <1>1, IdleOK, MoveStep DEF RootFound
<1>2. CASE At(work[w].cur.path) # 0
  BY <1>2, ReturnsOK DEF RootFound
<1> QED
  BY <1>1, <1>2

\* A worker that goes on in its delete.
LEMMA GoDelete ==
    ASSUME Base, NEW w \in Workers, NEW p \in DeletePoints, NEW k, k = Go(w, p)
    PROVE  /\ k \in Locals /\ k.pc = p /\ k.call = work[w].call /\ k.id = work[w].id
           /\ k.try = work[w].try /\ k.id < next
<1>1. p \in Points
  BY DEF Points
<1>2. /\ k \in Locals /\ k.pc = p /\ k.call = work[w].call /\ k.id = work[w].id
      /\ k.try = work[w].try
  BY <1>1, GoIs
<1>3. k.id < next
  BY <1>2, WorkIs
<1> QED
  BY <1>2, <1>3

\* The handle of a worker's call.
LEMMA NamedIs ==
    ASSUME Base, NEW w \in Workers
    PROVE  /\ Named(w) = work[w].call.handle /\ Ctx(w) = work[w].call.ctx
           /\ Named(w) \in Handles /\ Named(w) \in hist.handles
           /\ Named(w).id \in Nat /\ Named(w).path \in Paths /\ Named(w).id < next
           /\ Ctx(w) = "purge" => Named(w).id # 0 /\ Named(w).id \in hist.purged
<1>1. CallOK(work[w].call) /\ work[w].call \in Calls
  BY WorkIs
<1>2. \A h \in hist.handles : h.id < next /\ (h.managed => h.id # 0)
  BY DEF Base, HistOK
<1> QED
  BY <1>1, <1>2 DEF Named, Ctx, CallOK, Calls, Handles

\* The GetBucket of a delete.
LEMMA DeleteGetOK == ASSUME Base, NEW w \in Workers, DeleteGet(w) PROVE Base' /\ Evolves
<1>1. /\ work[w].pc = "dGet"
      /\ Move(w, IF ~Registered THEN Go(w, IF Ctx(w) = "purge" THEN "dResume" ELSE "dDone")
                 ELSE IF Legacy(w) THEN Go(w, "dDrop")
                 ELSE IF bucket.path = Named(w).path THEN Go(w, "dRoot") ELSE Idle)
  BY DEF DeleteGet, Is
<1>2. /\ work[w].id = 0 /\ work[w].try = 1
  BY <1>1, WorkIs DEF DeleteOK
<1>3. /\ Named(w) = work[w].call.handle /\ Ctx(w) = work[w].call.ctx
      /\ Ctx(w) = "purge" => Named(w).id # 0
  BY NamedIs
<1>4. CASE Move(w, Idle)
  BY <1>4, IdleOK, MoveStep
<1>5. CASE ~Registered /\ Ctx(w) = "purge"
  <2>1. PICK k \in Locals : /\ k = Go(w, "dResume") /\ k.pc = "dResume" /\ k.call = work[w].call
                            /\ k.id = 0 /\ k.try = 1 /\ k.id < next
    BY <1>2, GoDelete DEF DeletePoints
  <2>2. DeleteOK(k)
    BY <1>3, <1>5, <2>1 DEF DeleteOK, InPlace
  <2>3. LocalOK(k)
    BY <2>1, <2>2, DeleteLocal DEF DeletePoints
  <2> QED
    BY <1>1, <1>5, <2>1, <2>3, MoveStep
<1>6. CASE ~Registered /\ Ctx(w) # "purge"
  <2>1. PICK k \in Locals : /\ k = Go(w, "dDone") /\ k.pc = "dDone" /\ k.call = work[w].call
                            /\ k.id < next
    BY GoDelete DEF DeletePoints
  <2>2. DeleteOK(k)
    BY <1>3, <1>6, <2>1 DEF DeleteOK, InPlace, Done
  <2>3. LocalOK(k)
    BY <2>1, <2>2, DeleteLocal DEF DeletePoints
  <2> QED
    BY <1>1, <1>6, <2>1, <2>3, MoveStep
<1>7. CASE Registered /\ Legacy(w)
  <2>1. PICK k \in Locals : /\ k = Go(w, "dDrop") /\ k.pc = "dDrop" /\ k.call = work[w].call
                            /\ k.id = 0 /\ k.try = 1 /\ k.id < next
    BY <1>2, GoDelete DEF DeletePoints
  <2>2. Named(w).id = 0
    BY <1>7 DEF Legacy
  <2>3. Droppable(k.call)
    BY <1>3, <2>1, <2>2 DEF Droppable, MayDrop
  <2>4. DeleteOK(k)
    BY <1>3, <2>1, <2>2, <2>3 DEF DeleteOK
  <2>5. LocalOK(k)
    BY <2>1, <2>4, DeleteLocal DEF DeletePoints
  <2> QED
    BY <1>1, <1>7, <2>1, <2>5, MoveStep
<1>8. CASE Registered /\ ~Legacy(w) /\ bucket.path = Named(w).path
  <2>1. PICK k \in Locals : /\ k = Go(w, "dRoot") /\ k.pc = "dRoot" /\ k.call = work[w].call
                            /\ k.id = 0 /\ k.try = 1 /\ k.id < next
    BY <1>2, GoDelete DEF DeletePoints
  <2>2. DeleteOK(k)
    BY <1>3, <1>8, <2>1 DEF DeleteOK, Legacy
  <2>3. LocalOK(k)
    BY <2>1, <2>2, DeleteLocal DEF DeletePoints
  <2> QED
    BY <1>1, <1>8, <2>1, <2>3, MoveStep
<1> QED
  BY <1>1, <1>4, <1>5, <1>6, <1>7, <1>8

\* A purge is resumed after the bucket was unregistered.
LEMMA DeleteResumeOK == ASSUME Base, NEW w \in Workers, DeleteResume(w) PROVE Base' /\ Evolves
<1>1. /\ work[w].pc = "dResume"
      /\ Move(w, IF At(Named(w).path) = 0 THEN Go(w, "dDone")
                 ELSE IF At(Named(w).path) = Named(w).id
                      THEN [Go(w, "dJob") EXCEPT !.id = At(Named(w).path)] ELSE Idle)
  BY DEF DeleteResume, Is
<1>2. PICK h \in Handles : /\ h = Named(w) /\ h = work[w].call.handle /\ h.id # 0 /\ h.id \in Nat
                           /\ h.id < next /\ ~InPlace(h) /\ work[w].call.ctx = "purge"
  BY <1>1, NamedIs, WorkIs DEF DeleteOK
<1>3. CASE At(h.path) = 0
  <2>1. PICK k \in Locals : /\ k = Go(w, "dDone") /\ k.pc = "dDone" /\ k.call = work[w].call
                            /\ k.id < next
    BY GoDelete DEF DeletePoints
  <2>2. DeleteOK(k)
    BY <1>2, <1>3, <2>1 DEF DeleteOK, Done
  <2>3. LocalOK(k)
    BY <2>1, <2>2, DeleteLocal DEF DeletePoints
  <2> QED
    BY <1>1, <1>2, <1>3, <2>1, <2>3, MoveStep
<1>4. CASE At(h.path) # 0 /\ At(h.path) = h.id
  <2>1. PICK l \in Locals : l = Go(w, "dJob") /\ l.pc = "dJob" /\ l.call = work[w].call
    BY GoDelete DEF DeletePoints
  <2>6. PICK k : k = [l EXCEPT !.id = h.id]
    OBVIOUS
  <2>2. k \in Locals /\ k.pc = "dJob" /\ k.call = work[w].call /\ k.id = h.id
    BY <1>2, <2>1, <2>6 DEF Locals
  <2>3. Move(w, k)
    BY <1>1, <1>2, <1>4, <2>1, <2>6
  <2>4. DeleteOK(k)
    BY <1>2, <2>2 DEF DeleteOK
  <2>5. LocalOK(k)
    BY <1>2, <2>2, <2>4, DeleteLocal DEF DeletePoints
  <2> QED
    BY <2>2, <2>3, <2>5, MoveStep
<1>5. CASE At(h.path) # 0 /\ At(h.path) # h.id
  BY <1>1, <1>2, <1>5, IdleOK, MoveStep
<1> QED
  BY <1>3, <1>4, <1>5

\* The DELETE of the bucket, or the uploads before it, come next.
LEMMA UnregisterIs ==
    ASSUME Base, NEW w \in Workers, NEW i \in Nat, i < next, work[w].try \in 1..2,
           Droppable(work[w].call),
           i # 0 => i = Named(w).id /\ Ctx(w) = "purge",
           i = 0 /\ Ctx(w) = "purge" => At(Named(w).path) # Named(w).id,
           NEW l, l = Unregister(w), NEW k, k = [l EXCEPT !.id = i]
    PROVE  k \in Locals /\ LocalOK(k)
<1>1. PICK p \in {"dAbort", "dDrop"} : p = IF Ctx(w) = "root" THEN "dAbort" ELSE "dDrop"
  OBVIOUS
<1>2. l = Go(w, p) /\ p \in DeletePoints
  BY <1>1 DEF Unregister, DeletePoints
<1>3. l \in Locals /\ l.pc = p /\ l.call = work[w].call /\ l.try = work[w].try
  BY <1>2, GoDelete
<1>4. k \in Locals /\ k.pc = p /\ k.call = work[w].call /\ k.try = work[w].try /\ k.id = i
  BY <1>3 DEF Locals
<1>5. DeleteOK(k)
  BY <1>1, <1>4, NamedIs DEF DeleteOK
<1> QED
  BY <1>2, <1>4, <1>5, DeleteLocal

\* The file ID at the path is compared with the recorded one: after that the call may
\* unregister the bucket, and a purge knows its directory.
LEMMA DeleteRootOK == ASSUME Base, NEW w \in Workers, DeleteRoot(w) PROVE Base' /\ Evolves
<1>1. /\ work[w].pc = "dRoot"
      /\ Move(w, IF At(Named(w).path) = Named(w).id
                 THEN [Unregister(w) EXCEPT !.id = IF Ctx(w) = "purge" THEN At(Named(w).path) ELSE 0]
                 ELSE IF At(Named(w).path) = 0 /\ Ctx(w) = "purge" THEN Unregister(w) ELSE Idle)
  BY DEF DeleteRoot, Is
<1>2. PICK h \in Handles : /\ h = Named(w) /\ h = work[w].call.handle /\ h.id # 0 /\ h.id \in Nat
                           /\ h.id < next /\ h.path \in Paths
                           /\ Registered /\ bucket.reg < work[w].call.since => bucket.path = h.path
  BY <1>1, NamedIs, WorkIs DEF DeleteOK
<1>3. work[w].id = 0 /\ work[w].try \in 1..2 /\ work[w].try = 1
  BY <1>1, WorkIs DEF DeleteOK
<1>4. next \in Nat /\ 0 < next /\ bucket.reg \in Nat /\ work[w].call.since \in Nat
  BY WorkIs DEF Base, CoreTypes, Buckets, Calls
<1>5. CASE At(h.path) = h.id
  <2>1. PICK i \in Nat : /\ i = (IF Ctx(w) = "purge" THEN At(Named(w).path) ELSE 0)
                         /\ i \in {0, h.id}
                         /\ i # 0 => Ctx(w) = "purge"
                         /\ i = 0 => Ctx(w) # "purge"
    BY <1>2, <1>5
  <2>2. Droppable(work[w].call)
    BY <1>2, <1>4, <1>5 DEF Droppable, MayDrop
  <2>3. PICK l : l = Unregister(w)
    OBVIOUS
  <2>4. PICK k : k = [l EXCEPT !.id = i]
    OBVIOUS
  <2>5. i < next /\ (i # 0 => i = Named(w).id /\ Ctx(w) = "purge")
        /\ (i = 0 /\ Ctx(w) = "purge" => At(Named(w).path) # Named(w).id)
    BY <1>2, <1>4, <2>1
  <2>6. k \in Locals /\ LocalOK(k)
    BY <1>3, <2>2, <2>3, <2>4, <2>5, UnregisterIs
  <2>7. Move(w, k)
    BY <1>1, <1>2, <1>5, <2>1, <2>3, <2>4
  <2> QED
    BY <2>6, <2>7, MoveStep
<1>6. CASE At(h.path) # h.id /\ At(h.path) = 0 /\ Ctx(w) = "purge"
  <2>1. Droppable(work[w].call)
    BY <1>2, <1>4, <1>6 DEF Droppable, MayDrop
  <2>2. PICK p \in {"dAbort", "dDrop"} : Unregister(w) = Go(w, p) /\ p \in DeletePoints
    BY DEF Unregister, DeletePoints
  <2>3. PICK k \in Locals : /\ k = Unregister(w) /\ k.pc = p /\ k.call = work[w].call
                            /\ k.try = 1 /\ k.id = 0
    BY <1>3, <2>2, GoDelete
  <2>4. DeleteOK(k)
    BY <1>2, <1>6, <2>1, <2>3 DEF DeleteOK
  <2>5. LocalOK(k)
    BY <1>4, <2>2, <2>3, <2>4, DeleteLocal
  <2>6. Move(w, k)
    BY <1>1, <1>2, <1>6, <2>3
  <2> QED
    BY <2>3, <2>5, <2>6, MoveStep
<1>7. CASE At(h.path) # h.id /\ ~(At(h.path) = 0 /\ Ctx(w) = "purge")
  BY <1>1, <1>2, <1>7, IdleOK, MoveStep
<1> QED
  BY <1>5, <1>6, <1>7

\* A worker goes from one of dAbort and dDrop to the other.
LEMMA DropPoint ==
    ASSUME Base, NEW w \in Workers, work[w].pc \in {"dAbort", "dDrop"},
           NEW p \in {"dAbort", "dDrop"}, NEW try \in 1..2, NEW k \in Locals, k.pc = p,
           k.call = work[w].call, k.id = work[w].id, k.try = try
    PROVE  LocalOK(k)
<1>1. DeleteOK(work[w]) /\ work[w].id < next
  BY WorkIs
<1>2. DeleteOK(k)
  BY <1>1 DEF DeleteOK
<1> QED
  BY <1>1, <1>2, DeleteLocal DEF DeletePoints

\* AbortAllUploads.
LEMMA AbortUploadsOK == ASSUME Base, NEW w \in Workers, AbortUploads(w) PROVE Base' /\ OneWrite
<1>1. work[w].pc = "dAbort" /\ UNCHANGED hist
  BY DEF AbortUploads, Is
<1>2. PICK m : m = Write(w, "abort")
  OBVIOUS
<1>3. m \in Writes /\ MsgOK(m) /\ m.op = "abort" /\ m.call = work[w].call
  <2>1. "abort" \in Ops
    BY DEF Ops
  <2>2. m \in Writes /\ m.op = "abort" /\ m.call = work[w].call /\ m.id = work[w].id
    BY <1>2, <2>1, PlainWriteIs
  <2> QED
    BY <2>2, FreeWrite
<1>4. PICK ok \in Locals : ok = Go(w, "dDrop") /\ LocalOK(ok)
  <2>1. PICK k \in Locals : /\ k = Go(w, "dDrop") /\ k.pc = "dDrop" /\ k.call = work[w].call
                            /\ k.id = work[w].id /\ k.try = work[w].try
    BY GoDelete DEF DeletePoints
  <2>2. work[w].try \in 1..2
    BY <1>1, WorkIs DEF DeleteOK
  <2> QED
    BY <1>1, <2>1, <2>2, DropPoint
<1>5. PICK lost \in Locals :
        LocalOK(lost) /\ lost = IF work[w].try = 1 THEN Go(w, "dDrop") ELSE Idle
  BY <1>4, IdleOK
<1>6. PICK after : after = [ok |-> ok, lost |-> lost]
  OBVIOUS
<1>7. Send(w, m, after)
  BY <1>2, <1>4, <1>5, <1>6 DEF AbortUploads
<1>8. Answer(m) = "ok"
  BY <1>3 DEF Answer
<1>9. after["lost"] \in Locals /\ LocalOK(after["lost"])
  BY <1>5, <1>6
<1>10. PICK k \in Locals : k = after[Answer(m)] /\ LocalOK(k)
  BY <1>4, <1>6, <1>8
<1> QED
  BY <1>1, <1>3, <1>7, <1>9, <1>10, SendOK

\* The DELETE of the bucket: once it is answered the bucket of the handle is
\* unregistered.
LEMMA DropBucketOK == ASSUME Base, NEW w \in Workers, DropBucket(w) PROVE Base' /\ OneWrite
<1>1. work[w].pc = "dDrop" /\ UNCHANGED hist
  BY DEF DropBucket, Is
<1>2. PICK h \in Handles : /\ h = work[w].call.handle /\ h.id \in Nat /\ h.id < next
                           /\ h.path \in Paths
                           /\ work[w].call.ctx = "purge" => h.id # 0
  BY NamedIs
<1>3. /\ Droppable(work[w].call)
      /\ work[w].id # 0 => work[w].id = h.id /\ work[w].call.ctx = "purge"
      /\ work[w].id = 0 /\ work[w].call.ctx = "purge" => At(h.path) # h.id
      /\ work[w].id < next
  BY <1>1, <1>2, WorkIs DEF DeleteOK
<1>4. PICK flag \in BOOLEAN : flag = (Ctx(w) = "root")
  BY Zenon
<1>5. PICK m : m = [Write(w, "drop") EXCEPT !.flag = flag]
  OBVIOUS
<1>6. m \in Writes /\ m.op = "drop" /\ m.call = work[w].call /\ m.id = work[w].id
  <2>1. "drop" \in Ops
    BY DEF Ops
  <2>2. flag \in BOOLEAN
    BY <1>4, Zenon
  <2>3. PICK n : n = Write(w, "drop")
    OBVIOUS
  <2>4. n \in Writes /\ n.op = "drop" /\ n.call = work[w].call /\ n.id = work[w].id
    BY <2>1, <2>3, PlainWriteIs
  <2>5. m = [n EXCEPT !.flag = flag]
    BY <1>5, <2>3
  <2> QED
    BY <2>2, <2>4, <2>5 DEF Writes
<1>7. MsgOK(m)
  BY <1>3, <1>6, WorkIs DEF MsgOK
<1>8. PICK p \in {"dDone", "dJob"} : p = IF work[w].id = 0 THEN "dDone" ELSE "dJob"
  OBVIOUS
<1>9. PICK gone \in Locals : /\ gone = Unregistered(w) /\ gone.pc = p /\ gone.call = work[w].call
                             /\ gone.id = work[w].id
  <2>1. p \in DeletePoints
    BY <1>8 DEF DeletePoints
  <2>2. Unregistered(w) = Go(w, p)
    BY <1>8 DEF Unregistered
  <2> QED
    BY <2>1, <2>2, GoDelete
<1>10. PICK full \in Locals : /\ full = IF work[w].try = 1 THEN [Go(w, "dAbort") EXCEPT !.try = 2]
                                        ELSE Idle
                              /\ LocalOK(full)
  <2>1. CASE work[w].try = 1
    <3>1. PICK l \in Locals : /\ l = Go(w, "dAbort") /\ l.pc = "dAbort" /\ l.call = work[w].call
                              /\ l.id = work[w].id
      BY GoDelete DEF DeletePoints
    <3>2. PICK k : k = [l EXCEPT !.try = 2]
      OBVIOUS
    <3>3. k \in Locals /\ k.pc = "dAbort" /\ k.call = work[w].call /\ k.id = work[w].id /\ k.try = 2
      BY <3>1, <3>2 DEF Locals
    <3>4. LocalOK(k)
      BY <1>1, <3>3, DropPoint
    <3> QED
      BY <2>1, <3>1, <3>2, <3>3, <3>4
  <2>2. CASE work[w].try # 1
    BY <2>2, IdleOK
  <2> QED
    BY <2>1, <2>2
<1>11. PICK after : after = [ok |-> gone, missing |-> gone, full |-> full, lost |-> Idle]
  OBVIOUS
<1>12. Send(w, m, after)
  BY <1>4, <1>5, <1>9, <1>10, <1>11 DEF DropBucket
<1>13. Answer(m) \in {"ok", "missing", "full"}
  BY <1>6 DEF Answer
<1>14. after["lost"] \in Locals /\ LocalOK(after["lost"])
  BY <1>11, IdleOK
<1>15. PICK k \in Locals :
         k = after[Answer(m)] /\ (k = full \/ (k = gone /\ Answer(m) \in {"ok", "missing"}))
  BY <1>9, <1>10, <1>11, <1>13
<1>16. ASSUME k = gone, Answer(m) \in {"ok", "missing"}, Commit(m)
       PROVE  LocalOK(k)'
  <2>1. World /\ World' /\ Evolves
    BY <1>1, <1>6, <1>7, <1>16, CommitOK DEF Base, World
  <2>2. ~Registered'
    <3>1. CASE Answer(m) = "ok"
      BY <1>6, <1>16, <3>1 DEF Commit, Effect, NoBucket, Registered
    <3>2. CASE Answer(m) = "missing"
      <4>1. ~Registered
        BY <1>6, <3>2 DEF Answer
      <4>2. bucket' = bucket
        BY <1>16, <3>2 DEF Commit, core
      <4> QED
        BY <4>1, <4>2 DEF Registered
    <3> QED
      BY <1>16, <3>1, <3>2
  <2>3. ~InPlace(h)'
    BY <2>2 DEF InPlace
  <2>4. work[w].id = 0 /\ work[w].call.ctx = "purge" => (At(h.path) # h.id)'
    <3>1. At(h.path) \in Nat /\ At(h.path)' \in Nat /\ next \in Nat
      BY <1>2, <2>1, AtTypesNext DEF World, AtTypes, CoreTypes
    <3> QED
      BY <1>2, <1>3, <2>1, <3>1 DEF Evolves
  <2>5. Done(h, k.call.ctx = "purge")' \/ k.pc # "dDone"
    BY <1>8, <1>9, <1>16, <2>3, <2>4 DEF Done
  <2>6. DeleteOK(k)'
    BY <1>2, <1>3, <1>8, <1>9, <1>16, <2>3, <2>5 DEF DeleteOK
  <2>7. CreateOK(k)'
    BY <1>8, <1>9, <1>16 DEF CreateOK
  <2>8. CallOK(k.call)'
    BY <1>9, <1>16, <2>1, WorkIs, CallStays DEF World
  <2>9. k.id < next'
    BY <1>3, <1>9, <2>1, <1>16 DEF Evolves, World, CoreTypes, Locals
  <2> QED
    BY <2>6, <2>7, <2>8, <2>9 DEF LocalOK
<1>17. Commit(m) => LocalOK(k) \/ LocalOK(k)'
  BY <1>10, <1>15, <1>16
<1> QED
  BY <1>1, <1>6, <1>7, <1>12, <1>14, <1>15, <1>17, SendOK

\* A worker that deletes a directory goes on: it waits once a job is there or
\* the directory is gone, and is done once the directory is gone.
LEMMA TreePoint ==
    ASSUME Base, NEW w \in Workers, work[w].pc \in {"dJob", "dTree", "dRejob", "dWait"},
           NEW p \in {"dTree", "dRejob", "dWait", "dDone"},
           p = "dWait" => JobOf(work[w].id) # {} \/ ~Exists(work[w].id),
           p = "dDone" => ~Exists(work[w].id),
           NEW k, k = Go(w, p)
    PROVE  /\ k \in Locals /\ LocalOK(k) /\ k.pc = p /\ k.call = work[w].call
           /\ k.id = work[w].id /\ k.id < next
<1>1. /\ k \in Locals /\ k.pc = p /\ k.call = work[w].call /\ k.id = work[w].id /\ k.id < next
      /\ p \in DeletePoints
  BY GoDelete DEF DeletePoints
<1>2. PICK h \in Handles : /\ h = work[w].call.handle /\ work[w].id # 0 /\ work[w].id = h.id
                           /\ work[w].call.ctx = "purge" /\ ~InPlace(h)
  BY NamedIs, WorkIs DEF DeleteOK
<1>3. ~Exists(h.id) => At(h.path) # h.id
  <2>1. At(h.path) # 0 => \E f \in files : f.path = h.path /\ f.id = At(h.path)
    BY AtSome DEF Base
  <2> QED
    BY <1>2, <2>1 DEF Exists
<1>4. DeleteOK(k)
  BY <1>1, <1>2, <1>3 DEF DeleteOK, Done
<1> QED
  BY <1>1, <1>4, DeleteLocal

\* What waitForTreeDelete makes of the jobs it is shown.
LEMMA JobSeenOK ==
    ASSUME Base, NEW w \in Workers, work[w].pc \in {"dJob", "dTree", "dRejob", "dWait"},
           NEW none \in Locals, JobOf(work[w].id) = {} => LocalOK(none),
           NEW k, k = JobSeen(w, none)
    PROVE  k \in Locals /\ LocalOK(k)
<1>1. CASE JobOf(work[w].id) = {}
  BY <1>1 DEF JobSeen
<1>2. CASE JobOf(work[w].id) # {} /\ \E j \in JobOf(work[w].id) : j.aborted
  BY <1>2, IdleOK DEF JobSeen
<1>3. CASE JobOf(work[w].id) # {} /\ ~\E j \in JobOf(work[w].id) : j.aborted
  <2>1. k = Go(w, "dWait")
    BY <1>3 DEF JobSeen
  <2> QED
    BY <1>3, <2>1, TreePoint
<1> QED
  BY <1>1, <1>2, <1>3

\* The look for a job, before and after the POST.
LEMMA LookForJobOK == ASSUME Base, NEW w \in Workers, LookForJob(w) PROVE Base' /\ Evolves
<1>1. CASE Is(w, "dJob") /\ Move(w, JobSeen(w, Go(w, "dTree")))
  <2>1. work[w].pc = "dJob"
    BY <1>1 DEF Is
  <2>2. PICK none \in Locals : none = Go(w, "dTree") /\ LocalOK(none)
    BY <2>1, TreePoint
  <2>3. PICK k \in Locals : k = JobSeen(w, none) /\ LocalOK(k)
    BY <2>1, <2>2, JobSeenOK
  <2> QED
    BY <1>1, <2>2, <2>3, MoveStep
<1>2. CASE Is(w, "dRejob") /\ Move(w, JobSeen(w, Idle))
  <2>1. work[w].pc = "dRejob"
    BY <1>2 DEF Is
  <2>2. PICK none \in Locals : none = Idle /\ LocalOK(none)
    BY IdleOK
  <2>3. PICK k \in Locals : k = JobSeen(w, none) /\ LocalOK(k)
    BY <2>1, <2>2, JobSeenOK
  <2> QED
    BY <1>2, <2>2, <2>3, MoveStep
<1> QED
  BY <1>1, <1>2 DEF LookForJob

\* waitForTreeDelete: when there is no job, the directory is gone.
LEMMA WaitForTreeDeleteOK ==
    ASSUME Base, NEW w \in Workers, WaitForTreeDelete(w) PROVE Base' /\ Evolves
<1>1. work[w].pc = "dWait" /\ Move(w, JobSeen(w, Go(w, "dDone")))
  BY DEF WaitForTreeDelete, Is
<1>2. JobOf(work[w].id) # {} \/ ~Exists(work[w].id)
  BY <1>1, WorkIs DEF DeleteOK
<1>3. PICK none : none = Go(w, "dDone")
  OBVIOUS
<1>4. none \in Locals
  BY <1>3, GoDelete DEF DeletePoints
<1>5. JobOf(work[w].id) = {} => LocalOK(none)
  BY <1>1, <1>2, <1>3, TreePoint
<1>6. PICK k \in Locals : k = JobSeen(w, none) /\ LocalOK(k)
  BY <1>1, <1>4, <1>5, JobSeenOK
<1> QED
  BY <1>1, <1>3, <1>6, MoveStep

\* The POST of the tree-delete job.
LEMMA TreeDeleteOK == ASSUME Base, NEW w \in Workers, TreeDelete(w) PROVE Base' /\ OneWrite
<1>1. work[w].pc = "dTree" /\ UNCHANGED hist
  BY DEF TreeDelete, Is
<1>2. PICK h \in Handles : /\ h = work[w].call.handle /\ work[w].id # 0 /\ work[w].id = h.id
                           /\ h.id < next /\ h.id \in hist.purged
                           /\ work[w].call.ctx = "purge" /\ ~InPlace(h)
  BY <1>1, NamedIs, WorkIs DEF DeleteOK
<1>3. PICK m : m = Write(w, "tree")
  OBVIOUS
<1>4. m \in Writes /\ m.op = "tree" /\ m.call = work[w].call /\ m.id = work[w].id
  <2>1. "tree" \in Ops
    BY DEF Ops
  <2> QED
    BY <1>3, <2>1, PlainWriteIs
<1>5. MsgOK(m)
  BY <1>2, <1>4, WorkIs DEF MsgOK
<1>6. PICK wait \in Locals : wait = Go(w, "dWait") /\ wait.pc = "dWait" /\ wait.call = work[w].call
                             /\ wait.id = work[w].id /\ wait.id < next
  BY GoDelete DEF DeletePoints
<1>7. PICK done \in Locals : done = Go(w, "dDone")
  BY GoDelete DEF DeletePoints
<1>8. PICK lost \in Locals : lost = Go(w, "dRejob") /\ LocalOK(lost)
  BY <1>1, TreePoint
<1>9. PICK after : after = [ok |-> wait, exists |-> wait, missing |-> done, lost |-> lost]
  OBVIOUS
<1>10. Send(w, m, after)
  BY <1>3, <1>6, <1>7, <1>8, <1>9 DEF TreeDelete
<1>11. after["lost"] \in Locals /\ LocalOK(after["lost"])
  BY <1>8, <1>9
<1>12. CASE Answer(m) = "ok"
  <2>1. PICK k \in Locals : k = after[Answer(m)] /\ k = wait
    BY <1>6, <1>9, <1>12
  <2>2. ASSUME Commit(m) PROVE LocalOK(k)'
    <3>1. World /\ World' /\ Evolves
      BY <1>1, <1>4, <1>5, <2>2, CommitOK DEF Base, World
    <3>2. JobOf(m.id)' # {}
      BY <1>1, <1>4, <1>12, <2>2, <3>1, TreeCommits DEF Commit
    <3>3. ~InPlace(h)'
      BY <1>2, <3>1, InPlaceStays DEF World
    <3>4. DeleteOK(k)'
      BY <1>2, <1>4, <1>6, <2>1, <3>2, <3>3 DEF DeleteOK
    <3>5. CreateOK(k)'
      BY <1>6, <2>1 DEF CreateOK
    <3>6. CallOK(k.call)'
      BY <1>6, <2>1, <3>1, WorkIs, CallStays DEF World
    <3>7. k.id < next'
      BY <1>6, <2>1, <3>1 DEF Evolves, World, CoreTypes, Locals
    <3> QED
      BY <3>4, <3>5, <3>6, <3>7 DEF LocalOK
  <2> QED
    BY <1>1, <1>4, <1>5, <1>10, <1>11, <2>1, <2>2, SendOK
<1>13. CASE Answer(m) = "exists"
  <2>1. PICK k \in Locals : k = after[Answer(m)] /\ k = wait
    BY <1>6, <1>9, <1>13
  <2>2. JobOf(work[w].id) # {}
    BY <1>4, <1>13 DEF Answer
  <2>3. LocalOK(k)
    BY <1>1, <1>6, <2>1, <2>2, TreePoint
  <2> QED
    BY <1>1, <1>4, <1>5, <1>10, <1>11, <2>1, <2>3, SendOK
<1>14. CASE Answer(m) = "missing"
  <2>1. PICK k \in Locals : k = after[Answer(m)] /\ k = done
    BY <1>7, <1>9, <1>14
  <2>2. ~Exists(work[w].id)
    BY <1>4, <1>14 DEF Answer
  <2>3. LocalOK(k)
    BY <1>1, <1>7, <2>1, <2>2, TreePoint
  <2> QED
    BY <1>1, <1>4, <1>5, <1>10, <1>11, <2>1, <2>3, SendOK
<1>15. Answer(m) \in {"ok", "exists", "missing"}
  BY <1>4 DEF Answer
<1> QED
  BY <1>12, <1>13, <1>14, <1>15

\* A delete returns: what it reports is done.
LEMMA DeleteReturnsOK == ASSUME Base, NEW w \in Workers, DeleteReturns(w) PROVE Base' /\ Evolves
<1>1. /\ work[w].pc = "dDone" /\ work' = [work EXCEPT ![w] = Idle]
      /\ hist' = [hist EXCEPT !.deleted =
                    @ \cup {[handle |-> Named(w), purged |-> Ctx(w) = "purge"]}]
      /\ UNCHANGED <<core, late, count>>
  BY DEF DeleteReturns, Is
<1>2. World /\ hist \in [handles : SUBSET Handles,
                 ready : SUBSET [call : Calls, reg : Nat, id : Nat],
                 deleted : SUBSET [handle : Handles, purged : BOOLEAN], purged : SUBSET Nat]
      /\ bucket \in Buckets /\ next \in Nat
  BY DEF Base, World, CoreTypes
<1>3. PICK purged \in BOOLEAN : purged = (Ctx(w) = "purge")
  BY Zenon
<1>4. PICK h \in Handles : h = Named(w) /\ h \in hist.handles /\ Done(h, purged)
  <2>1. PICK h \in Handles : /\ h = Named(w) /\ h = work[w].call.handle /\ h \in hist.handles
                             /\ Ctx(w) = work[w].call.ctx
    BY NamedIs
  <2>2. Done(h, work[w].call.ctx = "purge")
    BY <1>1, <2>1, WorkIs DEF DeleteOK
  <2>3. Done(h, purged)
    BY <1>3, <2>1, <2>2, Zenon DEF Done
  <2> QED
    BY <2>1, <2>3
<1>5. PICK d : d = [handle |-> h, purged |-> purged]
  OBVIOUS
<1>6. d \in [handle : Handles, purged : BOOLEAN] /\ d.handle = h
  <2>1. purged \in BOOLEAN
    BY <1>3, Zenon
  <2> QED
    BY <1>5, <2>1
<1>7. Done(d.handle, d.purged)
  <2>1. d.handle = h /\ d.purged = purged
    BY <1>5, Zenon
  <2> QED
    BY <1>4, <2>1, Zenon
<1>8. PICK deleted \in SUBSET [handle : Handles, purged : BOOLEAN] :
        deleted = hist.deleted \cup {d}
  BY <1>2, <1>6
<1>9. hist' = [hist EXCEPT !.deleted = deleted]
  <2>1. [handle |-> Named(w), purged |-> Ctx(w) = "purge"] = d
    BY <1>3, <1>4, <1>5, Zenon
  <2> QED
    BY <1>1, <1>8, <2>1, Zenon
<1>10. /\ hist' \in [handles : SUBSET Handles,
                 ready : SUBSET [call : Calls, reg : Nat, id : Nat],
                 deleted : SUBSET [handle : Handles, purged : BOOLEAN], purged : SUBSET Nat]
       /\ hist'.handles = hist.handles
       /\ hist'.deleted = deleted /\ hist'.purged = hist.purged
  BY <1>2, <1>8, <1>9
<1>11. bucket' = bucket /\ next' = next /\ jobs' = jobs /\ UNCHANGED <<files, quotas>>
  BY <1>1 DEF core
<1>12. CoreTypes' /\ CoreOK' /\ Evolves
  <2>1. /\ hist.handles \subseteq hist'.handles /\ hist.purged \subseteq hist'.purged
    BY <1>10
  <2> QED
    BY <1>2, <1>10, <1>11, <2>1, BucketChanges DEF World, CoreTypes, CoreOK, Buckets
<1>13. HistOK'
  <2>1. \A j \in jobs' : j.id # 0 /\ j.id < next /\ j.id \in hist'.purged
    BY <1>2, <1>10, <1>11 DEF World, HistOK
  <2>2. \A i \in hist'.handles : i \in hist.handles \/ (i.id < next /\ (i.managed => i.id # 0))
    BY <1>10
  <2>3. \A e \in hist'.deleted :
          e \in hist.deleted \/ (e.handle \in hist.handles /\ Done(e.handle, e.purged))
    BY <1>4, <1>6, <1>7, <1>8, <1>10
  <2> QED
    BY <1>2, <1>12, <2>1, <2>2, <2>3, HistGrows
<1>14. PICK k \in Locals : k = Idle /\ LocalOK(k)
  BY IdleOK
<1>15. /\ work' \in [Workers -> Locals]
       /\ \A v \in Workers : work'[v] \in {work[v], k}
  BY <1>1, <1>14 DEF Base
<1>16. \A v \in Workers : work[v] \in Locals /\ LocalOK(work[v])
  BY DEF Base
<1>17. /\ late' \subseteq Writes /\ \A n \in late' : n \in late
       /\ count' \in [requests : Nat, faults : Nat]
  BY <1>1 DEF Base
<1> QED
  BY <1>12, <1>13, <1>14, <1>15, <1>16, <1>17, BaseFrom DEF World

\* Base holds before the first call.
LEMMA InitBase == Init => Base
<1> SUFFICES ASSUME Init PROVE Base
  OBVIOUS
<1>1. LegacyHandle \in Handles /\ LegacyHandle.id = 0 /\ LegacyHandle.managed = FALSE
  BY BucketAssumption DEF LegacyHandle, Handles
<1>2. /\ next = 1 /\ files = {} /\ quotas = {} /\ jobs = {} /\ late = {}
  BY DEF Init
<1>3. /\ bucket \in Buckets /\ bucket.reg = 0 /\ bucket.etag = 0 /\ bucket.policy = "none"
  BY BucketAssumption DEF Init, NoBucket, Buckets, Policies, Versionings
<1>4. /\ hist \in [handles : SUBSET Handles,
                 ready : SUBSET [call : Calls, reg : Nat, id : Nat],
                 deleted : SUBSET [handle : Handles, purged : BOOLEAN], purged : SUBSET Nat]
      /\ hist.handles = {LegacyHandle} /\ hist.deleted = {}
  <2>1. hist = [handles |-> {LegacyHandle}, ready |-> {}, deleted |-> {}, purged |-> {}]
    BY DEF Init
  <2>2. PICK handles \in SUBSET Handles : handles = {LegacyHandle}
    BY <1>1
  <2> QED
    BY <2>1, <2>2
<1>5. CoreTypes
  BY <1>2, <1>3, <1>4 DEF CoreTypes
<1>6. CoreOK
  BY <1>2, <1>3 DEF CoreOK, Registered
<1>7. HistOK
  BY <1>1, <1>2, <1>4 DEF HistOK
<1>8. count \in [requests : Nat, faults : Nat]
  BY DEF Init
<1>9. LocalOK(Idle)
  <2>1. NoCall.handle = LegacyHandle /\ NoCall.known = {} /\ NoCall.since = 0 /\ NoCall.ctx = "keep"
    BY DEF NoCall
  <2>2. CallOK(NoCall)
    BY <1>2, <1>4, <2>1 DEF CallOK, KnownOK
  <2>3. Idle.pc = "idle" /\ Idle.id = 0 /\ Idle.call = NoCall
    BY DEF Idle
  <2> QED
    BY <1>2, <2>2, <2>3 DEF LocalOK, CreateOK, DeleteOK
<1>10. work \in [Workers -> Locals] /\ \A w \in Workers : work[w] = Idle
  BY IdleType DEF Init
<1> QED
  BY <1>2, <1>5, <1>6, <1>7, <1>8, <1>9, <1>10 DEF Base

\* The steps that send no write leave Core as it is.
LEMMA ReadsOnly ==
    ASSUME NEW w \in Workers,
           \/ StartCreate(w) \/ CreateGet(w) \/ CreateReget(w) \/ GetPolicy(w) \/ QuotaRoot(w)
           \/ GetQuota(w) \/ CreateReturns(w) \/ ImportGet(w) \/ ImportReturns(w)
           \/ StartDelete(w) \/ DeleteGet(w) \/ DeleteResume(w) \/ DeleteRoot(w)
           \/ LookForJob(w) \/ WaitForTreeDelete(w) \/ DeleteReturns(w) \/ Abandon(w)
    PROVE  UNCHANGED core
<1>1. CASE StartCreate(w) \/ StartDelete(w)
  BY <1>1 DEF StartCreate, StartDelete, Start
<1>2. CASE CreateGet(w) \/ CreateReget(w) \/ GetPolicy(w) \/ QuotaRoot(w) \/ GetQuota(w) \/ ImportGet(w)
  BY <1>2 DEF CreateGet, CreateReget, GetPolicy, QuotaRoot, GetQuota, ImportGet, Move
<1>3. CASE CreateReturns(w) \/ ImportReturns(w)
  BY <1>3 DEF CreateReturns, ImportReturns, RootFound, Returns, Move
<1>4. CASE DeleteGet(w) \/ DeleteResume(w) \/ DeleteRoot(w) \/ LookForJob(w) \/ WaitForTreeDelete(w)
  BY <1>4 DEF DeleteGet, DeleteResume, DeleteRoot, LookForJob, WaitForTreeDelete, Move
<1>5. CASE DeleteReturns(w) \/ Abandon(w)
  BY <1>5 DEF DeleteReturns, Abandon
<1> QED
  BY <1>1, <1>2, <1>3, <1>4, <1>5

\* A step of a create or an import.
LEMMA CreateStep == ASSUME Base, NEW w \in Workers, Create(w) PROVE Base' /\ OneWrite
<1>1. CASE StartCreate(w)
  BY <1>1, StartCreateOK, ReadsOnly DEF OneWrite
<1>2. CASE CreateGet(w) \/ CreateReget(w) \/ GetPolicy(w)
  BY <1>2, CreateGetOK, CreateRegetOK, GetPolicyOK, ReadsOnly DEF OneWrite
<1>3. CASE CreatePost(w)
  BY <1>3, CreatePostOK
<1>4. CASE LockDown(w) \/ PutPolicy(w)
  BY <1>4, LockDownOK, PutPolicyOK
<1>5. CASE PatchBucket(w) \/ CreateQuota(w) \/ UpdateQuota(w)
  BY <1>5, PatchBucketOK, CreateQuotaOK, UpdateQuotaOK
<1>6. CASE QuotaRoot(w) \/ GetQuota(w) \/ ImportGet(w)
  BY <1>6, QuotaRootOK, GetQuotaOK, ImportGetOK, ReadsOnly DEF OneWrite
<1>7. CASE CreateReturns(w) \/ ImportReturns(w)
  <2>1. TRUE \in BOOLEAN /\ FALSE \in BOOLEAN
    OBVIOUS
  <2>2. Base'
    BY <1>7, <2>1, RootFoundOK DEF CreateReturns, ImportReturns
  <2> QED
    BY <1>7, <2>2, ReadsOnly DEF OneWrite
<1> QED
  BY <1>1, <1>2, <1>3, <1>4, <1>5, <1>6, <1>7 DEF Create

\* A step of a delete.
LEMMA DeleteStep == ASSUME Base, NEW w \in Workers, Delete(w) PROVE Base' /\ OneWrite
<1>1. CASE StartDelete(w) \/ DeleteReturns(w)
  BY <1>1, StartDeleteOK, DeleteReturnsOK, ReadsOnly DEF OneWrite
<1>2. CASE DeleteGet(w) \/ DeleteResume(w) \/ DeleteRoot(w)
  BY <1>2, DeleteGetOK, DeleteResumeOK, DeleteRootOK, ReadsOnly DEF OneWrite
<1>3. CASE AbortUploads(w) \/ DropBucket(w) \/ TreeDelete(w)
  BY <1>3, AbortUploadsOK, DropBucketOK, TreeDeleteOK
<1>4. CASE LookForJob(w) \/ WaitForTreeDelete(w)
  BY <1>4, LookForJobOK, WaitForTreeDeleteOK, ReadsOnly DEF OneWrite
<1> QED
  BY <1>1, <1>2, <1>3, <1>4 DEF Delete

\* A write whose answer was lost reaches Core.
LEMMA LateIsOneWrite == ASSUME Base, LateWrite PROVE OneWrite
<1>1. PICK m \in late : Commit(m) /\ late' = late \ {m} /\ work' = work
  BY DEF LateWrite
<1>2. m \in Writes /\ MsgOK(m)
  BY DEF Base
<1>3. \A n \in late \ late' : n = m
  BY <1>1
<1> QED
  BY <1>1, <1>2, <1>3 DEF OneWrite

\* A state in which nothing changed is in order if the last was.
LEMMA StutterBase == ASSUME Base, UNCHANGED vars PROVE Base'
<1>1. UNCHANGED <<bucket, files, quotas, jobs, next, late, work, count, hist>>
  BY DEF vars, core
<1>2. World' /\ Evolves
  BY <1>1, NothingChanges DEF Base, World, core
<1> QED
  BY <1>1, <1>2, BaseFrom DEF Base

\* Every step leaves everything in order, and is a write to Core or one of the
\* others.
LEMMA NextBase ==
    Base /\ [Next]_vars =>
        Base' /\ (OneWrite \/ JobEnds \/ JobAborts \/ ClientWrites \/ ClientIsGranted \/ OperatorActs)
<1> SUFFICES ASSUME Base, [Next]_vars
             PROVE  /\ Base'
                    /\ OneWrite \/ JobEnds \/ JobAborts \/ ClientWrites \/ ClientIsGranted \/ OperatorActs
  OBVIOUS
<1>1. CASE \E w \in Workers : Create(w) \/ Delete(w) \/ Abandon(w)
  BY <1>1, CreateStep, DeleteStep, AbandonOK, ReadsOnly DEF OneWrite
<1>2. CASE LateWrite
  BY <1>2, LateWriteOK, LateIsOneWrite
<1>3. CASE JobEnds \/ JobAborts
  BY <1>3, JobEndsOK, JobAbortsOK
<1>4. CASE ClientWrites \/ ClientIsGranted
  BY <1>4, ClientWritesOK, ClientIsGrantedOK
<1>5. CASE OperatorActs
  BY <1>5, OperatorActsOK
<1>6. CASE UNCHANGED vars
  BY <1>6, StutterBase DEF OneWrite, vars
<1> QED
  BY <1>1, <1>2, <1>3, <1>4, <1>5, <1>6 DEF Next

\* The inductive invariant of the bucket's lifecycle.
THEOREM BaseInv == Spec => []Base
BY InitBase, NextBase, PTL DEF Spec

\* The variables have the values that the model's type invariant describes: the
\* numbers that identify registrations, directories and ETags have been handed
\* out by Core, no two directories share a path, a quota and a tree-delete job
\* belong to one directory, and the loops of MutateBucketPolicy and of the
\* delete's retry stay within their attempts.
THEOREM Typing == Spec => []TypeOK
<1>1. Base => TypeOK
  <2> SUFFICES ASSUME Base PROVE TypeOK
    OBVIOUS
  <2>1. /\ next \in Nat /\ next # 0 /\ bucket.reg \in Nat /\ bucket.etag \in Nat
        /\ bucket.path \in Paths /\ bucket.policy \in {"open", "none", "grants"}
        /\ bucket.reg < next /\ bucket.etag < next
    BY DEF Base, CoreTypes, CoreOK, Buckets, Policies
  <2>2. files \subseteq [id : 1..(next - 1), path : Paths \cup {"elsewhere"}, full : BOOLEAN]
    <3>1. files \subseteq [id : Nat, path : Paths \cup {"elsewhere"}, full : BOOLEAN]
      BY DEF Base, CoreTypes
    <3>2. \A f \in files : f.id \in 1..(next - 1)
      BY <2>1, <3>1 DEF Base, CoreOK
    <3> QED
      BY <3>1, <3>2
  <2>3. /\ \A f, g \in files : f # g => f.id # g.id /\ (f.path = g.path => f.path = "elsewhere")
        /\ \A q, r \in quotas : q.id = r.id => q = r
        /\ \A j, k \in jobs : j.id = k.id => j = k
    BY DEF Base, CoreOK
  <2>4. hist.handles \subseteq Handle
    <3>1. hist.handles \subseteq Handles /\ \A h \in hist.handles : h.id < next
      BY DEF Base, CoreTypes, HistOK
    <3>2. \A h \in Handles : h.id < next => h \in Handle
      BY <2>1 DEF Handles, Handle
    <3> QED
      BY <3>1, <3>2
  <2>5. ASSUME NEW w \in Workers
        PROVE  /\ work[w].pc \in {"idle"} \cup CreatePoints \cup DeletePoints
               /\ work[w].call.handle \in hist.handles
               /\ work[w].pc \in {"cPolicy", "cPutPolicy"} => work[w].try \in 1..PolicyAttempts
               /\ work[w].pc \in {"dAbort", "dDrop"} => work[w].try \in 1..2
               /\ work[w].pc \in {"cQuota", "cQuotaGet", "cQuotaPut", "dJob", "dTree", "dRejob", "dWait"} =>
                    work[w].id \in 1..(next - 1)
    <3>1. /\ work[w] \in Locals /\ CallOK(work[w].call) /\ work[w].id < next
          /\ CreateOK(work[w]) /\ DeleteOK(work[w])
      BY WorkIs
    <3>2. work[w].pc \in {"idle"} \cup CreatePoints \cup DeletePoints /\ work[w].id \in Nat
      BY <3>1 DEF Locals, Points
    <3>3. work[w].pc \in {"cQuota", "cQuotaGet", "cQuotaPut", "dJob", "dTree", "dRejob", "dWait"} =>
            work[w].id # 0
      BY <3>1 DEF CreateOK, DeleteOK
    <3> QED
      BY <2>1, <3>1, <3>2, <3>3 DEF CallOK, CreateOK, DeleteOK
  <2> QED
    BY <2>1, <2>2, <2>3, <2>4, <2>5 DEF TypeOK
<1> QED
  BY <1>1, BaseInv, PTL

\* DriverDeleteBucket returns success only when the bucket that the handle names
\* is unregistered, or its directory is no longer the recorded one, and for a
\* purge only when that directory is gone too, whichever attempt did it and
\* whatever creates, operators and writes from before come after.
THEOREM DeletedLeavesNothing == Spec => []DeletedIsGone
<1>1. Base => DeletedIsGone
  <2> SUFFICES ASSUME Base, NEW d \in hist.deleted,
                      At(d.handle.path) = d.handle.id, d.handle.id # 0
               PROVE  ~(Registered /\ bucket.path = d.handle.path) /\ ~d.purged
    BY DEF DeletedIsGone
  <2>1. Done(d.handle, d.purged)
    BY DEF Base, HistOK
  <2> QED
    BY <2>1 DEF Done, InPlace
<1> QED
  BY <1>1, BaseInv, PTL

\* A write that Core accepts and that removes the statements of a policy is the
\* policy write of a create at whose call the bucket had no policy document.
LEMMA PolicyWrite ==
    ASSUME Base, NEW m \in Writes, MsgOK(m), Commit(m),
           bucket.policy = "grants", bucket'.reg = bucket.reg, bucket'.policy # "grants"
    PROVE  bucket.reg \notin m.call.known
<1>1. Answer(m) = "ok" /\ Effect(m)
  BY DEF Commit, core
<1>2. Registered /\ bucket \in Buckets
  BY DEF Base, CoreOK, CoreTypes
<1>3. m.op = "policy"
  <2>1. m.op # "post"
    BY <1>1, <1>2 DEF Answer
  <2>2. m.op # "drop"
    BY <1>1, <1>2 DEF Effect, NoBucket, Registered
  <2>3. m.op \notin {"version", "lock", "abort"}
    BY <1>1, <1>2 DEF Effect, Buckets
  <2>4. m.op \notin {"quota", "limit", "tree"}
    BY <1>1 DEF Effect
  <2> QED
    BY <2>1, <2>2, <2>3, <2>4 DEF Writes, Ops
<1>4. m.etag \in {0, bucket.etag}
  BY <1>1, <1>2, <1>3 DEF Answer
<1> QED
  BY <1>3, <1>4 DEF MsgOK, Harmless

\* ensureBucketPolicy and lockDownLegacy never take away a statement of the
\* policy of a bucket that had a policy document when their create was called:
\* their conditional writes fail once a grant has changed the policy, and their
\* unconditional ones are sent for buckets that were open, or not there, then.
\* Of those, statements granted between the read and the write can be lost.
THEOREM CreatesSpareGrants == Spec => GrantsSurvive
<1>1. ASSUME Base, [Next]_vars,
             bucket.policy = "grants", bucket'.reg = bucket.reg, bucket'.policy # "grants"
      PROVE  /\ \A w \in Workers : work'[w] # work[w] => bucket.reg \notin work[w].call.known
             /\ \A m \in late \ late' : bucket.reg \notin m.call.known
  <2>1. CASE OneWrite
    <3>1. PICK m \in Writes : /\ MsgOK(m) /\ Commit(m)
                              /\ \A v \in Workers : work'[v] # work[v] => m.call = work[v].call
                              /\ \A n \in late \ late' : n = m
      BY <1>1, <2>1 DEF OneWrite, core
    <3>2. bucket.reg \notin m.call.known
      BY <1>1, <3>1, PolicyWrite
    <3> QED
      BY <3>1, <3>2
  <2>2. CASE JobEnds \/ JobAborts
    BY <1>1, <2>2 DEF JobEnds, JobAborts
  <2>3. CASE ClientWrites \/ ClientIsGranted
    BY <1>1, <2>3 DEF ClientWrites, ClientIsGranted, Base, CoreTypes, Buckets
  <2>4. CASE OperatorActs
    <3>1. Registered
      BY <1>1 DEF Base, CoreOK
    <3> QED
      BY <1>1, <2>4, <3>1 DEF OperatorActs
  <2> QED
    BY <1>1, <2>1, <2>2, <2>3, <2>4, NextBase
<1>2. Base /\ [Next]_vars =>
        [bucket.policy = "grants" /\ bucket'.reg = bucket.reg /\ bucket'.policy # "grants" =>
           /\ \A w \in Workers : work'[w] # work[w] => bucket.reg \notin work[w].call.known
           /\ \A m \in late \ late' : bucket.reg \notin m.call.known]_vars
  BY <1>1
<1> QED
  BY <1>2, BaseInv, PTL DEF Spec, GrantsSurvive

\* A write that Core accepts and that unregisters a bucket is a DELETE for a
\* call that may do so, and it removes no directory with data.
LEMMA DropWrite ==
    ASSUME Base, NEW m \in Writes, MsgOK(m), Commit(m)
    PROVE  /\ Registered /\ bucket'.reg # bucket.reg => MayDrop(m.call)
           /\ \A f \in files : f.full => f \in files'
<1>1. CASE Answer(m) # "ok"
  BY <1>1 DEF Commit, core
<1>2. CASE Answer(m) = "ok" /\ m.op = "drop"
  <2>1. Effect(m) /\ Registered /\ ~(m.flag /\ Holds(At(bucket.path)))
    BY <1>2 DEF Commit, Answer
  <2>2. files' = {f \in files : ~(m.flag /\ f.path = bucket.path)}
    BY <1>2, <2>1 DEF Effect
  <2>3. ASSUME NEW f \in files, f.full, m.flag, f.path = bucket.path PROVE FALSE
    <3>1. At(bucket.path) = f.id
      BY <2>3, AtIs DEF Base, CoreTypes, Buckets
    <3> QED
      BY <2>1, <2>3, <3>1 DEF Holds
  <2> QED
    BY <1>2, <2>1, <2>2, <2>3 DEF MsgOK, Droppable
<1>3. CASE Answer(m) = "ok" /\ m.op # "drop"
  <2>1. Effect(m) /\ (m.op = "post" => ~Registered) /\ bucket \in Buckets
    BY <1>3 DEF Commit, Answer, Base, CoreTypes
  <2>2. \A f \in files : f \in files'
    BY <1>3, <2>1 DEF Effect
  <2>3. Registered => bucket'.reg = bucket.reg
    BY <1>3, <2>1 DEF Effect, Buckets
  <2> QED
    BY <2>2, <2>3
<1> QED
  BY <1>1, <1>2, <1>3

\* DriverDeleteBucket unregisters no bucket that was already there, in the place
\* of the one its handle names, when it was called: neither the worker that
\* sends the DELETE nor one sent before and applied late does.  And data goes
\* only by a tree-delete job, for a directory that a purge was asked for with a
\* handle that names it and proves that the driver made it.
THEOREM NamedIsDropped == Spec => OnlyTheNamed
<1>1. ASSUME Base, [Next]_vars
      PROVE  /\ Registered /\ bucket'.reg # bucket.reg =>
                  /\ \A w \in Workers : work'[w] # work[w] => MayDrop(work[w].call)
                  /\ \A m \in late \ late' : MayDrop(m.call)
             /\ \A f \in files : f.full /\ (\A g \in files' : g.id # f.id) => f.id \in hist.purged
  <2>1. CASE UNCHANGED core
    BY <2>1 DEF core
  <2>2. CASE OneWrite /\ ~UNCHANGED core
    <3>1. PICK m \in Writes : /\ MsgOK(m) /\ Commit(m)
                              /\ \A v \in Workers : work'[v] # work[v] => m.call = work[v].call
                              /\ \A n \in late \ late' : n = m
      BY <2>2 DEF OneWrite
    <3>2. /\ Registered /\ bucket'.reg # bucket.reg => MayDrop(m.call)
          /\ \A f \in files : f.full => f \in files'
      BY <1>1, <3>1, DropWrite
    <3>3. Registered /\ bucket'.reg # bucket.reg =>
            /\ \A w \in Workers : work'[w] # work[w] => MayDrop(work[w].call)
            /\ \A n \in late \ late' : MayDrop(n.call)
      BY <3>1, <3>2
    <3> QED
      BY <3>2, <3>3
  <2>3. CASE JobEnds \/ JobAborts
    <3>1. bucket' = bucket /\ \A f \in files : (\A g \in files' : g # f) => \E j \in jobs : f.id = j.id
      BY <2>3 DEF JobEnds, JobAborts
    <3>2. \A j \in jobs : j.id \in hist.purged
      BY <1>1 DEF Base, HistOK
    <3> QED
      BY <3>1, <3>2
  <2>4. CASE ClientWrites \/ ClientIsGranted
    <3>1. bucket \in Buckets
      BY <1>1 DEF Base, CoreTypes
    <3>2. bucket'.reg = bucket.reg
      BY <2>4, <3>1 DEF ClientWrites, ClientIsGranted, Buckets
    <3>3. \A f \in files : \E g \in files' : g.id = f.id
      <4>1. CASE files' = files
        BY <4>1
      <4>2. CASE files' = {IF f.path = bucket.path THEN [f EXCEPT !.full = TRUE] ELSE f : f \in files}
        <5>1. files \subseteq [id : Nat, path : Paths \cup {"elsewhere"}, full : BOOLEAN]
          BY <1>1 DEF Base, CoreTypes
        <5>2. ASSUME NEW f \in files PROVE \E g \in files' : g.id = f.id
          <6>1. PICK g : g = IF f.path = bucket.path THEN [f EXCEPT !.full = TRUE] ELSE f
            OBVIOUS
          <6>2. g \in files'
            BY <4>2, <6>1
          <6>3. g.id = f.id
            BY <5>1, <6>1
          <6> QED
            BY <6>2, <6>3
        <5> QED
          BY <5>2
      <4> QED
        BY <2>4, <4>1, <4>2 DEF ClientWrites, ClientIsGranted
    <3> QED
      BY <3>2, <3>3
  <2>5. CASE OperatorActs
    <3>1. Registered => bucket' = bucket
      BY <2>5 DEF OperatorActs
    <3>2. PICK path \in Paths :
            files' = {IF f.path = path THEN [f EXCEPT !.path = "elsewhere"] ELSE f : f \in files}
                       \cup {[id |-> next, path |-> path, full |-> TRUE]}
      BY <2>5 DEF OperatorActs
    <3>3. files \subseteq [id : Nat, path : Paths \cup {"elsewhere"}, full : BOOLEAN]
      BY <1>1 DEF Base, CoreTypes
    <3>4. ASSUME NEW f \in files PROVE \E g \in files' : g.id = f.id
      <4>1. PICK g : g = IF f.path = path THEN [f EXCEPT !.path = "elsewhere"] ELSE f
        OBVIOUS
      <4>2. g \in files'
        BY <3>2, <4>1
      <4>3. g.id = f.id
        BY <3>3, <4>1
      <4> QED
        BY <4>2, <4>3
    <3> QED
      BY <3>1, <3>4
  <2> QED
    BY <1>1, <2>1, <2>2, <2>3, <2>4, <2>5, NextBase
<1>2. Base /\ [Next]_vars =>
        [/\ Registered /\ bucket'.reg # bucket.reg =>
                /\ \A w \in Workers : work'[w] # work[w] => MayDrop(work[w].call)
                /\ \A m \in late \ late' : MayDrop(m.call)
         /\ \A f \in files : f.full /\ (\A g \in files' : g.id # f.id) => f.id \in hist.purged]_vars
  BY <1>1
<1> QED
  BY <1>2, BaseInv, PTL DEF Spec, OnlyTheNamed

(***************************************************************************)
(* ReadyIsConfigured.  Config is its inductive invariant, on top of Base.  *)
(* It follows a calm create, one that no call that asks for something else *)
(* and no operator disturbs: every other call, and every write that may    *)
(* still arrive, agrees with it (Agreed), and at each of its points it has *)
(* reached what it has passed (Settled).  Kept is what the writes of calls *)
(* that agree never undo; StillKept shows it of most steps at once, and    *)
(* each write to Core is left with the one field that it changes.          *)
(***************************************************************************)

\* The points of a create before and after it has found or made the bucket.
EarlyPoints == {"cGet", "cPost", "cPostOpen", "cReget"}

QuotaPoints == {"cQuotaRoot", "cQuota", "cQuotaGet", "cQuotaPut"}

LatePoints == {"cLockDown", "cPolicy", "cPutPolicy", "cVersion", "cLock", "cRoot"} \cup QuotaPoints

\* A handler is where its kind of call has points, and sends its kind's writes.
PointFor(k) ==
    /\ k.pc \in EarlyPoints \cup LatePoints => k.call.kind = "create"
    /\ k.pc \in {"iGet", "iRoot"} => k.call.kind = "import"
    /\ k.pc \in DeletePoints => k.call.kind = "delete"

SentFor(m) == m.call.kind = IF m.op \in {"abort", "drop", "tree"} THEN "delete" ELSE "create"

\* Every call under way, and every write that may still arrive, agrees with c.
Agreed(c) ==
    /\ \A w \in Workers : work[w].pc # "idle" => Agree(c, work[w].call)
    /\ \A m \in late : Agree(c, m.call)

\* What the class of the call asks for is there.
VersionDone(c) == c.class.versioning \in {"Unversioned", bucket.versioning}

LockDone(c) == c.class.lock => bucket.lock

QuotaDone(c, id) == c.class.quota > 0 => \E q \in QuotaOf(id) : q.limit = c.class.quota

\* What a calm create has reached at its point, of what its class asks for.
Settled(k) ==
    /\ k.pc \in EarlyPoints => k.cur = Facts(NoBucket)
    /\ k.pc \in LatePoints => Registered /\ bucket.path = Want /\ k.cur.path = Want
    /\ k.pc \in {"cLockDown", "cPolicy", "cPutPolicy", "cVersion"} =>
         /\ k.cur.versioning = k.call.class.versioning => VersionDone(k.call)
         /\ k.cur.lock => LockDone(k.call)
    /\ k.pc \in {"cVersion", "cLock", "cRoot"} \cup QuotaPoints => bucket.policy # "open"
    /\ k.pc \in {"cLock", "cRoot"} \cup QuotaPoints => VersionDone(k.call)
    /\ k.pc \in {"cRoot"} \cup QuotaPoints => LockDone(k.call)
    /\ k.pc \in {"cQuota", "cQuotaGet", "cQuotaPut"} => At(Want) \in {0, k.id}
    /\ k.pc = "cRoot" => At(Want) = 0 \/ QuotaDone(k.call, At(Want))

\* A create that nothing disturbs agrees with all others and settles the bucket.
CalmOK(k) ==
    k.pc # "idle" /\ k.call.kind = "create" /\ k.calm => Agreed(k.call) /\ Settled(k)

\* A bucket reported Ready is registered still, and has what was asked for.
ReadyOK(r) ==
    /\ r.call.kind = "create" /\ Agreed(r.call)
    /\ Registered /\ bucket.reg = r.reg /\ bucket.policy # "open"
    /\ VersionDone(r.call) /\ LockDone(r.call) /\ QuotaDone(r.call, r.id)

\* The inductive invariant of what creates configure.
Config ==
    /\ \A w \in Workers : PointFor(work[w]) /\ CalmOK(work[w])
    /\ \A m \in late : SentFor(m)
    /\ \A r \in hist.ready : ReadyOK(r)

\* A create that nothing disturbs.
Calm(k) == k.pc # "idle" /\ k.call.kind = "create" /\ k.calm

\* What no step undoes of a registered bucket while the calls agree with c, and
\* what only an operator undoes.
Kept(c) ==
    Registered =>
        /\ bucket'.reg = bucket.reg /\ bucket'.path = bucket.path
        /\ bucket.policy # "open" => bucket'.policy # "open"
        /\ VersionDone(c) => VersionDone(c)'
        /\ LockDone(c) => LockDone(c)'
        /\ \A i \in Nat : QuotaDone(c, i) => QuotaDone(c, i)'

RootKept == Registered => At(Want)' \in {At(Want), 0}

\* A worker's next local variables are those of the same call, or of none.
Follows(w, k) ==
    \/ k.pc = "idle"
    \/ /\ work[w].pc # "idle" /\ k.call = work[w].call /\ (k.calm => work[w].calm)
       /\ PointFor(k)

\* Agreement is mutual, and what agrees with a create is a create of its class or
\* an import.
LEMMA AgreeIs ==
    ASSUME NEW c, NEW d, Agree(c, d)
    PROVE  Agree(d, c) /\ (c.kind = "create" => d.kind = "import" \/ (d.kind = "create" /\ d.class = c.class))
BY DEF Agree

\* What Core does not touch is kept.
LEMMA QuietKeeps ==
    ASSUME Base, NEW c \in Calls, bucket'.reg = bucket.reg, bucket'.path = bucket.path,
           bucket.policy # "open" => bucket'.policy # "open",
           bucket'.versioning = bucket.versioning, bucket.lock => bucket'.lock, quotas' = quotas
    PROVE  Kept(c)
<1>1. VersionDone(c) => VersionDone(c)'
  BY DEF VersionDone
<1>2. LockDone(c) => LockDone(c)'
  BY DEF LockDone
<1>3. \A i \in Nat : QuotaDone(c, i) => QuotaDone(c, i)'
  BY DEF QuotaDone, QuotaOf
<1> QED
  BY <1>1, <1>2, <1>3 DEF Kept

\* A path keeps its directory or loses it, in a step that makes none.
LEMMA RootIsKept ==
    ASSUME Base, World', Evolves, next' = next \/ files' = files
    PROVE  RootKept
<1>1. AtTypes /\ AtTypes' /\ Want \in Paths /\ next \in Nat
  BY AtTypesNext, BucketAssumption DEF Base, World, CoreTypes
<1>2. At(Want)' \in {At(Want), 0} \/ At(Want)' >= next
  BY <1>1 DEF Evolves
<1>3. At(Want)' # 0 => At(Want)' < next
  <2> SUFFICES ASSUME At(Want)' # 0 PROVE At(Want)' < next
    OBVIOUS
  <2>1. PICK f \in files' : f.path = Want /\ f.id = At(Want)'
    BY <1>1 DEF AtTypes
  <2>2. f.id < next
    BY <2>1 DEF World, CoreOK, Base
  <2> QED
    BY <2>1, <2>2
<1> QED
  BY <1>1, <1>2, <1>3 DEF RootKept, AtTypes

\* A quota that a create writes is the one that every agreeing create asks for.
LEMMA QuotaWritten ==
    ASSUME Base, NEW c \in Calls, NEW m \in Writes, m.op \in {"quota", "limit"}, Effect(m),
           m.call.class = c.class
    PROVE  /\ QuotaDone(c, m.id)'
           /\ \A i \in Nat : QuotaDone(c, i) => QuotaDone(c, i)'
<1>1. quotas' = (quotas \ QuotaOf(m.id))
                  \cup {[id |-> m.id, limit |-> m.call.class.quota, etag |-> next]}
  BY DEF Effect
<1>2. PICK q : q = [id |-> m.id, limit |-> m.call.class.quota, etag |-> next]
  OBVIOUS
<1>3. q.id = m.id /\ q.limit = c.class.quota /\ quotas' = (quotas \ QuotaOf(m.id)) \cup {q}
  <2>1. q.id = m.id /\ q.limit = c.class.quota
    BY <1>2
  <2>2. quotas' = (quotas \ QuotaOf(m.id)) \cup {q}
    BY <1>1, <1>2, Zenon
  <2> QED
    BY <2>1, <2>2
<1>4. QuotaDone(c, m.id)'
  BY <1>3 DEF QuotaDone, QuotaOf
<1>5. ASSUME NEW i \in Nat, i # m.id PROVE QuotaDone(c, i) => QuotaDone(c, i)'
  BY <1>3, <1>5 DEF QuotaDone, QuotaOf
<1> QED
  BY <1>4, <1>5

\* The write of a create keeps what every agreeing create has reached.
LEMMA CommitKeeps ==
    ASSUME Base, UNCHANGED hist, NEW m \in Writes, MsgOK(m), SentFor(m), Commit(m),
           NEW c \in Calls, c.kind = "create", Agree(c, m.call)
    PROVE  Kept(c) /\ RootKept
<1>1. World /\ World' /\ Evolves
  BY CommitOK DEF Base, World
<1>2. /\ m.call.class = c.class
      /\ m.op \in {"post", "policy", "version", "lock", "quota", "limit"}
  <2>1. m.call.kind = "create" /\ m.call.class = c.class
    BY AgreeIs DEF SentFor
  <2> QED
    BY <2>1 DEF SentFor, Writes, Ops
<1>3. CASE UNCHANGED core
  <2>1. bucket' = bucket /\ quotas' = quotas /\ files' = files
    BY <1>3 DEF core
  <2> QED
    BY <1>1, <2>1, QuietKeeps, RootIsKept
<1>4. CASE Answer(m) = "ok" /\ Effect(m)
  <2>0. bucket \in Buckets
    BY DEF Base, CoreTypes
  <2>1. CASE m.op = "post"
    BY <1>4, <2>1 DEF Answer, Kept, RootKept
  <2>2. CASE m.op = "policy"
    <3>1. bucket' = [bucket EXCEPT !.policy = "none", !.etag = next] /\ UNCHANGED <<files, quotas>>
      BY <1>4, <2>2 DEF Effect
    <3>2. /\ bucket'.reg = bucket.reg /\ bucket'.path = bucket.path /\ bucket'.policy = "none"
          /\ bucket'.versioning = bucket.versioning /\ bucket'.lock = bucket.lock
      BY <2>0, <3>1 DEF Buckets
    <3> QED
      BY <1>1, <3>1, <3>2, QuietKeeps, RootIsKept
  <2>3. CASE m.op = "version"
    <3>1. bucket' = [bucket EXCEPT !.versioning = m.call.class.versioning] /\ UNCHANGED <<files, quotas>>
      BY <1>4, <2>3 DEF Effect
    <3>2. /\ bucket'.reg = bucket.reg /\ bucket'.path = bucket.path /\ bucket'.policy = bucket.policy
          /\ bucket'.versioning = c.class.versioning /\ bucket'.lock = bucket.lock
      BY <1>2, <2>0, <3>1 DEF Buckets
    <3>3. VersionDone(c)'
      BY <3>2 DEF VersionDone
    <3>4. LockDone(c) => LockDone(c)'
      BY <3>2 DEF LockDone
    <3>5. \A i \in Nat : QuotaDone(c, i) => QuotaDone(c, i)'
      BY <3>1 DEF QuotaDone, QuotaOf
    <3> QED
      BY <1>1, <3>1, <3>2, <3>3, <3>4, <3>5, RootIsKept DEF Kept
  <2>4. CASE m.op = "lock"
    <3>1. bucket' = [bucket EXCEPT !.lock = TRUE] /\ UNCHANGED <<files, quotas>>
      BY <1>4, <2>4 DEF Effect
    <3>2. /\ bucket'.reg = bucket.reg /\ bucket'.path = bucket.path /\ bucket'.policy = bucket.policy
          /\ bucket'.versioning = bucket.versioning /\ bucket'.lock
      BY <2>0, <3>1 DEF Buckets
    <3> QED
      BY <1>1, <3>1, <3>2, QuietKeeps, RootIsKept
  <2>5. CASE m.op \in {"quota", "limit"}
    <3>1. UNCHANGED <<bucket, files>>
      BY <1>4, <2>5 DEF Effect
    <3>2. \A i \in Nat : QuotaDone(c, i) => QuotaDone(c, i)'
      BY <1>2, <1>4, <2>5, QuotaWritten
    <3>3. VersionDone(c) => VersionDone(c)'
      BY <3>1 DEF VersionDone
    <3>4. LockDone(c) => LockDone(c)'
      BY <3>1 DEF LockDone
    <3> QED
      BY <1>1, <3>1, <3>2, <3>3, <3>4, RootIsKept DEF Kept
  <2> QED
    BY <1>2, <2>1, <2>2, <2>3, <2>4, <2>5
<1> QED
  BY <1>3, <1>4 DEF Commit

\* What a calm create has reached stays so.
LEMMA SettledStays ==
    ASSUME Base, Base', NEW k \in Locals, Settled(k), Kept(k.call), RootKept
    PROVE  Settled(k)'
<1>1. At(Want) \in Nat /\ At(Want)' \in Nat
  BY AtTypesNext, BucketAssumption DEF Base, AtTypes
<1>2. k.pc \in LatePoints => (Registered /\ bucket.path = Want)' /\ k.cur.path = Want
  BY DEF Settled, Kept, Registered
<1>3. k.pc \in {"cLockDown", "cPolicy", "cPutPolicy", "cVersion"} =>
        /\ k.cur.versioning = k.call.class.versioning => VersionDone(k.call)'
        /\ k.cur.lock => LockDone(k.call)'
  BY DEF Settled, Kept, LatePoints
<1>4. k.pc \in {"cVersion", "cLock", "cRoot"} \cup QuotaPoints => bucket'.policy # "open"
  BY DEF Settled, Kept, LatePoints
<1>5. k.pc \in {"cLock", "cRoot"} \cup QuotaPoints => VersionDone(k.call)'
  BY DEF Settled, Kept, LatePoints
<1>6. k.pc \in {"cRoot"} \cup QuotaPoints => LockDone(k.call)'
  BY DEF Settled, Kept, LatePoints
<1>7. k.pc \in {"cQuota", "cQuotaGet", "cQuotaPut"} => (At(Want) \in {0, k.id})'
  BY DEF Settled, Kept, LatePoints, QuotaPoints, RootKept
<1>8. k.pc = "cRoot" => (At(Want) = 0 \/ QuotaDone(k.call, At(Want)))'
  <2> SUFFICES ASSUME k.pc = "cRoot", At(Want)' # 0 PROVE QuotaDone(k.call, At(Want))'
    OBVIOUS
  <2>1. Registered /\ (At(Want) = 0 \/ QuotaDone(k.call, At(Want)))
    BY DEF Settled, LatePoints
  <2>2. At(Want)' = At(Want) /\ At(Want) # 0
    BY <1>1, <2>1 DEF RootKept
  <2>3. PICK i \in Nat : i = At(Want) /\ i = At(Want)'
    BY <1>1, <2>2
  <2>4. QuotaDone(k.call, i)
    BY <2>1, <2>2, <2>3
  <2>5. QuotaDone(k.call, i)'
    BY <2>1, <2>4 DEF Kept
  <2> QED
    BY <2>3, <2>5 DEF QuotaDone
<1> QED
  BY <1>2, <1>3, <1>4, <1>5, <1>6, <1>7, <1>8 DEF Settled

\* What was reported Ready stays so.
LEMMA ReadyStays ==
    ASSUME Base, NEW r \in hist.ready, ReadyOK(r), Kept(r.call), Agreed(r.call)'
    PROVE  ReadyOK(r)'
<1>1. r.id \in Nat /\ r.call \in Calls
  BY DEF Base, CoreTypes
<1> QED
  BY <1>1 DEF ReadyOK, Kept, Registered

\* Agreement lasts while no call arrives.
LEMMA AgreedStays ==
    ASSUME NEW c, Agreed(c),
           \A v \in Workers : work'[v].pc # "idle" => work[v].pc # "idle" /\ work'[v].call = work[v].call,
           \A m \in late' : m \in late \/ \E v \in Workers : work[v].pc # "idle" /\ m.call = work[v].call
    PROVE  Agreed(c)'
BY DEF Agreed

\* The configuration is in order: said of the values that the workers have.
ConfigHeld ==
    /\ \A w \in Workers, k \in Locals : work[w] = k => PointFor(k) /\ CalmOK(k)
    /\ \A m \in late : SentFor(m)
    /\ \A r \in [call : Calls, reg : Nat, id : Nat] : r \in hist.ready => ReadyOK(r)

\* If the values are in order in the next state, the configuration is.
LEMMA ConfigNext == Base' /\ ConfigHeld' => Config'
<1>1. Base /\ ConfigHeld => Config
  <2> SUFFICES ASSUME Base, ConfigHeld PROVE Config
    OBVIOUS
  <2>1. \A w \in Workers : work[w] \in Locals
    BY DEF Base
  <2>2. hist.ready \subseteq [call : Calls, reg : Nat, id : Nat]
    BY DEF Base, CoreTypes
  <2> QED
    BY <2>1, <2>2 DEF ConfigHeld, Config
<1> QED
  BY <1>1, PTL

\* A step keeps the configuration in order if it keeps what the agreeing calls
\* have reached, and puts in order the workers, writes and results it changes.
LEMMA ConfigFrom ==
    ASSUME Base, Base', Config,
           \A r \in [call : Calls, reg : Nat, id : Nat] : r \in hist'.ready =>
             \/ r \in hist.ready /\ Kept(r.call) /\ Agreed(r.call)'
             \/ ReadyOK(r)',
           \A m \in late' : m \in late \/ SentFor(m),
           \A v \in Workers, k \in Locals : work'[v] = k =>
             PointFor(k) /\ (Calm(k) => Agreed(k.call)' /\ Settled(k)')
    PROVE  Config'
<1>1. \A r \in [call : Calls, reg : Nat, id : Nat] : r \in hist'.ready => ReadyOK(r)'
  BY ReadyStays DEF Config
<1>2. ConfigHeld'
  BY <1>1 DEF ConfigHeld, Config, CalmOK, Calm
<1> QED
  BY <1>2, ConfigNext

\* What the calls under way agree with is kept by every step that they, or the
\* writes they left, take.
KeptByAll ==
    \A c \in Calls : c.kind = "create" /\ Agreed(c) => Kept(c) /\ RootKept

\* What a worker that does not move knows stays so.
LEMMA OthersConfig ==
    ASSUME Base, Base', Config, KeptByAll, NEW v \in Workers, NEW k \in Locals, work[v] = k
    PROVE  PointFor(k) /\ (Calm(k) => Agreed(k.call) /\ Settled(k)')
<1>1. PointFor(k) /\ CalmOK(k)
  BY DEF Config
<1>2. ASSUME Calm(k) PROVE Agreed(k.call) /\ Settled(k)'
  <2>1. Agreed(k.call) /\ Settled(k) /\ k.call.kind = "create" /\ k.call \in Calls
    BY <1>1, <1>2 DEF CalmOK, Calm, Locals
  <2>2. Kept(k.call) /\ RootKept
    BY <2>1 DEF KeptByAll
  <2> QED
    BY <2>1, <2>2, SettledStays
<1> QED
  BY <1>1, <1>2

\* A step of one worker for its call.
LEMMA OneMoves ==
    ASSUME Base, Base', Config, KeptByAll, NEW w \in Workers, NEW k \in Locals, Follows(w, k),
           work' = [work EXCEPT ![w] = k], Calm(k) => Settled(k)',
           \A m \in late' :
             m \in late \/ (work[w].pc # "idle" /\ m.call = work[w].call /\ SentFor(m)),
           \A r \in [call : Calls, reg : Nat, id : Nat] : r \in hist'.ready => r \in hist.ready \/ ReadyOK(r)'
    PROVE  Config'
<1>1. work \in [Workers -> Locals] /\ work'[w] = k /\ \A v \in Workers : v # w => work'[v] = work[v]
  BY DEF Base
<1>2. \A c : Agreed(c) => Agreed(c)'
  <2>1. \A v \in Workers : work'[v].pc # "idle" => work[v].pc # "idle" /\ work'[v].call = work[v].call
    BY <1>1 DEF Follows
  <2>2. \A m \in late' : m \in late \/ \E v \in Workers : work[v].pc # "idle" /\ m.call = work[v].call
    OBVIOUS
  <2> QED
    BY <2>1, <2>2, AgreedStays
<1>3. ASSUME NEW r \in hist.ready PROVE Kept(r.call) /\ Agreed(r.call)'
  <2>1. r.call \in Calls
    BY DEF Base, CoreTypes
  <2>2. r.call.kind = "create" /\ Agreed(r.call)
    BY DEF Config, ReadyOK
  <2> QED
    BY <1>2, <2>1, <2>2 DEF KeptByAll
<1>4. ASSUME NEW v \in Workers, NEW l \in Locals, work'[v] = l
      PROVE  PointFor(l) /\ (Calm(l) => Agreed(l.call)' /\ Settled(l)')
  <2>1. CASE v # w
    BY <1>1, <1>2, <1>4, <2>1, OthersConfig
  <2>2. CASE v = w
    <3>1. l = k
      BY <1>1, <1>4, <2>2
    <3>2. PointFor(k)
      BY DEF Follows, PointFor, EarlyPoints, LatePoints, QuotaPoints, DeletePoints
    <3>3. ASSUME Calm(k) PROVE Agreed(k.call)'
      <4>1. PICK l0 \in Locals : l0 = work[w]
        BY <1>1
      <4>2. l0.call = k.call /\ Calm(l0)
        BY <3>3, <4>1 DEF Follows, Calm
      <4>3. Agreed(k.call)
        BY <4>1, <4>2, OthersConfig
      <4> QED
        BY <1>2, <4>3
    <3> QED
      BY <3>1, <3>2, <3>3
  <2> QED
    BY <2>1, <2>2
<1> QED
  BY <1>3, <1>4, ConfigFrom

\* Core untouched, everything is kept.
LEMMA StillKept ==
    ASSUME Base, Base', UNCHANGED core
    PROVE  KeptByAll
<1>1. /\ bucket' = bucket /\ files' = files /\ quotas' = quotas
  BY DEF core
<1>2. \A c \in Calls : Kept(c)
  BY <1>1, QuietKeeps
<1>3. RootKept
  BY <1>1 DEF RootKept, At
<1> QED
  BY <1>2, <1>3 DEF KeptByAll

\* A step that only moves a worker on.
LEMMA MoveConfig ==
    ASSUME Base, Base', Config, NEW w \in Workers, NEW k \in Locals, Move(w, k), Follows(w, k),
           Calm(k) => Settled(k) \/ Settled(k)'
    PROVE  Config'
<1>1. work' = [work EXCEPT ![w] = k] /\ UNCHANGED <<core, late, hist>>
  BY DEF Move
<1>2. KeptByAll
  BY <1>1, StillKept
<1>3. Calm(k) => Settled(k)'
  <2>1. /\ bucket' = bucket /\ files' = files /\ quotas' = quotas
    BY <1>1 DEF core
  <2>2. Kept(k.call) /\ RootKept
    BY <2>1, QuietKeeps DEF RootKept, At, Locals
  <2> QED
    BY <2>2, SettledStays
<1>4. late' = late /\ hist' = hist
  BY <1>1
<1> QED
  BY <1>1, <1>2, <1>3, <1>4, OneMoves

\* What a write of one worker, sent now or earlier, keeps.
LEMMA WriteKeeps ==
    ASSUME Base, UNCHANGED hist, NEW m \in Writes, MsgOK(m), SentFor(m), Commit(m),
           \A c : Agreed(c) => Agree(c, m.call)
    PROVE  KeptByAll
BY CommitKeeps DEF KeptByAll

\* A write and the handler's step on its answer.
LEMMA SendConfig ==
    ASSUME Base, Base', Config, NEW w \in Workers, work[w].pc # "idle",
           NEW m \in Writes, MsgOK(m), SentFor(m), m.call = work[w].call,
           NEW after, Send(w, m, after), UNCHANGED hist,
           NEW l \in Locals, l = after["lost"], Follows(w, l), Calm(l) => Settled(l),
           NEW k \in Locals, k = after[Answer(m)], Follows(w, k),
           Calm(k) /\ Commit(m) /\ Kept(k.call) /\ RootKept => Settled(k)'
    PROVE  Config'
<1>1. CASE /\ Commit(m)
           /\ work' = [work EXCEPT ![w] = after[Answer(m)]]
           /\ late' = IF m.etag = 0 THEN late ELSE late \ {m}
  <2>1. KeptByAll
    BY <1>1, WriteKeeps DEF Agreed
  <2>2. Calm(k) => Settled(k)'
    <3> SUFFICES ASSUME Calm(k) PROVE Settled(k)'
      OBVIOUS
    <3>1. PICK l0 \in Locals : l0 = work[w]
      BY DEF Base
    <3>2. k.call = l0.call /\ Calm(l0)
      BY <3>1 DEF Follows, Calm
    <3>3. Agreed(k.call)
      BY <2>1, <3>1, <3>2, OthersConfig
    <3> QED
      BY <1>1, <2>1, <3>3 DEF KeptByAll, Calm, Locals
  <2>3. work' = [work EXCEPT ![w] = k] /\ late' \subseteq late
    BY <1>1
  <2> QED
    BY <2>1, <2>2, <2>3, OneMoves
<1>2. CASE /\ late' = late \cup {m}
           /\ work' = [work EXCEPT ![w] = after["lost"]] \/ UNCHANGED work
           /\ UNCHANGED core
  <2>1. KeptByAll
    BY <1>2, StillKept
  <2>2. PICK n \in Locals : work' = [work EXCEPT ![w] = n] /\ Follows(w, n) /\ (Calm(n) => Settled(n))
    <3>1. CASE work' = [work EXCEPT ![w] = after["lost"]]
      BY <3>1
    <3>2. CASE UNCHANGED work
      <4>1. PICK n \in Locals : n = work[w]
        BY DEF Base
      <4>2. work' = [work EXCEPT ![w] = n]
        BY <3>2, <4>1 DEF Base
      <4>3. PointFor(n) /\ (Calm(n) => Settled(n))
        BY <4>1 DEF Config, CalmOK, Calm
      <4> QED
        BY <4>1, <4>2, <4>3 DEF Follows
    <3> QED
      BY <1>2, <3>1, <3>2
  <2>3. Calm(n) => Settled(n)'
    <3>1. /\ bucket' = bucket /\ files' = files /\ quotas' = quotas
      BY <1>2 DEF core
    <3>2. Kept(n.call) /\ RootKept
      BY <3>1, QuietKeeps DEF RootKept, At, Locals
    <3> QED
      BY <2>2, <3>2, SettledStays
  <2> QED
    BY <1>2, <2>1, <2>2, <2>3, OneMoves
<1> QED
  BY <1>1, <1>2 DEF Send

\* A step that no handler takes.
LEMMA OutsideConfig ==
    ASSUME Base, Base', Config, KeptByAll, UNCHANGED <<work, hist>>, late' \subseteq late
    PROVE  Config'
<1>1. \A c : Agreed(c) => Agreed(c)'
  BY AgreedStays
<1>2. ASSUME NEW r \in hist.ready PROVE Kept(r.call) /\ Agreed(r.call)'
  <2>1. r.call \in Calls
    BY DEF Base, CoreTypes
  <2>2. r.call.kind = "create" /\ Agreed(r.call)
    BY DEF Config, ReadyOK
  <2> QED
    BY <1>1, <2>1, <2>2 DEF KeptByAll
<1>3. ASSUME NEW v \in Workers, NEW l \in Locals, work'[v] = l
      PROVE  PointFor(l) /\ (Calm(l) => Agreed(l.call)' /\ Settled(l)')
  BY <1>1, <1>3, OthersConfig
<1> QED
  BY <1>2, <1>3, ConfigFrom

\* A write whose answer was lost reaches Core.
LEMMA LateConfig == ASSUME Base, Base', Config, LateWrite PROVE Config'
<1>1. PICK m \in late : Commit(m) /\ late' = late \ {m} /\ UNCHANGED <<work, hist>>
  BY DEF LateWrite
<1>2. m \in Writes /\ MsgOK(m) /\ SentFor(m)
  BY DEF Base, Config
<1>3. KeptByAll
  BY <1>1, <1>2, WriteKeeps DEF Agreed
<1> QED
  BY <1>1, <1>3, OutsideConfig

\* A tree-delete job ends or aborts.
LEMMA JobConfig == ASSUME Base, Base', Config, JobEnds \/ JobAborts PROVE Config'
<1>1. /\ bucket' = bucket /\ quotas' = quotas /\ next' = next
      /\ UNCHANGED <<work, hist>> /\ late' = late
  BY DEF JobEnds, JobAborts
<1>2. World' /\ Evolves
  BY JobEndsOK, JobAbortsOK DEF Base, World
<1>3. RootKept
  BY <1>1, <1>2, RootIsKept
<1>4. \A c \in Calls : Kept(c)
  BY <1>1, QuietKeeps
<1> QED
  BY <1>1, <1>3, <1>4, OutsideConfig DEF KeptByAll

\* Users store data, or are granted access.
LEMMA ClientConfig == ASSUME Base, Base', Config, ClientWrites \/ ClientIsGranted PROVE Config'
<1>0. bucket \in Buckets
  BY DEF Base, CoreTypes
<1>1. /\ quotas' = quotas /\ (next' = next \/ files' = files)
      /\ UNCHANGED <<work, hist>> /\ late' = late
  BY DEF ClientWrites, ClientIsGranted
<1>2. World' /\ Evolves
  BY ClientWritesOK, ClientIsGrantedOK DEF Base, World
<1>3. /\ bucket'.reg = bucket.reg /\ bucket'.path = bucket.path
      /\ bucket'.versioning = bucket.versioning /\ bucket'.lock = bucket.lock
      /\ bucket'.policy \in {bucket.policy, "grants"}
  BY <1>0 DEF ClientWrites, ClientIsGranted, Buckets
<1>4. RootKept
  BY <1>1, <1>2, RootIsKept
<1>5. \A c \in Calls : Kept(c)
  BY <1>1, <1>3, QuietKeeps
<1> QED
  BY <1>1, <1>4, <1>5, OutsideConfig DEF KeptByAll

\* An operator leaves no create calm, and a bucket reported Ready as it is.
LEMMA OperatorConfig == ASSUME Base, Base', Config, OperatorActs PROVE Config'
<1>1. /\ Registered => bucket' = bucket
      /\ quotas' = quotas /\ late' = late /\ work' = Disturbed
      /\ hist'.ready = hist.ready
  <2>1. /\ Registered => bucket' = bucket
        /\ quotas' = quotas /\ late' = late /\ work' = Disturbed
    BY DEF OperatorActs
  <2>2. hist'.ready = hist.ready
    BY DEF OperatorActs, Base, CoreTypes
  <2> QED
    BY <2>1, <2>2
<1>2. ASSUME NEW v \in Workers, NEW k \in Locals, work'[v] = k
      PROVE  /\ k.pc = work[v].pc /\ k.call = work[v].call
             /\ PointFor(k) /\ ~Calm(k)
  <2>1. PICK l \in Locals : l = work[v] /\ PointFor(l)
    BY DEF Base, Config
  <2>2. k = IF l.call.kind = "create" THEN [l EXCEPT !.calm = FALSE] ELSE l
    BY <1>1, <1>2, <2>1 DEF Disturbed
  <2>3. k.pc = l.pc /\ k.call = l.call /\ ~Calm(k)
    BY <2>2 DEF Locals, Calm
  <2> QED
    BY <2>1, <2>3 DEF PointFor
<1>3. \A c : Agreed(c) => Agreed(c)'
  <2>1. \A v \in Workers : work'[v].pc # "idle" => work[v].pc # "idle" /\ work'[v].call = work[v].call
    BY <1>2 DEF Base
  <2> QED
    BY <1>1, <2>1, AgreedStays
<1>4. \A c \in Calls : Kept(c)
  <2>1. CASE Registered
    BY <1>1, <2>1, QuietKeeps
  <2>2. CASE ~Registered
    BY <2>2 DEF Kept
  <2> QED
    BY <2>1, <2>2
<1>5. ASSUME NEW r \in hist'.ready PROVE r \in hist.ready /\ Kept(r.call) /\ Agreed(r.call)'
  <2>1. r \in hist.ready /\ r.call \in Calls
    BY <1>1 DEF Base, CoreTypes
  <2> QED
    BY <1>3, <1>4, <2>1 DEF Config, ReadyOK
<1> QED
  BY <1>1, <1>2, <1>5, ConfigFrom

\* A call that arrives: the creates that go on as calm agree with it.
LEMMA StartConfig ==
    ASSUME Base, Base', Config, NEW w \in Workers, NEW c \in Calls,
           NEW p \in {"cGet", "iGet", "dGet"}, Start(w, c, p),
           c.kind = IF p = "cGet" THEN "create" ELSE IF p = "iGet" THEN "import" ELSE "delete"
    PROVE  Config'
<1>1. /\ UNCHANGED core /\ late' = late /\ work[w].pc = "idle"
      /\ hist' = [hist EXCEPT !.ready = {r \in @ : Agree(c, r.call)},
                              !.purged = @ \cup IF c.ctx = "purge" THEN {c.handle.id} ELSE {}]
  BY DEF Start, Is
<1>2. hist'.ready = {r \in hist.ready : Agree(c, r.call)}
  BY <1>1 DEF Base, CoreTypes
<1>3. KeptByAll
  BY <1>1, StillKept
<1>4. work'[w].pc = p /\ work'[w].call = c /\ work'[w].cur = Facts(NoBucket)
  BY DEF Start, Idle
<1>5. work'[w].calm /\ c.kind = "create" =>
        /\ \A v \in Workers : work[v].pc # "idle" => Agree(c, work[v].call)
        /\ \A m \in late : Agree(c, m.call)
  BY DEF Start, Is, Idle
<1>6. ASSUME NEW v \in Workers, v # w
      PROVE  /\ work'[v].pc = work[v].pc /\ work'[v].call = work[v].call
             /\ work'[v].cur = work[v].cur /\ work'[v].id = work[v].id
             /\ work'[v].calm /\ work[v].call.kind = "create" /\ work[v].pc # "idle" =>
                  work[v].calm /\ Agree(c, work[v].call)
  <2>1. PICK l \in Locals : l = work[v]
    BY DEF Base
  <2>2. CASE l.pc # "idle" /\ l.call.kind = "create"
    <3>1. PICK b \in BOOLEAN : b = (l.calm /\ Agree(c, l.call))
      BY Zenon
    <3>2. work'[v] = [l EXCEPT !.calm = l.calm /\ Agree(c, l.call)]
      BY <1>6, <2>1, <2>2 DEF Start, Is
    <3>3. work'[v] = [l EXCEPT !.calm = b]
      BY <3>1, <3>2, Zenon
    <3>4. /\ work'[v].pc = l.pc /\ work'[v].call = l.call
          /\ work'[v].cur = l.cur /\ work'[v].id = l.id /\ (work'[v].calm => b)
      BY <3>3 DEF Locals
    <3> QED
      BY <2>1, <3>1, <3>4
  <2>3. CASE ~(l.pc # "idle" /\ l.call.kind = "create")
    <3>1. work'[v] = l
      BY <1>6, <2>1, <2>3 DEF Start, Is
    <3> QED
      BY <2>1, <2>3, <3>1
  <2> QED
    BY <2>2, <2>3
<1>7. ASSUME NEW d, Agreed(d), Agree(d, c) PROVE Agreed(d)'
  BY <1>1, <1>4, <1>6, <1>7 DEF Agreed
<1>8. ASSUME NEW v \in Workers, NEW k \in Locals, work'[v] = k
      PROVE  PointFor(k) /\ (Calm(k) => Agreed(k.call)' /\ Settled(k)')
  <2>1. CASE v = w
    <3>1. k.pc = p /\ k.call = c /\ k.cur = Facts(NoBucket)
      BY <1>4, <1>8, <2>1
    <3>2. PointFor(k)
      BY <3>1 DEF PointFor, EarlyPoints, LatePoints, QuotaPoints, DeletePoints
    <3>3. Calm(k) => p = "cGet" /\ c.kind = "create" /\ work'[w].calm
      BY <1>8, <2>1, <3>1 DEF Calm
    <3>4. Calm(k) => Settled(k)'
      BY <3>1, <3>3 DEF Settled, EarlyPoints, LatePoints, QuotaPoints
    <3>5. Calm(k) => Agreed(c)'
      <4> SUFFICES ASSUME Calm(k) PROVE Agreed(c)'
        OBVIOUS
      <4>1. Agreed(c)
        BY <1>5, <3>3 DEF Agreed
      <4>2. Agree(c, c)
        BY <3>3 DEF Agree
      <4> QED
        BY <1>7, <4>1, <4>2
    <3> QED
      BY <3>1, <3>2, <3>4, <3>5
  <2>2. CASE v # w
    <3>1. PICK l \in Locals : l = work[v]
      BY DEF Base
    <3>2. /\ k.pc = l.pc /\ k.call = l.call /\ k.cur = l.cur /\ k.id = l.id
          /\ (Calm(k) => Calm(l) /\ Agree(c, l.call))
      BY <1>6, <1>8, <2>2, <3>1 DEF Calm
    <3>3. PointFor(l) /\ (Calm(l) => Agreed(l.call) /\ Settled(l)')
      BY <1>3, <3>1, OthersConfig
    <3>4. PointFor(k)
      BY <3>2, <3>3 DEF PointFor
    <3>5. Calm(k) => Settled(k)'
      BY <3>2, <3>3 DEF Settled
    <3>6. Calm(k) => Agreed(k.call)'
      BY <1>7, <3>2, <3>3, AgreeIs
    <3> QED
      BY <3>4, <3>5, <3>6
  <2> QED
    BY <2>1, <2>2
<1>9. ASSUME NEW r \in hist'.ready PROVE r \in hist.ready /\ Kept(r.call) /\ Agreed(r.call)'
  <2>1. r \in hist.ready /\ Agree(c, r.call) /\ r.call \in Calls
    BY <1>2 DEF Base, CoreTypes
  <2>2. r.call.kind = "create" /\ Agreed(r.call)
    BY <2>1 DEF Config, ReadyOK
  <2> QED
    BY <1>3, <1>7, <2>1, <2>2, AgreeIs DEF KeptByAll
<1> QED
  BY <1>1, <1>8, <1>9, ConfigFrom

\* A create or an import arrives.
LEMMA StartCreateConfig == ASSUME Base, Base', Config, NEW w \in Workers, StartCreate(w) PROVE Config'
<1>1. PICK c \in Classes :
        IF c.import THEN Start(w, [NoCall EXCEPT !.kind = "import"], "iGet")
        ELSE Start(w, [NoCall EXCEPT !.kind = "create", !.class = c, !.known = Documented], "cGet")
  BY DEF StartCreate
<1>2. NoCall \in Calls
  BY NoCallIs DEF Base
<1>3. CASE c.import
  <2>1. PICK d : d = [NoCall EXCEPT !.kind = "import"]
    OBVIOUS
  <2>2. d \in Calls /\ d.kind = "import"
    BY <1>2, <2>1 DEF Calls
  <2>3. Start(w, d, "iGet")
    BY <1>1, <1>3, <2>1
  <2> QED
    BY <2>2, <2>3, StartConfig
<1>4. CASE ~c.import
  <2>0. PICK known \in SUBSET Nat : known = Documented
    BY DEF Documented, Base, CoreTypes, Buckets
  <2>1. PICK d : d = [NoCall EXCEPT !.kind = "create", !.class = c, !.known = known]
    OBVIOUS
  <2>2. d \in Calls /\ d.kind = "create"
    BY <1>2, <2>1 DEF Calls
  <2>3. Start(w, d, "cGet")
    BY <1>1, <1>4, <2>0, <2>1
  <2> QED
    BY <2>2, <2>3, StartConfig
<1> QED
  BY <1>3, <1>4

\* A delete arrives.
LEMMA StartDeleteConfig == ASSUME Base, Base', Config, NEW w \in Workers, StartDelete(w) PROVE Config'
<1>1. PICK h \in hist.handles, ctx \in Contexts :
        Start(w, [NoCall EXCEPT !.kind = "delete", !.handle = h, !.since = next,
                                !.ctx = IF h.managed THEN ctx ELSE "keep"], "dGet")
  BY DEF StartDelete
<1>2. /\ NoCall \in Calls /\ next \in Nat /\ h \in Handles
      /\ ctx \in {"purge", "root", "keep"}
  BY NoCallIs, BucketAssumption DEF Base, CoreTypes
<1>3. PICK x \in {"purge", "root", "keep"} : x = (IF h.managed THEN ctx ELSE "keep")
  BY <1>2
<1>4. PICK d : d = [NoCall EXCEPT !.kind = "delete", !.handle = h, !.since = next, !.ctx = x]
  OBVIOUS
<1>5. d \in Calls /\ d.kind = "delete"
  BY <1>2, <1>3, <1>4 DEF Calls
<1>6. Start(w, d, "dGet")
  BY <1>1, <1>3, <1>4, Zenon
<1> QED
  BY <1>5, <1>6, StartConfig

\* A worker without a call is at no point and not calm.
LEMMA IdleFollows ==
    ASSUME NEW w \in Workers
    PROVE  Idle \in Locals /\ Follows(w, Idle) /\ ~Calm(Idle)
BY IdleType DEF Follows, Calm

\* A create goes on to another of its points.
LEMMA CreateFollows ==
    ASSUME Base, Config, NEW w \in Workers, work[w].pc \in EarlyPoints \cup LatePoints,
           NEW k, k.pc \in EarlyPoints \cup LatePoints, k.call = work[w].call, k.calm => work[w].calm
    PROVE  Follows(w, k) /\ work[w].call.kind = "create" /\ work[w].pc # "idle"
<1>1. work[w].call.kind = "create"
  BY DEF Config, PointFor
<1>2. work[w].pc # "idle"
  BY DEF EarlyPoints, LatePoints, QuotaPoints
<1>3. PointFor(k)
  BY <1>1 DEF PointFor, EarlyPoints, LatePoints, QuotaPoints, DeletePoints
<1> QED
  BY <1>1, <1>2, <1>3 DEF Follows

\* A calm create was calm before, and had settled what its point says.
LEMMA WasSettled ==
    ASSUME Base, Config, NEW w \in Workers, NEW k, Follows(w, k), Calm(k)
    PROVE  /\ Settled(work[w]) /\ Agreed(work[w].call) /\ k.call = work[w].call
           /\ k.call \in Calls /\ k.call.kind = "create"
<1>1. CalmOK(work[w]) /\ work[w] \in Locals
  BY DEF Base, Config
<1> QED
  BY <1>1 DEF Follows, Calm, CalmOK, Locals

\* A worker moved to another point is the same otherwise.
LEMMA GoCalm ==
    ASSUME Base, NEW w \in Workers, NEW p \in Points
    PROVE  \E k \in Locals : /\ k = Go(w, p) /\ k.pc = p /\ k.call = work[w].call
                             /\ k.cur = work[w].cur /\ k.id = work[w].id
                             /\ (k.calm => work[w].calm)
<1>1. PICK k : k = Go(w, p)
  OBVIOUS
<1>2. k \in Locals /\ k.pc = p /\ k.call = work[w].call /\ k.cur = work[w].cur /\ k.id = work[w].id
  BY <1>1, GoIs
<1>3. k.calm => work[w].calm
  BY <1>1 DEF Go, Base, Locals
<1> QED
  BY <1>1, <1>2, <1>3

\* What a create makes of the bucket it has read.
LEMMA FoundConfig ==
    ASSUME Base, Base', Config, NEW w \in Workers, work[w].pc \in {"cGet", "cReget"},
           NEW none \in Locals, Follows(w, none), Calm(none) => Settled(none),
           Move(w, Found(w, none))
    PROVE  Config'
<1>1. CASE Found(w, none) = none
  BY <1>1, MoveConfig
<1>2. CASE Found(w, none) = Idle
  BY <1>2, IdleFollows, MoveConfig
<1>3. CASE /\ Registered /\ bucket.path = Want
           /\ Found(w, none) = [Go(w, "cPolicy") EXCEPT !.cur = Facts(bucket)]
  <2>1. PICK l \in Locals : /\ l = Go(w, "cPolicy") /\ l.pc = "cPolicy" /\ l.call = work[w].call
                            /\ (l.calm => work[w].calm)
    BY GoCalm DEF Points, CreatePoints
  <2>2. PICK cur \in [path : Paths, versioning : Versionings, lock : BOOLEAN] : cur = Facts(bucket)
    BY FactsType
  <2>3. cur.path = Want /\ cur.versioning = bucket.versioning /\ cur.lock = bucket.lock
    BY <1>3, <2>2 DEF Facts
  <2>4. PICK k : k = [l EXCEPT !.cur = cur]
    OBVIOUS
  <2>5. /\ k \in Locals /\ k.pc = "cPolicy" /\ k.call = work[w].call /\ k.cur = cur
        /\ (k.calm => work[w].calm)
    BY <2>1, <2>4 DEF Locals
  <2>6. Move(w, k)
    BY <1>3, <2>1, <2>2, <2>4
  <2>7. Follows(w, k)
    BY <2>5, CreateFollows DEF EarlyPoints, LatePoints
  <2>8. Settled(k)
    BY <1>3, <2>3, <2>5 DEF Settled, EarlyPoints, LatePoints, QuotaPoints, VersionDone, LockDone
  <2> QED
    BY <2>5, <2>6, <2>7, <2>8, MoveConfig
<1> QED
  BY <1>1, <1>2, <1>3 DEF Found

\* A create at a point where it has found nothing yet.
LEMMA EarlyFollows ==
    ASSUME Base, Config, NEW w \in Workers, work[w].pc \in EarlyPoints, NEW p \in EarlyPoints
    PROVE  \E k \in Locals : k = Go(w, p) /\ k.pc = p /\ Follows(w, k) /\ (Calm(k) => Settled(k))
<1>1. PICK k \in Locals : /\ k = Go(w, p) /\ k.pc = p /\ k.call = work[w].call /\ k.cur = work[w].cur
                          /\ (k.calm => work[w].calm)
  BY GoCalm DEF Points, CreatePoints, EarlyPoints
<1>2. Follows(w, k)
  BY <1>1, CreateFollows
<1>3. Calm(k) => Settled(k)
  <2> SUFFICES ASSUME Calm(k) PROVE Settled(k)
    OBVIOUS
  <2>1. k.cur = Facts(NoBucket)
    BY <1>1, <1>2, WasSettled DEF Settled
  <2> QED
    BY <1>1, <2>1 DEF Settled, EarlyPoints, LatePoints, QuotaPoints
<1> QED
  BY <1>1, <1>2, <1>3

\* GetBucket, first and after a conflict.
LEMMA GetConfig ==
    ASSUME Base, Base', Config, NEW w \in Workers, CreateGet(w) \/ CreateReget(w)
    PROVE  Config'
<1>1. CASE CreateGet(w)
  <2>1. work[w].pc = "cGet" /\ Move(w, Found(w, Go(w, "cPost")))
    BY <1>1 DEF CreateGet, Is
  <2>2. PICK none \in Locals : none = Go(w, "cPost") /\ Follows(w, none) /\ (Calm(none) => Settled(none))
    BY <2>1, EarlyFollows DEF EarlyPoints
  <2> QED
    BY <2>1, <2>2, FoundConfig
<1>2. CASE CreateReget(w)
  <2>1. work[w].pc = "cReget" /\ Move(w, Found(w, Idle))
    BY <1>2 DEF CreateReget, Is
  <2> QED
    BY <2>1, IdleFollows, FoundConfig
<1> QED
  BY <1>1, <1>2

\* A bucket that the POST of a create makes is where it is wanted, with the lock
\* that the class asks for.
LEMMA PostConfig ==
    ASSUME Base, Base', Config, NEW w \in Workers, NEW p \in {"cPost", "cPostOpen"},
           NEW flag \in BOOLEAN, NEW done \in {"cPolicy", "cLockDown"}, PostBucket(w, p, flag, done)
    PROVE  Config'
<1>1. work[w].pc = p /\ p \in EarlyPoints /\ UNCHANGED hist
  BY DEF PostBucket, Is, EarlyPoints
<1>2. PICK m \in Writes : /\ m = [Write(w, "post") EXCEPT !.flag = flag] /\ m.op = "post"
                          /\ m.call = work[w].call
  <2>1. PICK m : m = [Write(w, "post") EXCEPT !.flag = flag]
    OBVIOUS
  <2>2. "post" \in Ops
    BY DEF Ops
  <2> QED
    BY <2>1, <2>2, WriteIs
<1>3. MsgOK(m) /\ SentFor(m)
  <2>1. m.id = work[w].id
    BY <1>2 DEF Write, Writes
  <2>2. work[w].call.kind = "create"
    BY <1>1 DEF Config, PointFor
  <2> QED
    BY <1>2, <2>1, <2>2, FreeWrite DEF SentFor
<1>4. PICK made \in Locals :
        /\ made = [Go(w, done) EXCEPT !.cur = [@ EXCEPT !.lock = Class(w).lock]]
        /\ made.pc = done /\ made.call = work[w].call /\ (made.calm => work[w].calm)
        /\ made.cur.path = work[w].cur.path /\ made.cur.versioning = work[w].cur.versioning
  <2>1. PICK l \in Locals : /\ l = Go(w, done) /\ l.pc = done /\ l.call = work[w].call
                            /\ l.cur = work[w].cur /\ (l.calm => work[w].calm)
    BY GoCalm DEF Points, CreatePoints
  <2>2. Class(w).lock \in BOOLEAN
    BY WorkIs, BucketAssumption DEF Class, Calls
  <2>3. PICK cur : cur = [l.cur EXCEPT !.lock = Class(w).lock]
    OBVIOUS
  <2>4. cur \in [path : Paths, versioning : Versionings, lock : BOOLEAN]
    BY <2>2, <2>3 DEF Locals
  <2>5. cur.path = l.cur.path /\ cur.versioning = l.cur.versioning
    BY <2>3 DEF Locals
  <2>6. PICK made : made = [Go(w, done) EXCEPT !.cur = [@ EXCEPT !.lock = Class(w).lock]]
    OBVIOUS
  <2>7. made = [l EXCEPT !.cur = cur]
    BY <2>1, <2>3, <2>6
  <2>8. /\ made \in Locals /\ made.pc = done /\ made.call = l.call /\ made.cur = cur
        /\ (made.calm => l.calm)
    BY <2>1, <2>4, <2>7 DEF Locals
  <2> QED
    BY <2>1, <2>5, <2>6, <2>8
<1>5. Follows(w, made)
  BY <1>1, <1>4, CreateFollows DEF LatePoints
<1>6. PICK reget \in Locals : /\ reget = Go(w, "cReget") /\ Follows(w, reget)
                              /\ (Calm(reget) => Settled(reget))
  BY <1>1, EarlyFollows DEF EarlyPoints
<1>7. PICK after : after = [ok |-> made, exists |-> reget, lost |-> Idle]
  OBVIOUS
<1>8. Send(w, m, after)
  BY <1>2, <1>4, <1>6, <1>7 DEF PostBucket
<1>9. PICK k \in Locals : k = after[Answer(m)] /\ (k = reget \/ (k = made /\ Answer(m) = "ok"))
  BY <1>2, <1>7 DEF Answer
<1>10. ASSUME k = made, Answer(m) = "ok", Calm(k), Commit(m) PROVE Settled(k)'
  <2>1. made.cur.path = Want /\ made.cur.versioning = "Unversioned"
    BY <1>1, <1>4, <1>5, <1>10, WasSettled DEF Settled, Facts, NoBucket
  <2>0. PICK b \in BOOLEAN, policy \in Policies :
          /\ b = m.call.class.lock /\ (made.call.class.lock => b)
          /\ bucket' = [NoBucket EXCEPT !.reg = next, !.etag = next, !.lock = b, !.policy = policy]
    <3>1. Effect(m)
      BY <1>10 DEF Commit
    <3>2. bucket' = [NoBucket EXCEPT !.reg = next, !.etag = next, !.lock = m.call.class.lock,
                                     !.policy = IF m.flag THEN "none" ELSE "open"]
      BY <1>2, <3>1 DEF Effect
    <3>3. PICK policy \in Policies : policy = (IF m.flag THEN "none" ELSE "open")
      BY DEF Policies
    <3>4. PICK b \in BOOLEAN : b = m.call.class.lock
      BY BucketAssumption DEF Writes, Calls
    <3>5. made.call.class.lock => b
      BY <1>2, <1>4, <3>4
    <3> QED
      BY <3>2, <3>3, <3>4, <3>5
  <2>2. bucket'.path = Want /\ bucket'.reg = next /\ (b => bucket'.lock)
    BY <2>0 DEF NoBucket
  <2>3. Registered'
    BY <2>2 DEF Base, CoreTypes, Registered
  <2>4. made.cur.versioning = made.call.class.versioning => VersionDone(made.call)'
    BY <2>1 DEF VersionDone
  <2>5. LockDone(made.call)'
    BY <2>0, <2>2 DEF LockDone
  <2>6. made.pc \in {"cPolicy", "cLockDown"}
    BY <1>4
  <2> QED
    BY <1>10, <2>1, <2>2, <2>3, <2>4, <2>5, <2>6 DEF Settled, EarlyPoints, QuotaPoints
<1>11. Calm(k) /\ Commit(m) /\ Kept(k.call) /\ RootKept => Settled(k)'
  BY <1>6, <1>9, <1>10, SettledStays
<1>12. Follows(w, k)
  BY <1>5, <1>6, <1>9
<1>13. PICK l \in Locals : l = after["lost"] /\ Follows(w, l) /\ ~Calm(l)
  BY <1>7, IdleFollows
<1>14. work[w].pc # "idle"
  BY <1>1
<1> QED
  BY <1>1, <1>2, <1>3, <1>8, <1>9, <1>11, <1>12, <1>13, <1>14, SendConfig

\* The POST, with `private` or without.
LEMMA CreatePostConfig == ASSUME Base, Base', Config, NEW w \in Workers, CreatePost(w) PROVE Config'
<1>1. CASE PostBucket(w, "cPost", TRUE, "cPolicy")
  BY <1>1, PostConfig
<1>2. CASE Is(w, "cPost") /\ Move(w, Go(w, "cPostOpen"))
  <2>1. PICK k \in Locals : k = Go(w, "cPostOpen") /\ Follows(w, k) /\ (Calm(k) => Settled(k))
    BY <1>2, EarlyFollows DEF Is, EarlyPoints
  <2> QED
    BY <1>2, <2>1, MoveConfig
<1>3. CASE PostBucket(w, "cPostOpen", FALSE, "cLockDown")
  BY <1>3, PostConfig
<1> QED
  BY <1>1, <1>2, <1>3 DEF CreatePost

\* The points of a create that has its bucket and is not done with the policy.
OpenPoints == {"cLockDown", "cPolicy", "cPutPolicy"}

\* A create that goes from one of them to another has settled as much.
LEMMA OpenFollows ==
    ASSUME Base, Config, NEW w \in Workers, work[w].pc \in OpenPoints,
           NEW k \in Locals, k.pc \in OpenPoints, k.call = work[w].call, k.cur = work[w].cur,
           k.calm => work[w].calm
    PROVE  Follows(w, k) /\ (Calm(k) => Settled(k))
<1>1. Follows(w, k)
  BY CreateFollows DEF OpenPoints, LatePoints
<1>2. Calm(k) => Settled(k)
  <2> SUFFICES ASSUME Calm(k) PROVE Settled(k)
    OBVIOUS
  <2>1. Settled(work[w])
    BY <1>1, WasSettled
  <2> QED
    BY <2>1 DEF Settled, OpenPoints, EarlyPoints, LatePoints, QuotaPoints
<1> QED
  BY <1>1, <1>2

\* A write that a create sends.
LEMMA CreateWrite ==
    ASSUME Base, Config, NEW w \in Workers, work[w].pc \in EarlyPoints \cup LatePoints,
           NEW op \in Ops \ {"abort", "drop", "tree"}
    PROVE  \E m \in Writes : /\ m = Write(w, op) /\ m.op = op /\ m.call = work[w].call
                             /\ m.id = work[w].id /\ m.etag = work[w].etag /\ SentFor(m)
                             /\ (op # "policy" => MsgOK(m))
<1>1. PICK m : m = Write(w, op)
  OBVIOUS
<1>2. /\ m \in Writes /\ m.op = op /\ m.call = work[w].call /\ m.id = work[w].id
      /\ m.etag = work[w].etag
  BY <1>1, PlainWriteIs
<1>3. work[w].call.kind = "create"
  BY DEF Config, PointFor
<1>4. op # "policy" => MsgOK(m)
  BY <1>2, FreeWrite
<1> QED
  BY <1>1, <1>2, <1>3, <1>4 DEF SentFor

\* lockDownLegacy.
LEMMA LockDownConfig == ASSUME Base, Base', Config, NEW w \in Workers, LockDown(w) PROVE Config'
<1>1. /\ work[w].pc = "cLockDown" /\ work[w].pc \in OpenPoints
      /\ work[w].pc \in EarlyPoints \cup LatePoints /\ UNCHANGED hist
  BY DEF LockDown, Is, OpenPoints, LatePoints
<1>2. PICK m \in Writes : /\ m = Write(w, "policy") /\ m.op = "policy" /\ m.call = work[w].call
                          /\ m.id = work[w].id /\ m.etag = work[w].etag /\ SentFor(m)
  BY <1>1, CreateWrite DEF Ops
<1>3. m.etag = 0 /\ MsgOK(m)
  BY <1>1, <1>2, WorkIs DEF MsgOK, Harmless, CreateOK
<1>4. PICK ok \in Locals : /\ ok = Go(w, "cPolicy") /\ Follows(w, ok) /\ (Calm(ok) => Settled(ok))
  <2>1. PICK ok \in Locals : /\ ok = Go(w, "cPolicy") /\ ok.pc = "cPolicy" /\ ok.call = work[w].call
                             /\ ok.cur = work[w].cur /\ (ok.calm => work[w].calm)
    BY GoCalm DEF Points, CreatePoints
  <2> QED
    BY <1>1, <2>1, OpenFollows DEF OpenPoints
<1>5. PICK after : after = [ok |-> ok, missing |-> Idle, lost |-> Idle]
  OBVIOUS
<1>6. Send(w, m, after)
  BY <1>2, <1>4, <1>5 DEF LockDown
<1>7. PICK k \in Locals : k = after[Answer(m)] /\ (k = ok \/ k = Idle)
  <2>1. Answer(m) \in {"ok", "missing"}
    BY <1>2, <1>3 DEF Answer
  <2> QED
    BY <1>5, <2>1, IdleFollows
<1>8. Follows(w, k) /\ (Calm(k) /\ Commit(m) /\ Kept(k.call) /\ RootKept => Settled(k)')
  BY <1>4, <1>7, IdleFollows, SettledStays
<1>9. PICK l \in Locals : l = after["lost"] /\ Follows(w, l) /\ ~Calm(l)
  BY <1>5, IdleFollows
<1>10. work[w].pc # "idle"
  BY <1>1
<1> QED
  BY <1>1, <1>2, <1>3, <1>6, <1>7, <1>8, <1>9, <1>10, SendConfig

\* What a worker is after each part of ensureBucketConfig, whose local variables
\* were l: it has skipped the parts that the class does not ask for, or that the
\* bucket, as it was read, has.
Unlocked(l, k) ==
    /\ k.call = l.call /\ (k.calm => l.calm) /\ k.cur.path = l.cur.path
    /\ k.pc = "cQuotaRoot" \/ (k.pc = "cRoot" /\ ~(l.call.class.quota > 0))

Unversioned(l, k) ==
    \/ Unlocked(l, k) /\ (l.call.class.lock => l.cur.lock)
    \/ k.pc = "cLock" /\ k.call = l.call /\ (k.calm => l.calm) /\ k.cur = l.cur

Configures(l, k) ==
    \/ Unversioned(l, k) /\ l.call.class.versioning \in {"Unversioned", l.cur.versioning}
    \/ k.pc = "cVersion" /\ k.call = l.call /\ (k.calm => l.calm) /\ k.cur = l.cur

\* It is so after each part.
LEMMA AfterShape ==
    ASSUME Base, NEW w \in Workers, NEW l \in Locals, l = work[w]
    PROVE  /\ \E k \in Locals : k = AfterLock(w) /\ Unlocked(l, k)
           /\ \E k \in Locals : k = AfterVersion(w) /\ Unversioned(l, k)
           /\ \E k \in Locals : k = AfterPolicy(w) /\ Configures(l, k)
<1>1. PICK k1 \in Locals : k1 = AfterLock(w) /\ Unlocked(l, k1)
  <2>1. PICK pc \in {"cQuotaRoot", "cRoot"} :
          pc = (IF Class(w).quota > 0 THEN "cQuotaRoot" ELSE "cRoot")
    OBVIOUS
  <2>2. PICK cur \in [path : Paths, versioning : Versionings, lock : BOOLEAN] :
          cur = Rest(l.cur) /\ cur.path = l.cur.path
    <3>1. PICK cur \in [path : Paths, versioning : Versionings, lock : BOOLEAN] : cur = Rest(l.cur)
      BY FactsType DEF Locals
    <3>2. cur.path = l.cur.path
      BY <3>1 DEF Rest, Facts
    <3> QED
      BY <3>1, <3>2
  <2>3. PICK k : k = [l EXCEPT !.pc = pc, !.cur = cur, !.etag = 0, !.try = 1]
    OBVIOUS
  <2>4. k = AfterLock(w)
    BY <2>1, <2>2, <2>3 DEF AfterLock
  <2>5. k \in Locals
    BY <2>3, <2>4, AfterIs
  <2>6. k.pc = pc /\ k.call = l.call /\ k.cur = cur /\ (k.calm => l.calm)
    BY <2>3 DEF Locals
  <2>7. pc = "cRoot" => ~(l.call.class.quota > 0)
    BY <2>1 DEF Class
  <2> QED
    BY <2>1, <2>2, <2>4, <2>5, <2>6, <2>7 DEF Unlocked
<1>2. ASSUME NEW p \in {"cVersion", "cLock"}
      PROVE  \E k \in Locals : /\ k = [Go(w, p) EXCEPT !.etag = 0, !.try = 1]
                               /\ k.pc = p /\ k.call = l.call /\ (k.calm => l.calm) /\ k.cur = l.cur
  <2>1. PICK i \in Locals : /\ i = Go(w, p) /\ i.pc = p /\ i.call = l.call
                            /\ i.cur = l.cur /\ (i.calm => l.calm)
    BY GoCalm DEF Points, CreatePoints
  <2>2. PICK k : k = [i EXCEPT !.etag = 0, !.try = 1]
    OBVIOUS
  <2>3. k \in Locals /\ k.pc = i.pc /\ k.call = i.call /\ k.cur = i.cur /\ (k.calm => i.calm)
    BY <2>2 DEF Locals
  <2> QED
    BY <2>1, <2>2, <2>3
<1>3. PICK k2 \in Locals : k2 = AfterVersion(w) /\ Unversioned(l, k2)
  <2>1. CASE Class(w).lock /\ ~work[w].cur.lock
    BY <1>2, <2>1 DEF AfterVersion, Unversioned
  <2>2. CASE ~(Class(w).lock /\ ~work[w].cur.lock)
    BY <1>1, <2>2 DEF AfterVersion, Unversioned, Class
  <2> QED
    BY <2>1, <2>2
<1>4. PICK k3 \in Locals : k3 = AfterPolicy(w) /\ Configures(l, k3)
  <2>1. CASE Version(w)
    BY <1>2, <2>1 DEF AfterPolicy, Configures
  <2>2. CASE ~Version(w)
    BY <1>3, <2>2 DEF AfterPolicy, Configures, Version, Class
  <2> QED
    BY <2>1, <2>2
<1> QED
  BY <1>1, <1>3, <1>4

\* Such a worker is at a point of a create.
LEMMA ConfiguresFollows ==
    ASSUME Base, Config, NEW w \in Workers, work[w].pc \in LatePoints, NEW k \in Locals,
           Configures(work[w], k) \/ Unversioned(work[w], k) \/ Unlocked(work[w], k)
    PROVE  Follows(w, k)
<1>1. k.pc \in LatePoints /\ k.call = work[w].call /\ (k.calm => work[w].calm)
  BY DEF Configures, Unversioned, Unlocked, LatePoints, QuotaPoints
<1> QED
  BY <1>1, CreateFollows

\* When the lock is done, all is that the bucket itself has.
LEMMA UnlockedSettled ==
    ASSUME NEW l \in Locals, NEW k \in Locals, Unlocked(l, k), l.cur.path = Want, (Registered)',
           bucket'.path = Want, bucket'.policy # "open", VersionDone(l.call)', LockDone(l.call)'
    PROVE  Settled(k)'
<1>1. k.call = l.call /\ k.cur.path = Want /\ k.pc \in {"cQuotaRoot", "cRoot"}
  BY DEF Unlocked
<1>2. VersionDone(k.call)' /\ LockDone(k.call)'
  BY <1>1 DEF VersionDone, LockDone
<1>3. k.pc = "cRoot" => QuotaDone(k.call, At(Want))'
  BY <1>1 DEF Unlocked, QuotaDone
<1> QED
  BY <1>1, <1>2, <1>3 DEF Settled, EarlyPoints, QuotaPoints

\* When versioning is done.
LEMMA UnversionedSettled ==
    ASSUME NEW l \in Locals, NEW k \in Locals, Unversioned(l, k), l.cur.path = Want, (Registered)',
           bucket'.path = Want, bucket'.policy # "open", VersionDone(l.call)',
           (l.cur.lock => LockDone(l.call)')
    PROVE  Settled(k)'
<1>1. CASE Unlocked(l, k) /\ (l.call.class.lock => l.cur.lock)
  <2>1. LockDone(l.call)'
    BY <1>1 DEF LockDone
  <2> QED
    BY <1>1, <2>1, UnlockedSettled
<1>2. CASE k.pc = "cLock" /\ k.call = l.call /\ (k.calm => l.calm) /\ k.cur = l.cur
  <2>1. VersionDone(k.call)'
    BY <1>2 DEF VersionDone
  <2> QED
    BY <1>2, <2>1 DEF Settled, EarlyPoints, QuotaPoints
<1> QED
  BY <1>1, <1>2 DEF Unversioned

\* When the policy is done.
LEMMA ConfiguresSettled ==
    ASSUME NEW l \in Locals, NEW k \in Locals, Configures(l, k), l.cur.path = Want, (Registered)',
           bucket'.path = Want, bucket'.policy # "open",
           (l.cur.versioning = l.call.class.versioning => VersionDone(l.call)'),
           (l.cur.lock => LockDone(l.call)')
    PROVE  Settled(k)'
<1>1. CASE Unversioned(l, k) /\ l.call.class.versioning \in {"Unversioned", l.cur.versioning}
  <2>1. VersionDone(l.call)'
    BY <1>1 DEF VersionDone
  <2> QED
    BY <1>1, <2>1, UnversionedSettled
<1>2. CASE k.pc = "cVersion" /\ k.call = l.call /\ (k.calm => l.calm) /\ k.cur = l.cur
  <2>1. /\ k.cur.versioning = k.call.class.versioning => VersionDone(k.call)'
        /\ k.cur.lock => LockDone(k.call)'
    BY <1>2
  <2> QED
    BY <1>2, <2>1 DEF Settled, EarlyPoints, QuotaPoints
<1> QED
  BY <1>1, <1>2 DEF Configures

\* GetBucketPolicy: a policy that has statements is left, and not open.
LEMMA GetPolicyConfig == ASSUME Base, Base', Config, NEW w \in Workers, GetPolicy(w) PROVE Config'
<1>1. /\ work[w].pc = "cPolicy"
      /\ Move(w, IF bucket.policy = "grants" THEN AfterPolicy(w)
                 ELSE [Go(w, "cPutPolicy") EXCEPT !.etag = IF bucket.policy = "open" THEN 0
                                                           ELSE bucket.etag])
  BY DEF GetPolicy, Is
<1>2. CASE bucket.policy = "grants"
  <2>1. PICK l \in Locals : l = work[w]
    BY DEF Base
  <2>2. PICK k \in Locals : k = AfterPolicy(w) /\ Configures(l, k)
    BY <2>1, AfterShape
  <2>3. Follows(w, k)
    BY <1>1, <2>1, <2>2, ConfiguresFollows DEF LatePoints
  <2>4. Move(w, k)
    BY <1>1, <1>2, <2>2
  <2>5. ASSUME Calm(k) PROVE Settled(k)'
    <3>1. Settled(l)
      BY <2>1, <2>3, <2>5, WasSettled
    <3>2. bucket' = bucket
      BY <2>4 DEF Move, core
    <3>3. /\ Registered' /\ bucket'.path = Want /\ l.cur.path = Want /\ bucket'.policy # "open"
          /\ (l.cur.versioning = l.call.class.versioning => VersionDone(l.call)')
          /\ (l.cur.lock => LockDone(l.call)')
      BY <1>1, <1>2, <2>1, <3>1, <3>2
         DEF Settled, LatePoints, Registered, VersionDone, LockDone
    <3> QED
      BY <2>2, <3>3, ConfiguresSettled
  <2> QED
    BY <2>3, <2>4, <2>5, MoveConfig
<1>3. CASE bucket.policy # "grants"
  <2>1. PICK etag \in Nat : etag = (IF bucket.policy = "open" THEN 0 ELSE bucket.etag)
    BY DEF Base, CoreTypes, Buckets
  <2>2. PICK l \in Locals : /\ l = Go(w, "cPutPolicy") /\ l.pc = "cPutPolicy"
                            /\ l.call = work[w].call /\ l.cur = work[w].cur
                            /\ (l.calm => work[w].calm)
    BY GoCalm DEF Points, CreatePoints
  <2>3. PICK k : k = [l EXCEPT !.etag = etag]
    OBVIOUS
  <2>4. /\ k \in Locals /\ k.pc = "cPutPolicy" /\ k.call = work[w].call /\ k.cur = work[w].cur
        /\ (k.calm => work[w].calm)
    BY <2>2, <2>3 DEF Locals
  <2>5. Move(w, k)
    BY <1>1, <1>3, <2>1, <2>2, <2>3
  <2>6. Follows(w, k) /\ (Calm(k) => Settled(k))
    BY <1>1, <2>4, OpenFollows DEF OpenPoints
  <2> QED
    BY <2>4, <2>5, <2>6, MoveConfig
<1> QED
  BY <1>2, <1>3

\* The PUT of the policy: where Core accepts it, nobody has access by default.
LEMMA PutPolicyConfig == ASSUME Base, Base', Config, NEW w \in Workers, PutPolicy(w) PROVE Config'
<1>1. /\ work[w].pc = "cPutPolicy" /\ work[w].pc \in OpenPoints
      /\ work[w].pc \in EarlyPoints \cup LatePoints /\ work[w].pc \in LatePoints /\ UNCHANGED hist
  BY DEF PutPolicy, Is, OpenPoints, LatePoints
<1>2. PICK m \in Writes : /\ m = Write(w, "policy") /\ m.op = "policy" /\ m.call = work[w].call
                          /\ m.id = work[w].id /\ m.etag = work[w].etag /\ SentFor(m)
  BY <1>1, CreateWrite DEF Ops
<1>3. MsgOK(m)
  BY <1>1, <1>2, WorkIs DEF MsgOK, CreateOK
<1>4. PICK l \in Locals : l = work[w]
  BY DEF Base
<1>5. PICK ok \in Locals : ok = AfterPolicy(w) /\ Configures(l, ok)
  BY <1>4, AfterShape
<1>6. Follows(w, ok)
  BY <1>1, <1>4, <1>5, ConfiguresFollows
<1>7. PICK again \in Locals : /\ again = Again(w) /\ Follows(w, again) /\ (Calm(again) => Settled(again))
  <2>1. CASE work[w].try < PolicyAttempts
    <3>1. PICK i \in Locals : /\ i = Go(w, "cPolicy") /\ i.pc = "cPolicy" /\ i.call = work[w].call
                              /\ i.cur = work[w].cur /\ (i.calm => work[w].calm)
      BY GoCalm DEF Points, CreatePoints
    <3>2. PICK try \in Nat : try = i.try + 1
      BY DEF Locals
    <3>3. PICK k : k = [i EXCEPT !.etag = 0, !.try = try]
      OBVIOUS
    <3>4. k \in Locals /\ k.pc = i.pc /\ k.call = i.call /\ k.cur = i.cur /\ (k.calm => i.calm)
      BY <3>3 DEF Locals
    <3>5. k = Again(w)
      BY <2>1, <3>1, <3>2, <3>3 DEF Again
    <3>6. Follows(w, k) /\ (Calm(k) => Settled(k))
      BY <1>1, <3>1, <3>4, OpenFollows DEF OpenPoints
    <3> QED
      BY <3>4, <3>5, <3>6
  <2>2. CASE ~(work[w].try < PolicyAttempts)
    BY <2>2, IdleFollows DEF Again
  <2> QED
    BY <2>1, <2>2
<1>8. PICK after : after = [ok |-> ok, stale |-> again, missing |-> Idle, lost |-> Idle]
  OBVIOUS
<1>9. Send(w, m, after)
  BY <1>2, <1>5, <1>7, <1>8 DEF PutPolicy
<1>10. PICK k \in Locals : /\ k = after[Answer(m)]
                           /\ k = again \/ k = Idle \/ (k = ok /\ Answer(m) = "ok")
  <2>1. Answer(m) \in {"ok", "stale", "missing"}
    BY <1>2 DEF Answer
  <2> QED
    BY <1>8, <2>1, IdleFollows
<1>11. ASSUME k = ok, Answer(m) = "ok", Calm(k), Commit(m), Kept(k.call) PROVE Settled(k)'
  <2>1. Settled(l) /\ k.call = l.call
    BY <1>4, <1>6, <1>11, WasSettled
  <2>2. bucket' = [bucket EXCEPT !.policy = "none", !.etag = next]
    BY <1>2, <1>11 DEF Commit, Effect
  <2>3. bucket'.policy = "none"
    BY <2>2 DEF Base, CoreTypes, Buckets
  <2>4. /\ Registered' /\ bucket'.path = Want /\ l.cur.path = Want
        /\ (l.cur.versioning = l.call.class.versioning => VersionDone(l.call)')
        /\ (l.cur.lock => LockDone(l.call)')
    BY <1>1, <1>4, <1>11, <2>1 DEF Settled, Kept, LatePoints, Registered
  <2> QED
    BY <1>5, <1>11, <2>3, <2>4, ConfiguresSettled
<1>12. Calm(k) /\ Commit(m) /\ Kept(k.call) /\ RootKept => Settled(k)'
  BY <1>7, <1>10, <1>11, IdleFollows, SettledStays
<1>13. Follows(w, k)
  BY <1>6, <1>7, <1>10, IdleFollows
<1>14. PICK n \in Locals : n = after["lost"] /\ Follows(w, n) /\ ~Calm(n)
  BY <1>8, IdleFollows
<1>15. work[w].pc # "idle"
  BY <1>1
<1> QED
  BY <1>1, <1>2, <1>3, <1>9, <1>10, <1>12, <1>13, <1>14, <1>15, SendConfig

\* The PATCH of versioning, and that of the lock.
LEMMA PatchConfig == ASSUME Base, Base', Config, NEW w \in Workers, PatchBucket(w) PROVE Config'
<1>1. UNCHANGED hist
  BY DEF PatchBucket
<1>2. PICK l \in Locals : l = work[w]
  BY DEF Base
<1>3. ASSUME NEW op \in {"version", "lock"}, NEW ok \in Locals, l.pc \in {"cVersion", "cLock"},
             Follows(w, ok), Send(w, Write(w, op), [ok |-> ok, missing |-> Idle, lost |-> Idle]),
             \A m \in Writes : m.op = op /\ m.call = l.call /\ Effect(m) /\ Settled(l) /\ Kept(l.call)
               => Settled(ok)'
      PROVE  Config'
  <2>1. work[w].pc \in EarlyPoints \cup LatePoints /\ work[w].pc # "idle"
    BY <1>2, <1>3 DEF LatePoints
  <2>2. PICK m \in Writes : /\ m = Write(w, op) /\ m.op = op /\ m.call = work[w].call
                            /\ SentFor(m) /\ MsgOK(m)
    BY <2>1, CreateWrite DEF Ops
  <2>3. PICK after : after = [ok |-> ok, missing |-> Idle, lost |-> Idle]
    OBVIOUS
  <2>4. Send(w, m, after)
    BY <1>3, <2>2, <2>3
  <2>5. PICK k \in Locals : k = after[Answer(m)] /\ (k = Idle \/ (k = ok /\ Answer(m) = "ok"))
    <3>1. Answer(m) \in {"ok", "missing"}
      BY <2>2 DEF Answer
    <3> QED
      BY <2>3, <3>1, IdleFollows
  <2>6. ASSUME k = ok, Answer(m) = "ok", Calm(k), Commit(m), Kept(k.call) PROVE Settled(k)'
    <3>1. Settled(l) /\ k.call = l.call
      BY <1>2, <1>3, <2>6, WasSettled
    <3>2. Effect(m)
      BY <2>6 DEF Commit
    <3> QED
      BY <1>2, <1>3, <2>2, <2>6, <3>1, <3>2
  <2>7. Follows(w, k) /\ (Calm(k) /\ Commit(m) /\ Kept(k.call) /\ RootKept => Settled(k)')
    BY <1>3, <2>5, <2>6, IdleFollows
  <2>8. PICK n \in Locals : n = after["lost"] /\ Follows(w, n) /\ ~Calm(n)
    BY <2>3, IdleFollows
  <2> QED
    BY <1>1, <2>1, <2>2, <2>4, <2>5, <2>7, <2>8, SendConfig
<1>4. CASE Is(w, "cVersion")
           /\ Send(w, Write(w, "version"), [ok |-> AfterVersion(w), missing |-> Idle, lost |-> Idle])
  <2>1. l.pc = "cVersion"
    BY <1>2, <1>4 DEF Is
  <2>2. PICK ok \in Locals : ok = AfterVersion(w) /\ Unversioned(l, ok)
    BY <1>2, AfterShape
  <2>3. Follows(w, ok)
    BY <1>2, <2>1, <2>2, ConfiguresFollows DEF LatePoints
  <2>4. ASSUME NEW m \in Writes, m.op = "version", m.call = l.call, Effect(m), Settled(l), Kept(l.call)
        PROVE  Settled(ok)'
    <3>1. bucket' = [bucket EXCEPT !.versioning = m.call.class.versioning]
      BY <2>4 DEF Effect
    <3>2. bucket'.versioning = l.call.class.versioning
      BY <2>4, <3>1 DEF Base, CoreTypes, Buckets
    <3>3. VersionDone(l.call)'
      BY <3>2 DEF VersionDone
    <3>4. /\ Registered' /\ bucket'.path = Want /\ l.cur.path = Want /\ bucket'.policy # "open"
          /\ (l.cur.lock => LockDone(l.call)')
      BY <2>1, <2>4 DEF Settled, Kept, LatePoints, Registered
    <3> QED
      BY <2>2, <3>3, <3>4, UnversionedSettled
  <2> QED
    BY <1>3, <1>4, <2>1, <2>2, <2>3, <2>4
<1>5. CASE Is(w, "cLock")
           /\ Send(w, Write(w, "lock"), [ok |-> AfterLock(w), missing |-> Idle, lost |-> Idle])
  <2>1. l.pc = "cLock"
    BY <1>2, <1>5 DEF Is
  <2>2. PICK ok \in Locals : ok = AfterLock(w) /\ Unlocked(l, ok)
    BY <1>2, AfterShape
  <2>3. Follows(w, ok)
    BY <1>2, <2>1, <2>2, ConfiguresFollows DEF LatePoints
  <2>4. ASSUME NEW m \in Writes, m.op = "lock", m.call = l.call, Effect(m), Settled(l), Kept(l.call)
        PROVE  Settled(ok)'
    <3>1. bucket' = [bucket EXCEPT !.lock = TRUE]
      BY <2>4 DEF Effect
    <3>2. bucket'.lock
      BY <3>1 DEF Base, CoreTypes, Buckets
    <3>3. LockDone(l.call)'
      BY <3>2 DEF LockDone
    <3>4. /\ Registered' /\ bucket'.path = Want /\ l.cur.path = Want /\ bucket'.policy # "open"
          /\ VersionDone(l.call)'
      BY <2>1, <2>4 DEF Settled, Kept, LatePoints, Registered
    <3> QED
      BY <2>2, <3>3, <3>4, UnlockedSettled
  <2> QED
    BY <1>3, <1>5, <2>1, <2>2, <2>3, <2>4
<1> QED
  BY <1>4, <1>5 DEF PatchBucket

\* A create at a point of applyQuota has settled the bucket's own properties.
LEMMA QuotaFollows ==
    ASSUME Base, Config, NEW w \in Workers, work[w].pc \in QuotaPoints,
           NEW k \in Locals, k.pc \in {"cQuota", "cQuotaGet", "cQuotaPut"}, k.call = work[w].call,
           k.cur = work[w].cur, (k.calm => work[w].calm),
           Settled(work[w]) => At(Want) \in {0, k.id}
    PROVE  Follows(w, k) /\ (Calm(k) => Settled(k))
<1>1. Follows(w, k)
  BY CreateFollows DEF LatePoints, QuotaPoints
<1>2. Calm(k) => Settled(k)
  <2> SUFFICES ASSUME Calm(k) PROVE Settled(k)
    OBVIOUS
  <2>1. Settled(work[w])
    BY <1>1, WasSettled
  <2>2. k.pc \in QuotaPoints /\ k.pc \in LatePoints /\ k.pc \notin EarlyPoints
    BY DEF QuotaPoints, LatePoints, EarlyPoints
  <2>3. /\ Registered /\ bucket.path = Want /\ k.cur.path = Want /\ bucket.policy # "open"
        /\ VersionDone(k.call) /\ LockDone(k.call)
    BY <2>1 DEF Settled, LatePoints
  <2> QED
    BY <2>1, <2>2, <2>3 DEF Settled
<1> QED
  BY <1>1, <1>2

\* applyQuota finds the directory.
LEMMA QuotaRootConfig == ASSUME Base, Base', Config, NEW w \in Workers, QuotaRoot(w) PROVE Config'
<1>1. work[w].pc = "cQuotaRoot"
      /\ Move(w, IF At(work[w].cur.path) = 0 THEN Idle
                 ELSE [Go(w, "cQuota") EXCEPT !.id = At(work[w].cur.path)])
  BY DEF QuotaRoot, Is
<1>2. CASE At(work[w].cur.path) = 0
  BY <1>1, <1>2, IdleFollows, MoveConfig
<1>3. CASE At(work[w].cur.path) # 0
  <2>1. PICK id \in Nat : id = At(work[w].cur.path)
    BY AtTypesNext, WorkIs DEF Base, AtTypes, Locals
  <2>2. PICK l \in Locals : /\ l = Go(w, "cQuota") /\ l.pc = "cQuota" /\ l.call = work[w].call
                            /\ l.cur = work[w].cur /\ (l.calm => work[w].calm)
    BY GoCalm DEF Points, CreatePoints
  <2>3. PICK k : k = [l EXCEPT !.id = id]
    OBVIOUS
  <2>4. /\ k \in Locals /\ k.pc = "cQuota" /\ k.call = work[w].call /\ k.id = id
        /\ k.cur = work[w].cur /\ (k.calm => work[w].calm)
    BY <2>2, <2>3 DEF Locals
  <2>5. Move(w, k)
    BY <1>1, <1>3, <2>1, <2>2, <2>3
  <2>6. Settled(work[w]) => At(Want) \in {0, k.id}
    BY <1>1, <2>1, <2>4 DEF Settled, LatePoints, QuotaPoints
  <2>7. Follows(w, k) /\ (Calm(k) => Settled(k))
    BY <1>1, <2>4, <2>6, QuotaFollows DEF QuotaPoints
  <2> QED
    BY <2>4, <2>5, <2>7, MoveConfig
<1> QED
  BY <1>2, <1>3

\* A create whose quota is there, on the directory that it looked up.
LEMMA HasQuotaFollows ==
    ASSUME Base, Config, NEW w \in Workers, work[w].pc \in {"cQuota", "cQuotaGet", "cQuotaPut"}
    PROVE  \E k \in Locals : /\ k = HasQuota(w) /\ k.pc = "cRoot" /\ k.call = work[w].call
                             /\ k.cur = work[w].cur /\ Follows(w, k)
<1>1. PICK l \in Locals : /\ l = Go(w, "cRoot") /\ l.pc = "cRoot" /\ l.call = work[w].call
                          /\ l.cur = work[w].cur /\ (l.calm => work[w].calm)
  BY GoCalm DEF Points, CreatePoints
<1>2. PICK k : k = [l EXCEPT !.id = 0, !.etag = 0]
  OBVIOUS
<1>3. k \in Locals /\ k.pc = l.pc /\ k.call = l.call /\ k.cur = l.cur /\ (k.calm => l.calm)
  BY <1>2 DEF Locals
<1>4. k = HasQuota(w)
  BY <1>1, <1>2 DEF HasQuota
<1>5. Follows(w, k)
  BY <1>1, <1>3, CreateFollows DEF LatePoints, QuotaPoints
<1> QED
  BY <1>1, <1>3, <1>4, <1>5

\* All is settled then.
LEMMA HasQuotaSettled ==
    ASSUME Base, Base', NEW l \in Locals, Settled(l), l.pc \in {"cQuota", "cQuotaGet", "cQuotaPut"},
           NEW k \in Locals, k.pc = "cRoot", k.call = l.call, k.cur = l.cur,
           Kept(l.call), RootKept, QuotaDone(l.call, l.id)'
    PROVE  Settled(k)'
<1>1. At(Want) \in Nat /\ At(Want)' \in Nat
  BY AtTypesNext, BucketAssumption DEF Base, AtTypes
<1>2. l.pc \in LatePoints /\ l.pc \in QuotaPoints
  BY DEF LatePoints, QuotaPoints
<1>3. /\ Registered /\ Registered' /\ bucket'.path = Want /\ k.cur.path = Want
      /\ bucket'.policy # "open" /\ VersionDone(k.call)' /\ LockDone(k.call)'
  BY <1>2 DEF Settled, Kept, Registered
<1>4. At(Want)' \in {0, l.id}
  BY <1>1, <1>3 DEF Settled, RootKept
<1>5. (At(Want) = 0 \/ QuotaDone(k.call, At(Want)))'
  <2> SUFFICES ASSUME At(Want)' # 0 PROVE QuotaDone(k.call, At(Want))'
    OBVIOUS
  <2>1. At(Want)' = l.id
    BY <1>4
  <2> QED
    BY <2>1 DEF QuotaDone
<1>6. k.pc \notin EarlyPoints /\ k.pc \notin QuotaPoints
  BY DEF EarlyPoints, QuotaPoints
<1> QED
  BY <1>3, <1>5, <1>6 DEF Settled

\* A write to a quota and the handler's step on its answer.
LEMMA QuotaWriteConfig ==
    ASSUME Base, Base', Config, NEW w \in Workers, work[w].pc \in {"cQuota", "cQuotaPut"},
           NEW op \in {"quota", "limit"}, UNCHANGED hist,
           NEW get \in Locals, Follows(w, get), Calm(get) => Settled(get),
           NEW after, Send(w, Write(w, op), after),
           NEW ok \in Locals, ok = HasQuota(w), ok = after["ok"],
           NEW n \in Locals, n = after["lost"], n = get \/ n = Idle,
           \A a \in {"exists", "missing", "stale"} :
             a # (IF op = "quota" THEN "stale" ELSE "exists") => after[a] \in {get, Idle}
    PROVE  Config'
<1>1. work[w].pc \in EarlyPoints \cup LatePoints /\ work[w].pc # "idle"
  BY DEF LatePoints, QuotaPoints
<1>2. PICK m \in Writes : /\ m = Write(w, op) /\ m.op = op /\ m.call = work[w].call
                          /\ m.id = work[w].id /\ SentFor(m) /\ MsgOK(m)
  BY <1>1, CreateWrite DEF Ops
<1>3. PICK l \in Locals : l = work[w]
  BY DEF Base
<1>4. /\ ok.pc = "cRoot" /\ ok.call = l.call /\ ok.cur = l.cur /\ Follows(w, ok)
  BY <1>3, HasQuotaFollows
<1>5. PICK k \in Locals : /\ k = after[Answer(m)]
                          /\ k = get \/ k = Idle \/ (k = ok /\ Answer(m) = "ok")
  <2>1. /\ Answer(m) \in {"ok", "exists", "missing", "stale"}
        /\ op = "quota" => Answer(m) # "stale"
        /\ op = "limit" => Answer(m) # "exists"
    BY <1>2, QuotaWrite
  <2> QED
    BY <2>1, IdleFollows
<1>6. ASSUME k = ok, Answer(m) = "ok", Calm(k), Commit(m), Kept(k.call), RootKept PROVE Settled(k)'
  <2>1. Settled(l) /\ l.call \in Calls
    BY <1>3, <1>4, <1>6, WasSettled
  <2>2. QuotaDone(l.call, l.id)'
    <3>1. Effect(m) /\ m.op \in {"quota", "limit"} /\ m.id = l.id /\ m.call.class = l.call.class
      BY <1>2, <1>3, <1>6 DEF Commit
    <3>2. QuotaDone(l.call, m.id)'
      BY <2>1, <3>1, QuotaWritten
    <3> QED
      BY <3>1, <3>2 DEF QuotaDone
  <2>3. l.pc \in {"cQuota", "cQuotaGet", "cQuotaPut"}
    BY <1>3
  <2> QED
    BY <1>4, <1>6, <2>1, <2>2, <2>3, HasQuotaSettled
<1>7. Calm(k) /\ Commit(m) /\ Kept(k.call) /\ RootKept => Settled(k)'
  BY <1>5, <1>6, IdleFollows, SettledStays
<1>8. Follows(w, k)
  BY <1>4, <1>5, IdleFollows
<1>9. Follows(w, n) /\ (Calm(n) => Settled(n))
  BY IdleFollows
<1>10. Send(w, m, after)
  BY <1>2
<1> QED
  BY <1>1, <1>2, <1>5, <1>7, <1>8, <1>9, <1>10, SendConfig

\* The POST of the quota.
LEMMA CreateQuotaConfig == ASSUME Base, Base', Config, NEW w \in Workers, CreateQuota(w) PROVE Config'
<1>1. work[w].pc = "cQuota" /\ work[w].pc \in QuotaPoints /\ UNCHANGED hist
  BY DEF CreateQuota, Is, QuotaPoints
<1>2. PICK ok \in Locals : ok = HasQuota(w)
  BY <1>1, HasQuotaFollows
<1>3. PICK get \in Locals : get = Go(w, "cQuotaGet") /\ Follows(w, get) /\ (Calm(get) => Settled(get))
  <2>1. PICK get \in Locals : /\ get = Go(w, "cQuotaGet") /\ get.pc = "cQuotaGet"
                              /\ get.call = work[w].call /\ get.cur = work[w].cur
                              /\ get.id = work[w].id /\ (get.calm => work[w].calm)
    BY GoCalm DEF Points, CreatePoints
  <2>2. Settled(work[w]) => At(Want) \in {0, get.id}
    BY <1>1, <2>1 DEF Settled
  <2> QED
    BY <1>1, <2>1, <2>2, QuotaFollows
<1>4. PICK after : after = [ok |-> ok, exists |-> get, missing |-> Idle, lost |-> get]
  OBVIOUS
<1>5. Send(w, Write(w, "quota"), after)
  BY <1>2, <1>3, <1>4 DEF CreateQuota
<1>6. /\ after["ok"] = ok /\ after["lost"] = get /\ after["exists"] = get /\ after["missing"] = Idle
  BY <1>4
<1> QED
  BY <1>1, <1>2, <1>3, <1>5, <1>6, QuotaWriteConfig

\* The PUT of the quota's limit.
LEMMA UpdateQuotaConfig == ASSUME Base, Base', Config, NEW w \in Workers, UpdateQuota(w) PROVE Config'
<1>1. work[w].pc = "cQuotaPut" /\ UNCHANGED hist
  BY DEF UpdateQuota, Is
<1>2. PICK ok \in Locals : ok = HasQuota(w)
  BY <1>1, HasQuotaFollows
<1>3. PICK none \in Locals : none = Idle /\ Follows(w, none) /\ ~Calm(none)
  BY IdleFollows
<1>4. PICK after : after = [ok |-> ok, stale |-> none, missing |-> none, lost |-> none]
  OBVIOUS
<1>5. Send(w, Write(w, "limit"), after)
  BY <1>2, <1>3, <1>4 DEF UpdateQuota
<1>6. /\ after["ok"] = ok /\ after["lost"] = none /\ after["stale"] = none /\ after["missing"] = none
  BY <1>4
<1> QED
  BY <1>1, <1>2, <1>3, <1>5, <1>6, QuotaWriteConfig

\* The quota is read back: it is the one asked for, or is updated.
LEMMA GetQuotaConfig == ASSUME Base, Base', Config, NEW w \in Workers, GetQuota(w) PROVE Config'
<1>1. /\ work[w].pc = "cQuotaGet"
      /\ Move(w, IF QuotaOf(work[w].id) = {} THEN Idle
                 ELSE LET q == CHOOSE q \in QuotaOf(work[w].id) : TRUE
                      IN  IF q.limit = Class(w).quota THEN HasQuota(w)
                          ELSE [Go(w, "cQuotaPut") EXCEPT !.etag = q.etag])
  BY DEF GetQuota, Is
<1>2. CASE QuotaOf(work[w].id) = {}
  BY <1>1, <1>2, IdleFollows, MoveConfig
<1>3. CASE QuotaOf(work[w].id) # {}
  <2>1. PICK q : q = (CHOOSE r \in QuotaOf(work[w].id) : TRUE)
    OBVIOUS
  <2>2. q \in QuotaOf(work[w].id)
    BY <1>3, <2>1
  <2>3. q.etag \in Nat
    BY <2>2 DEF QuotaOf, Base, CoreTypes
  <2>4. CASE q.limit = Class(w).quota
    <3>1. PICK l \in Locals : l = work[w]
      BY DEF Base
    <3>2. PICK k \in Locals : /\ k = HasQuota(w) /\ k.pc = "cRoot" /\ k.call = l.call
                              /\ k.cur = l.cur /\ Follows(w, k)
      BY <1>1, <3>1, HasQuotaFollows
    <3>3. Move(w, k)
      BY <1>1, <1>3, <2>1, <2>4, <3>2
    <3>4. ASSUME Calm(k) PROVE Settled(k)'
      <4>1. Settled(l) /\ l.call \in Calls
        BY <3>1, <3>2, <3>4, WasSettled
      <4>2. bucket' = bucket /\ files' = files /\ quotas' = quotas
        BY <3>3 DEF Move, core
      <4>3. Kept(l.call) /\ RootKept
        BY <4>1, <4>2, QuietKeeps DEF RootKept, At
      <4>4. QuotaDone(l.call, l.id)'
        BY <2>2, <2>4, <3>1, <4>2 DEF QuotaDone, QuotaOf, Class
      <4> QED
        BY <1>1, <3>1, <3>2, <4>1, <4>3, <4>4, HasQuotaSettled
    <3> QED
      BY <3>2, <3>3, <3>4, MoveConfig
  <2>5. CASE q.limit # Class(w).quota
    <3>1. PICK l \in Locals : /\ l = Go(w, "cQuotaPut") /\ l.pc = "cQuotaPut"
                              /\ l.call = work[w].call /\ l.cur = work[w].cur
                              /\ l.id = work[w].id /\ (l.calm => work[w].calm)
      BY GoCalm DEF Points, CreatePoints
    <3>2. PICK k : k = [l EXCEPT !.etag = q.etag]
      OBVIOUS
    <3>3. /\ k \in Locals /\ k.pc = l.pc /\ k.call = l.call /\ k.id = l.id /\ k.cur = l.cur
          /\ (k.calm => l.calm)
      BY <2>3, <3>2 DEF Locals
    <3>4. Move(w, k)
      BY <1>1, <1>3, <2>1, <2>5, <3>1, <3>2
    <3>5. Settled(work[w]) => At(Want) \in {0, k.id}
      BY <1>1, <3>1, <3>3 DEF Settled
    <3>6. Follows(w, k) /\ (Calm(k) => Settled(k))
      BY <1>1, <3>1, <3>3, <3>5, QuotaFollows DEF QuotaPoints
    <3> QED
      BY <3>3, <3>4, <3>6, MoveConfig
  <2> QED
    BY <2>4, <2>5
<1> QED
  BY <1>2, <1>3

\* A handle is returned.  A calm create has settled all that its class asks for.
LEMMA ReturnsConfig ==
    ASSUME Base, Base', Config, NEW w \in Workers, NEW managed \in BOOLEAN, Returns(w, managed),
           At(work[w].cur.path) # 0, managed => work[w].pc = "cRoot"
    PROVE  Config'
<1>1. /\ work' = [work EXCEPT ![w] = Idle] /\ UNCHANGED core /\ late' = late
      /\ bucket' = bucket /\ files' = files /\ quotas' = quotas
  BY DEF Returns, core
<1>2. KeptByAll
  BY <1>1, StillKept
<1>3. PICK l \in Locals : l = work[w]
  BY DEF Base
<1>4. PICK new : new = [call |-> [l.call EXCEPT !.known = {}], reg |-> bucket.reg, id |-> At(l.cur.path)]
  OBVIOUS
<1>5. \A r \in hist'.ready : r \in hist.ready \/ (r = new /\ managed /\ l.calm)
  <2>1. PICK h : h = [path |-> l.cur.path, id |-> At(l.cur.path), managed |-> managed]
    OBVIOUS
  <2>2. PICK handles : handles = hist.handles \cup {h}
    OBVIOUS
  <2>4. PICK ready : ready = hist.ready \cup IF managed /\ l.calm THEN {new} ELSE {}
    OBVIOUS
  <2>5. h.id = At(l.cur.path)
    BY <2>1
  <2>6. hist' = [hist EXCEPT !.handles = handles, !.ready = ready]
    BY <1>3, <1>4, <2>1, <2>2, <2>4, <2>5 DEF Returns
  <2>7. hist'.ready = ready
    BY <2>6 DEF Base, CoreTypes
  <2> QED
    BY <2>4, <2>7
<1>6. ASSUME managed, l.calm PROVE ReadyOK(new)'
  <2>1. l.pc = "cRoot" /\ l.call.kind = "create" /\ Calm(l)
    BY <1>3, <1>6 DEF Config, PointFor, LatePoints, Calm
  <2>2. Agreed(l.call) /\ Settled(l) /\ l.call \in Calls
    BY <1>3, <2>1 DEF Config, CalmOK, Calm, Locals
  <2>3. new.call.kind = "create" /\ new.call.class = l.call.class /\ new.reg = bucket.reg
        /\ new.id = At(l.cur.path)
    BY <1>4, <2>1, <2>2 DEF Calls
  <2>4. Agreed(new.call)'
    <3>1. Agreed(new.call)
      BY <2>1, <2>2, <2>3 DEF Agreed, Agree
    <3>2. \A v \in Workers : work'[v].pc # "idle" => work[v].pc # "idle" /\ work'[v].call = work[v].call
      BY <1>1, IdleType DEF Base
    <3>3. \A m \in late' : m \in late
      BY <1>1
    <3> QED
      BY <3>1, <3>2, <3>3, AgreedStays
  <2>5. /\ Registered /\ bucket.policy # "open" /\ l.cur.path = Want
        /\ VersionDone(l.call) /\ LockDone(l.call) /\ QuotaDone(l.call, At(Want))
    BY <1>3, <2>1, <2>2 DEF Settled, LatePoints
  <2>6. VersionDone(new.call)' /\ LockDone(new.call)'
    BY <1>1, <2>3, <2>5 DEF VersionDone, LockDone
  <2>7. QuotaDone(new.call, new.id)'
    BY <1>1, <2>3, <2>5 DEF QuotaDone, QuotaOf
  <2> QED
    BY <1>1, <2>3, <2>4, <2>5, <2>6, <2>7 DEF ReadyOK, Registered
<1>7. \A r \in [call : Calls, reg : Nat, id : Nat] : r \in hist'.ready => r \in hist.ready \/ ReadyOK(r)'
  BY <1>5, <1>6
<1>8. PICK k \in Locals : k = Idle /\ Follows(w, k) /\ ~Calm(k)
  BY IdleFollows
<1> QED
  BY <1>1, <1>2, <1>7, <1>8, OneMoves

\* The identity of the root is looked up.
LEMMA RootFoundConfig ==
    ASSUME Base, Base', Config, NEW w \in Workers, CreateReturns(w) \/ ImportReturns(w)
    PROVE  Config'
<1>1. CASE At(work[w].cur.path) = 0
  BY <1>1, IdleFollows, MoveConfig DEF CreateReturns, ImportReturns, RootFound
<1>2. CASE At(work[w].cur.path) # 0
  <2>1. CASE CreateReturns(w)
    BY <1>2, <2>1, ReturnsConfig DEF CreateReturns, RootFound, Is
  <2>2. CASE ImportReturns(w)
    BY <1>2, <2>2, ReturnsConfig DEF ImportReturns, RootFound
  <2> QED
    BY <2>1, <2>2
<1> QED
  BY <1>1, <1>2

\* The GetBucket of an import.
LEMMA ImportGetConfig == ASSUME Base, Base', Config, NEW w \in Workers, ImportGet(w) PROVE Config'
<1>1. /\ work[w].pc = "iGet"
      /\ Move(w, IF Registered THEN [Go(w, "iRoot") EXCEPT !.cur = Rest(bucket)] ELSE Idle)
  BY DEF ImportGet, Is
<1>2. CASE ~Registered
  BY <1>1, <1>2, IdleFollows, MoveConfig
<1>3. CASE Registered
  <2>1. PICK cur \in [path : Paths, versioning : Versionings, lock : BOOLEAN] : cur = Rest(bucket)
    BY FactsType
  <2>2. PICK l \in Locals : /\ l = Go(w, "iRoot") /\ l.pc = "iRoot" /\ l.call = work[w].call
                            /\ (l.calm => work[w].calm)
    BY GoCalm DEF Points, CreatePoints
  <2>3. PICK k : k = [l EXCEPT !.cur = cur]
    OBVIOUS
  <2>4. k \in Locals /\ k.pc = "iRoot" /\ k.call = work[w].call /\ (k.calm => work[w].calm)
    BY <2>1, <2>2, <2>3 DEF Locals
  <2>5. Move(w, k)
    BY <1>1, <1>3, <2>1, <2>2, <2>3
  <2>6. k.call.kind = "import" /\ work[w].pc # "idle"
    BY <1>1, <2>4 DEF Config, PointFor
  <2>7. PointFor(k)
    BY <2>4, <2>6 DEF PointFor, EarlyPoints, LatePoints, QuotaPoints, DeletePoints
  <2>8. Follows(w, k) /\ ~Calm(k)
    BY <2>4, <2>6, <2>7 DEF Follows, Calm
  <2> QED
    BY <2>4, <2>5, <2>8, MoveConfig
<1> QED
  BY <1>2, <1>3

\* A delete goes on to another of its points.
LEMMA DeleteGoes ==
    ASSUME Base, Config, NEW w \in Workers, work[w].pc \in DeletePoints, NEW p \in DeletePoints,
           NEW k, NEW n, k \in {Go(w, p), [Go(w, p) EXCEPT !.id = n], [Go(w, p) EXCEPT !.try = n]}
    PROVE  Follows(w, k) /\ ~Calm(k)
<1>1. PICK l \in Locals : /\ l = Go(w, p) /\ l.pc = p /\ l.call = work[w].call
                          /\ (l.calm => work[w].calm)
  BY GoCalm DEF Points
<1>2. k.pc = l.pc /\ k.call = l.call /\ (k.calm => l.calm)
  BY <1>1 DEF Locals
<1>3. work[w].call.kind = "delete" /\ work[w].pc # "idle"
  BY DEF Config, PointFor, DeletePoints
<1>4. PointFor(k)
  BY <1>1, <1>2, <1>3 DEF PointFor, EarlyPoints, LatePoints, QuotaPoints, DeletePoints
<1> QED
  BY <1>1, <1>2, <1>3, <1>4 DEF Follows, Calm

\* A step that only moves a delete on.
LEMMA DeleteMoves ==
    ASSUME Base, Base', Config, NEW w \in Workers, NEW k, Move(w, k), Follows(w, k), ~Calm(k)
    PROVE  Config'
<1>1. work'[w] = k
  BY DEF Move, Base
<1>2. PICK l \in Locals : l = k
  BY <1>1 DEF Base
<1> QED
  BY <1>2, MoveConfig

\* The same of the point that a tree-delete job decides, and of the DELETE.
LEMMA DeletePoint ==
    ASSUME Base, Config, NEW w \in Workers, work[w].pc \in DeletePoints
    PROVE  /\ \A n : Follows(w, [Unregister(w) EXCEPT !.id = n]) /\ ~Calm([Unregister(w) EXCEPT !.id = n])
           /\ Follows(w, Unregister(w)) /\ ~Calm(Unregister(w))
           /\ Follows(w, Unregistered(w)) /\ ~Calm(Unregistered(w))
           /\ \A none : Follows(w, none) /\ ~Calm(none) =>
                Follows(w, JobSeen(w, none)) /\ ~Calm(JobSeen(w, none))
<1>1. "dAbort" \in DeletePoints /\ "dDrop" \in DeletePoints /\ "dDone" \in DeletePoints
      /\ "dJob" \in DeletePoints /\ "dWait" \in DeletePoints
  BY DEF DeletePoints
<1>2. ASSUME NEW p \in DeletePoints
      PROVE  /\ \A n : Follows(w, [Go(w, p) EXCEPT !.id = n]) /\ ~Calm([Go(w, p) EXCEPT !.id = n])
             /\ Follows(w, Go(w, p)) /\ ~Calm(Go(w, p))
  BY DeleteGoes
<1>3. \E p \in DeletePoints : Unregister(w) = Go(w, p)
  BY <1>1 DEF Unregister
<1>4. \E p \in DeletePoints : Unregistered(w) = Go(w, p)
  BY <1>1 DEF Unregistered
<1>5. ASSUME NEW none, Follows(w, none), ~Calm(none)
      PROVE  Follows(w, JobSeen(w, none)) /\ ~Calm(JobSeen(w, none))
  <2>1. JobSeen(w, none) \in {none, Idle, Go(w, "dWait")}
    BY DEF JobSeen
  <2> QED
    BY <1>1, <1>2, <1>5, <2>1, IdleFollows
<1> QED
  BY <1>2, <1>3, <1>4, <1>5

\* A delete that reads Core.
LEMMA DeleteReadsConfig ==
    ASSUME Base, Base', Config, NEW w \in Workers,
           DeleteGet(w) \/ DeleteResume(w) \/ DeleteRoot(w) \/ LookForJob(w) \/ WaitForTreeDelete(w)
    PROVE  Config'
<1>1. work[w].pc \in DeletePoints
  BY DEF DeleteGet, DeleteResume, DeleteRoot, LookForJob, WaitForTreeDelete, Is, DeletePoints
<1>2. ASSUME NEW p \in DeletePoints, NEW n
      PROVE  /\ Follows(w, Go(w, p)) /\ ~Calm(Go(w, p))
             /\ Follows(w, [Go(w, p) EXCEPT !.id = n]) /\ ~Calm([Go(w, p) EXCEPT !.id = n])
  BY <1>1, DeleteGoes
<1>3. /\ "dResume" \in DeletePoints /\ "dDone" \in DeletePoints /\ "dDrop" \in DeletePoints
      /\ "dRoot" \in DeletePoints /\ "dJob" \in DeletePoints /\ "dTree" \in DeletePoints
  BY DEF DeletePoints
<1>4. CASE DeleteGet(w)
  <2>1. \E k : Move(w, k) /\ (k = Idle \/ \E p \in DeletePoints : k = Go(w, p))
    BY <1>3, <1>4 DEF DeleteGet
  <2> QED
    BY <1>2, <2>1, IdleFollows, DeleteMoves
<1>5. CASE DeleteResume(w)
  <2>1. \E k : /\ Move(w, k)
               /\ \/ k = Idle
                  \/ k = Go(w, "dDone")
                  \/ \E n : k = [Go(w, "dJob") EXCEPT !.id = n]
    BY <1>5 DEF DeleteResume
  <2> QED
    BY <1>2, <1>3, <2>1, IdleFollows, DeleteMoves
<1>6. CASE DeleteRoot(w)
  <2>1. \E k : /\ Move(w, k)
               /\ \/ k = Idle
                  \/ k = Unregister(w)
                  \/ \E n : k = [Unregister(w) EXCEPT !.id = n]
    BY <1>6 DEF DeleteRoot
  <2> QED
    BY <1>1, <2>1, IdleFollows, DeletePoint, DeleteMoves
<1>7. CASE LookForJob(w) \/ WaitForTreeDelete(w)
  <2>1. \E none : /\ Move(w, JobSeen(w, none))
                  /\ none = Idle \/ \E p \in DeletePoints : none = Go(w, p)
    BY <1>3, <1>7 DEF LookForJob, WaitForTreeDelete
  <2> QED
    BY <1>1, <1>2, <2>1, IdleFollows, DeletePoint, DeleteMoves
<1> QED
  BY <1>4, <1>5, <1>6, <1>7

\* A write of a delete, and the handler's step on its answer.
LEMMA DeleteWrites ==
    ASSUME Base, Base', Config, NEW w \in Workers, work[w].pc \in DeletePoints,
           NEW m \in Writes, m.op \in {"abort", "drop", "tree"}, MsgOK(m), m.call = work[w].call,
           NEW after, Send(w, m, after), UNCHANGED hist,
           \A a \in {Answer(m), "lost"} : after[a] \in Locals /\ Follows(w, after[a]) /\ ~Calm(after[a])
    PROVE  Config'
<1>1. work[w].call.kind = "delete" /\ work[w].pc # "idle"
  BY DEF Config, PointFor, DeletePoints
<1>2. SentFor(m)
  BY <1>1 DEF SentFor
<1>3. PICK l \in Locals : l = after["lost"] /\ Follows(w, l) /\ ~Calm(l)
  OBVIOUS
<1>4. PICK k \in Locals : k = after[Answer(m)] /\ Follows(w, k) /\ ~Calm(k)
  OBVIOUS
<1> QED
  BY <1>1, <1>2, <1>3, <1>4, SendConfig

\* The writes of a delete: AbortAllUploads, the DELETE, the POST of the job.
LEMMA DeleteWritesConfig ==
    ASSUME Base, Base', Config, NEW w \in Workers, AbortUploads(w) \/ DropBucket(w) \/ TreeDelete(w)
    PROVE  Config'
<1>1. /\ UNCHANGED hist /\ work[w].pc \in DeletePoints
      /\ DropBucket(w) => work[w].pc = "dDrop"
      /\ TreeDelete(w) => work[w].pc = "dTree"
  BY DEF AbortUploads, DropBucket, TreeDelete, Is, DeletePoints
<1>2. ASSUME NEW p \in DeletePoints, NEW n
      PROVE  /\ Go(w, p) \in Locals /\ Follows(w, Go(w, p)) /\ ~Calm(Go(w, p))
             /\ Follows(w, [Go(w, p) EXCEPT !.try = n]) /\ ~Calm([Go(w, p) EXCEPT !.try = n])
  <2>1. Go(w, p) \in Locals
    BY GoDelete
  <2>2. Follows(w, Go(w, p)) /\ ~Calm(Go(w, p))
    BY <1>1, DeleteGoes
  <2>3. PICK again : again = [Go(w, p) EXCEPT !.try = n]
    OBVIOUS
  <2>4. Follows(w, again) /\ ~Calm(again)
    BY <1>1, <2>3, DeleteGoes
  <2> QED
    BY <2>1, <2>2, <2>3, <2>4
<1>3. /\ "dAbort" \in DeletePoints /\ "dDrop" \in DeletePoints /\ "dDone" \in DeletePoints
      /\ "dJob" \in DeletePoints /\ "dWait" \in DeletePoints /\ "dRejob" \in DeletePoints
      /\ "abort" \in Ops /\ "drop" \in Ops /\ "tree" \in Ops
  BY DEF DeletePoints, Ops
<1>4. PICK drop \in Locals : drop = Go(w, "dDrop") /\ Follows(w, drop) /\ ~Calm(drop)
  BY <1>2, <1>3
<1>5. PICK none \in Locals : none = Idle /\ Follows(w, none) /\ ~Calm(none)
  BY IdleFollows
<1>6. CASE AbortUploads(w)
  <2>1. PICK m : m = Write(w, "abort")
    OBVIOUS
  <2>2. m \in Writes /\ m.op = "abort" /\ m.call = work[w].call /\ MsgOK(m)
    <3>1. m \in Writes /\ m.op = "abort" /\ m.call = work[w].call /\ m.id = work[w].id
      BY <1>3, <2>1, PlainWriteIs
    <3> QED
      BY <3>1, FreeWrite
  <2>3. PICK lost \in {drop, none} : lost = IF work[w].try = 1 THEN Go(w, "dDrop") ELSE Idle
    BY <1>4, <1>5
  <2>4. PICK after : after = [ok |-> drop, lost |-> lost]
    OBVIOUS
  <2>5. Send(w, m, after)
    BY <1>4, <1>6, <2>1, <2>3, <2>4 DEF AbortUploads
  <2>6. Answer(m) = "ok"
    BY <2>2 DEF Answer
  <2>7. \A a \in {Answer(m), "lost"} : after[a] \in {drop, none}
    BY <2>4, <2>6
  <2> QED
    BY <1>1, <1>4, <1>5, <2>2, <2>5, <2>7, DeleteWrites
<1>7. CASE DropBucket(w)
  <2>1. PICK flag : flag = (Ctx(w) = "root")
    OBVIOUS
  <2>2. PICK m : m = [Write(w, "drop") EXCEPT !.flag = flag]
    OBVIOUS
  <2>3. m \in Writes /\ m.op = "drop" /\ m.call = work[w].call /\ m.id = work[w].id
    <3>1. flag \in BOOLEAN
      BY <2>1, Zenon
    <3>2. PICK n : n = Write(w, "drop")
      OBVIOUS
    <3>3. n \in Writes /\ n.op = "drop" /\ n.call = work[w].call /\ n.id = work[w].id
      BY <1>3, <3>2, PlainWriteIs
    <3>4. m = [n EXCEPT !.flag = flag]
      BY <2>2, <3>2
    <3> QED
      BY <3>1, <3>3, <3>4 DEF Writes
  <2>4. MsgOK(m)
    BY <1>1, <1>7, <2>3, WorkIs DEF MsgOK, DeleteOK
  <2>5. PICK gone \in Locals : gone = Unregistered(w) /\ Follows(w, gone) /\ ~Calm(gone)
    <3>1. Unregistered(w) \in Locals
      BY <1>2, <1>3 DEF Unregistered
    <3> QED
      BY <1>1, <3>1, DeletePoint
  <2>6. PICK full \in Locals : /\ full = IF work[w].try = 1 THEN [Go(w, "dAbort") EXCEPT !.try = 2]
                                         ELSE Idle
                               /\ Follows(w, full) /\ ~Calm(full)
    <3>1. CASE work[w].try = 1
      <4>1. PICK i \in Locals : i = Go(w, "dAbort")
        BY <1>2, <1>3
      <4>2. [i EXCEPT !.try = 2] \in Locals
        BY DEF Locals
      <4>3. [Go(w, "dAbort") EXCEPT !.try = 2] \in Locals
        BY <4>1, <4>2
      <4> QED
        BY <1>2, <1>3, <3>1, <4>3
    <3>2. CASE work[w].try # 1
      BY <3>2, IdleFollows
    <3> QED
      BY <3>1, <3>2
  <2>7. PICK after : after = [ok |-> gone, missing |-> gone, full |-> full, lost |-> none]
    OBVIOUS
  <2>8. Send(w, m, after)
    BY <1>5, <1>7, <2>1, <2>2, <2>5, <2>6, <2>7 DEF DropBucket
  <2>9. Answer(m) \in {"ok", "missing", "full"}
    BY <2>3 DEF Answer
  <2>10. \A a \in {Answer(m), "lost"} : after[a] \in {gone, full, none}
    BY <2>7, <2>9
  <2> QED
    BY <1>1, <1>5, <2>3, <2>4, <2>5, <2>6, <2>8, <2>10, DeleteWrites
<1>8. CASE TreeDelete(w)
  <2>1. PICK m : m = Write(w, "tree")
    OBVIOUS
  <2>2. m \in Writes /\ m.op = "tree" /\ m.call = work[w].call /\ m.id = work[w].id
    BY <1>3, <2>1, PlainWriteIs
  <2>3. MsgOK(m)
    BY <1>1, <1>8, <2>2, NamedIs, WorkIs DEF MsgOK, DeleteOK, Named, Ctx
  <2>4. PICK wait \in Locals : wait = Go(w, "dWait") /\ Follows(w, wait) /\ ~Calm(wait)
    BY <1>2, <1>3
  <2>5. PICK done \in Locals : done = Go(w, "dDone") /\ Follows(w, done) /\ ~Calm(done)
    BY <1>2, <1>3
  <2>6. PICK again \in Locals : again = Go(w, "dRejob") /\ Follows(w, again) /\ ~Calm(again)
    BY <1>2, <1>3
  <2>7. PICK after : after = [ok |-> wait, exists |-> wait, missing |-> done, lost |-> again]
    OBVIOUS
  <2>8. Send(w, m, after)
    BY <1>8, <2>1, <2>4, <2>5, <2>6, <2>7 DEF TreeDelete
  <2>9. Answer(m) \in {"ok", "exists", "missing"}
    BY <2>2 DEF Answer
  <2>10. \A a \in {Answer(m), "lost"} : after[a] \in {wait, done, again}
    BY <2>7, <2>9
  <2> QED
    BY <1>1, <2>2, <2>3, <2>4, <2>5, <2>6, <2>8, <2>10, DeleteWrites
<1> QED
  BY <1>6, <1>7, <1>8

\* A delete returns, or a handler gives up: its worker has no call any more.
LEMMA EndConfig ==
    ASSUME Base, Base', Config, NEW w \in Workers, DeleteReturns(w) \/ Abandon(w)
    PROVE  Config'
<1>1. work' = [work EXCEPT ![w] = Idle] /\ UNCHANGED core /\ late' = late /\ hist'.ready = hist.ready
  <2>1. work' = [work EXCEPT ![w] = Idle] /\ UNCHANGED core /\ late' = late
    BY DEF DeleteReturns, Abandon
  <2>2. hist'.ready = hist.ready
    BY DEF DeleteReturns, Abandon, Base, CoreTypes
  <2> QED
    BY <2>1, <2>2
<1>2. KeptByAll
  BY <1>1, StillKept
<1>3. PICK k \in Locals : k = Idle /\ Follows(w, k) /\ ~Calm(k)
  BY IdleFollows
<1> QED
  BY <1>1, <1>2, <1>3, OneMoves

\* At first no call is under way.
LEMMA InitConfig == Init => Config
BY IdleType DEF Init, Config, PointFor, CalmOK, EarlyPoints, LatePoints, QuotaPoints, DeletePoints

\* Nothing changes.
LEMMA StutterConfig == ASSUME Base, Base', Config, UNCHANGED vars PROVE Config'
<1>1. UNCHANGED <<core, late, work, hist>>
  BY DEF vars
<1>2. KeptByAll
  BY <1>1, StillKept
<1> QED
  BY <1>1, <1>2, OutsideConfig

\* Every step keeps the configuration in order.
LEMMA NextConfig == Base /\ Base' /\ Config /\ [Next]_vars => Config'
<1> SUFFICES ASSUME Base, Base', Config, [Next]_vars PROVE Config'
  OBVIOUS
<1>1. ASSUME NEW w \in Workers, Create(w) PROVE Config'
  <2>1. CASE StartCreate(w)
    BY <2>1, StartCreateConfig
  <2>2. CASE CreateGet(w) \/ CreateReget(w)
    BY <2>2, GetConfig
  <2>3. CASE CreatePost(w) \/ LockDown(w)
    BY <2>3, CreatePostConfig, LockDownConfig
  <2>4. CASE GetPolicy(w) \/ PutPolicy(w) \/ PatchBucket(w)
    BY <2>4, GetPolicyConfig, PutPolicyConfig, PatchConfig
  <2>5. CASE QuotaRoot(w) \/ CreateQuota(w) \/ GetQuota(w) \/ UpdateQuota(w)
    BY <2>5, QuotaRootConfig, CreateQuotaConfig, GetQuotaConfig, UpdateQuotaConfig
  <2>6. CASE CreateReturns(w) \/ ImportGet(w) \/ ImportReturns(w)
    BY <2>6, RootFoundConfig, ImportGetConfig
  <2> QED
    BY <1>1, <2>1, <2>2, <2>3, <2>4, <2>5, <2>6 DEF Create
<1>2. ASSUME NEW w \in Workers, Delete(w) PROVE Config'
  <2>1. CASE StartDelete(w)
    BY <2>1, StartDeleteConfig
  <2>2. CASE DeleteGet(w) \/ DeleteResume(w) \/ DeleteRoot(w) \/ LookForJob(w) \/ WaitForTreeDelete(w)
    BY <2>2, DeleteReadsConfig
  <2>3. CASE AbortUploads(w) \/ DropBucket(w) \/ TreeDelete(w)
    BY <2>3, DeleteWritesConfig
  <2>4. CASE DeleteReturns(w)
    BY <2>4, EndConfig
  <2> QED
    BY <1>2, <2>1, <2>2, <2>3, <2>4 DEF Delete
<1>3. ASSUME NEW w \in Workers, Abandon(w) PROVE Config'
  BY <1>3, EndConfig
<1>4. CASE LateWrite \/ JobEnds \/ JobAborts
  BY <1>4, LateConfig, JobConfig
<1>5. CASE ClientWrites \/ ClientIsGranted \/ OperatorActs
  BY <1>5, ClientConfig, OperatorConfig
<1>6. CASE UNCHANGED vars
  BY <1>6, StutterConfig
<1> QED
  BY <1>1, <1>2, <1>3, <1>4, <1>5, <1>6 DEF Next

\* The inductive invariant of what creates configure: the calls beside a calm create
\* agree with it, and it, and every bucket reported Ready, keep what was reached.
THEOREM Configured == Spec => []Config
<1>1. Base /\ Config /\ [Next]_vars => Base' /\ Config'
  BY NextBase, NextConfig
<1>2. Init => Base /\ Config
  BY InitBase, InitConfig
<1> QED
  BY <1>1, <1>2, PTL DEF Spec

\* A bucket that a create returned, undisturbed by calls that ask for something else
\* and by operators, has all that its class asks for: nobody has access by default,
\* versioning, lock and quota are set, whatever earlier attempts of any process had
\* done or have left to arrive (driver.go:286).
THEOREM ReadyBuckets == Spec => []ReadyIsConfigured
<1>1. Config => ReadyIsConfigured
  BY DEF Config, ReadyOK, VersionDone, LockDone, QuotaDone, ReadyIsConfigured
<1> QED
  BY <1>1, Configured, PTL
=============================================================================
