----------------------------- MODULE CosiBucket -----------------------------
(***************************************************************************)
(* DriverCreateBucket, with the import of an existing bucket, and          *)
(* DriverDeleteBucket of the COSI driver (internal/driver/driver.go)       *)
(* against Core, for the buckets of one name.                              *)
(*                                                                         *)
(* A bucket is a registration of a name at a path; the directory at the    *)
(* path has an identity of its own.  Writes to Core address the name, a    *)
(* path or a file ID, and a handle records path and file ID.  One step of  *)
(* a handler is one REST call and what the handler does with its answer.   *)
(*                                                                         *)
(* Core is external.  Registrations, directories and ETags are numbered    *)
(* from one counter and never reused.  Core creates a bucket only where    *)
(* the path is free; deletes its directory only if asked to, when it is    *)
(* empty and no multipart upload is open; and takes `private` at creation  *)
(* or rejects the field, as older releases do: in the course of an upgrade *)
(* either.  A bucket created without it has no policy document and is open.*)
(***************************************************************************)
EXTENDS Naturals, FiniteSets

CONSTANTS
    Workers,        \* goroutines serving a call, of any process
    Paths,          \* paths a bucket of this name may have
    Want,           \* RootPath(basePath, name), where the driver creates it
    Classes,        \* parameters of BucketClasses
    Contexts,       \* delete contexts: subset of "purge", "root", "keep"
    PolicyAttempts, \* attempts of MutateBucketPolicy
    MaxRequests,    \* bound: calls started
    MaxFaults       \* bound: lost answers, calls cut short, acts of operators

ASSUME BucketAssumption ==
    /\ Want \in Paths /\ "elsewhere" \notin Paths
    /\ Classes # {}
    /\ Classes \subseteq [versioning : {"Unversioned", "Enabled", "Suspended"},
                          lock : BOOLEAN, quota : Nat, import : BOOLEAN]
    /\ Contexts \subseteq {"purge", "root", "keep"}
    /\ PolicyAttempts \in Nat \ {0}
    /\ MaxRequests \in Nat /\ MaxFaults \in Nat

VARIABLES
    bucket,  \* the registration of the name; reg is 0 if there is none
    files,   \* directories: identity, path ("elsewhere" if it is at none), do they hold data
    quotas,  \* quotas by file ID
    jobs,    \* tree-delete jobs by file ID
    next,    \* next number Core hands out
    late,    \* writes sent whose answer was lost, not applied yet
    work,    \* worker -> its call, local variables and position
    count,   \* how often each bounded event has happened
    hist     \* history: what callers asked for and were told

core == <<bucket, files, quotas, jobs, next>>
vars == <<core, late, work, count, hist>>

(***************************************************************************)
(* Values                                                                  *)
(***************************************************************************)

NoBucket == [reg |-> 0, path |-> Want, policy |-> "none", etag |-> 0,
             versioning |-> "Unversioned", lock |-> FALSE, uploads |-> FALSE]

\* What a handler remembers of a bucket it has read or created.
Facts(b) == [path |-> b.path, versioning |-> b.versioning, lock |-> b.lock]

\* A handle from before 0.2.0 records the name only.
LegacyHandle == [path |-> Want, id |-> 0, managed |-> FALSE]

\* kind, class, handle, ctx: the request; since: the next number of Core when
\* it came; known: the registration of the name then, if it had a policy
\* document.
NoCall == [kind |-> "none", class |-> CHOOSE c \in Classes : TRUE,
           handle |-> LegacyHandle, ctx |-> "keep", since |-> 0, known |-> {}]

\* cur: what the handler knows of the bucket; id: file ID looked up; etag: of
\* the last read; try: attempt of the loop it is in; calm: no other call, no
\* late write and no operator could change what this create configures.
Idle == [pc |-> "idle", call |-> NoCall, cur |-> Facts(NoBucket), id |-> 0, etag |-> 0,
         try |-> 1, calm |-> TRUE]

CreatePoints == {"cGet", "cPost", "cReget", "cPostOpen", "cLockDown", "cPolicy", "cPutPolicy",
                 "cVersion", "cLock", "cQuotaRoot", "cQuota", "cQuotaGet", "cQuotaPut", "cRoot",
                 "iGet", "iRoot"}

DeletePoints == {"dGet", "dResume", "dRoot", "dAbort", "dDrop", "dJob", "dTree", "dRejob", "dWait",
                 "dDone"}

Init ==
    /\ bucket = NoBucket
    /\ files = {} /\ quotas = {} /\ jobs = {}
    /\ next = 1
    /\ late = {}
    /\ work = [w \in Workers |-> Idle]
    /\ count = [requests |-> 0, faults |-> 0]
    /\ hist = [handles |-> {LegacyHandle}, ready |-> {}, deleted |-> {}, purged |-> {}]

Handle == [path : Paths, id : 0..(next - 1), managed : BOOLEAN]

TypeOK ==
    /\ bucket.reg \in 0..(next - 1) /\ bucket.etag \in 0..(next - 1)
    /\ bucket.path \in Paths /\ bucket.policy \in {"open", "none", "grants"}
    /\ files \subseteq [id : 1..(next - 1), path : Paths \cup {"elsewhere"}, full : BOOLEAN]
    /\ \A f, g \in files : f # g => f.id # g.id /\ (f.path = g.path => f.path = "elsewhere")
    /\ \A q, r \in quotas : q.id = r.id => q = r
    /\ \A j, k \in jobs : j.id = k.id => j = k
    /\ hist.handles \subseteq Handle
    /\ \A w \in Workers :
         /\ work[w].pc \in {"idle"} \cup CreatePoints \cup DeletePoints
         /\ work[w].call.handle \in hist.handles
         /\ work[w].pc \in {"cPolicy", "cPutPolicy"} => work[w].try \in 1..PolicyAttempts
         /\ work[w].pc \in {"dAbort", "dDrop"} => work[w].try \in 1..2
         /\ work[w].pc \in {"cQuota", "cQuotaGet", "cQuotaPut", "dJob", "dTree", "dRejob", "dWait"} =>
              work[w].id \in 1..(next - 1)

(***************************************************************************)
(* Core                                                                    *)
(***************************************************************************)

Registered == bucket.reg # 0

\* The file ID at a path, 0 if there is nothing.
At(path) == IF \E f \in files : f.path = path THEN (CHOOSE f \in files : f.path = path).id ELSE 0

Exists(id) == \E f \in files : f.id = id

Holds(id) == \E f \in files : f.id = id /\ f.full

QuotaOf(id) == {q \in quotas : q.id = id}

JobOf(id) == {j \in jobs : j.id = id}

\* What Core answers to a write that reaches it now.  A policy write without
\* an ETag (0) is unconditional.
Answer(m) ==
    CASE m.op = "post"   -> IF Registered \/ At(Want) # 0 THEN "exists" ELSE "ok"
      [] m.op = "policy" -> IF ~Registered THEN "missing"
                            ELSE IF m.etag \notin {0, bucket.etag} THEN "stale" ELSE "ok"
      [] m.op \in {"version", "lock"} -> IF Registered THEN "ok" ELSE "missing"
      [] m.op = "quota"  -> IF ~Exists(m.id) THEN "missing"
                            ELSE IF QuotaOf(m.id) # {} THEN "exists" ELSE "ok"
      [] m.op = "limit"  -> IF QuotaOf(m.id) = {} THEN "missing"
                            ELSE IF \E q \in QuotaOf(m.id) : q.etag # m.etag THEN "stale" ELSE "ok"
      [] m.op = "abort"  -> "ok"
      [] m.op = "drop"   -> IF ~Registered THEN "missing"
                            ELSE IF m.flag /\ (bucket.uploads \/ Holds(At(bucket.path))) THEN "full"
                            ELSE "ok"
      [] m.op = "tree"   -> IF ~Exists(m.id) THEN "missing"
                            ELSE IF JobOf(m.id) # {} THEN "exists" ELSE "ok"

\* The effect of a write that Core accepts.
Effect(m) ==
    \/ /\ m.op = "post"
       /\ bucket' = [NoBucket EXCEPT !.reg = next, !.etag = next, !.lock = m.call.class.lock,
                                     !.policy = IF m.flag THEN "none" ELSE "open"]
       /\ files' = files \cup {[id |-> next, path |-> Want, full |-> FALSE]}
       /\ next' = next + 1
       /\ UNCHANGED <<quotas, jobs>>
    \/ /\ m.op = "policy"
       /\ bucket' = [bucket EXCEPT !.policy = "none", !.etag = next]
       /\ next' = next + 1
       /\ UNCHANGED <<files, quotas, jobs>>
    \/ /\ m.op = "version"
       /\ bucket' = [bucket EXCEPT !.versioning = m.call.class.versioning]
       /\ UNCHANGED <<files, quotas, jobs, next>>
    \/ /\ m.op = "lock"
       /\ bucket' = [bucket EXCEPT !.lock = TRUE]
       /\ UNCHANGED <<files, quotas, jobs, next>>
    \/ /\ m.op \in {"quota", "limit"}
       /\ quotas' = (quotas \ QuotaOf(m.id))
                      \cup {[id |-> m.id, limit |-> m.call.class.quota, etag |-> next]}
       /\ next' = next + 1
       /\ UNCHANGED <<bucket, files, jobs>>
    \/ /\ m.op = "abort"
       /\ bucket' = [bucket EXCEPT !.uploads = FALSE]
       /\ UNCHANGED <<files, quotas, jobs, next>>
    \/ /\ m.op = "drop"
       /\ bucket' = NoBucket
       /\ files' = {f \in files : ~(m.flag /\ f.path = bucket.path)}
       /\ UNCHANGED <<quotas, jobs, next>>
    \/ /\ m.op = "tree"
       /\ jobs' = jobs \cup {[id |-> m.id, aborted |-> FALSE]}
       /\ UNCHANGED <<bucket, files, quotas, next>>

Commit(m) == IF Answer(m) = "ok" THEN Effect(m) ELSE UNCHANGED core

\* One of the bounded number of things that go wrong.
Fault ==
    /\ count.faults < MaxFaults
    /\ count' = [count EXCEPT !.faults = @ + 1]

\* A write that was sent before reaches Core now.
LateWrite ==
    \E m \in late :
        /\ Commit(m)
        /\ late' = late \ {m}
        /\ UNCHANGED <<work, count, hist>>

\* A running job removes its directory and is gone, or aborts and stays.
JobEnds ==
    \E j \in jobs :
        /\ ~j.aborted
        /\ jobs' = jobs \ {j}
        /\ files' = {f \in files : f.id # j.id}
        /\ UNCHANGED <<bucket, quotas, next, late, work, count, hist>>

JobAborts ==
    \E j \in jobs :
        /\ ~j.aborted
        /\ Fault
        /\ jobs' = (jobs \ {j}) \cup {[j EXCEPT !.aborted = TRUE]}
        /\ UNCHANGED <<bucket, files, quotas, next, late, work, hist>>

\* A bucket was handed out and its handle fits.
Usable ==
    /\ Registered
    /\ \E h \in hist.handles : h.path = bucket.path /\ h.id = At(bucket.path) /\ h.id # 0

\* Users that were granted access to the bucket store an object or begin an
\* upload; either one is enough to hinder a delete, so there is one at a time.
ClientWrites ==
    /\ Usable /\ bucket.policy = "grants"
    /\ ~bucket.uploads /\ ~Holds(At(bucket.path))
    /\ \/ /\ files' = {IF f.path = bucket.path THEN [f EXCEPT !.full = TRUE] ELSE f : f \in files}
          /\ UNCHANGED bucket
       \/ /\ bucket' = [bucket EXCEPT !.uploads = TRUE]
          /\ UNCHANGED files
    /\ UNCHANGED <<quotas, jobs, next, late, work, count, hist>>

\* A grant of access to a bucket whose handle still fits adds its statement
\* under the ETag it read.
ClientIsGranted ==
    /\ Usable
    /\ bucket.policy # "grants"
    /\ bucket' = [bucket EXCEPT !.policy = "grants", !.etag = next]
    /\ next' = next + 1
    /\ UNCHANGED <<files, quotas, jobs, late, work, count, hist>>

Disturbed == [w \in Workers |-> IF work[w].call.kind = "create"
                                THEN [work[w] EXCEPT !.calm = FALSE] ELSE work[w]]

\* An operator moves a directory away and puts another in its place, or
\* registers the free name on a directory of his own: with statements in the
\* policy, or without a policy.
OperatorActs ==
    \E path \in Paths :
        /\ Fault
        /\ IF Registered THEN path = bucket.path /\ UNCHANGED bucket
           ELSE \E p \in {"open", "grants"} :
                  bucket' = [NoBucket EXCEPT !.reg = next, !.path = path,
                                             !.policy = p, !.etag = next]
        /\ files' = {IF f.path = path THEN [f EXCEPT !.path = "elsewhere"] ELSE f : f \in files}
                      \cup {[id |-> next, path |-> path, full |-> TRUE]}
        /\ next' = next + 1
        /\ work' = Disturbed
        /\ UNCHANGED <<quotas, jobs, late, hist>>

(***************************************************************************)
(* Handlers: common parts                                                  *)
(***************************************************************************)

Is(w, p) == work[w].pc = p

Class(w) == work[w].call.class

Named(w) == work[w].call.handle

Go(w, p) == [work[w] EXCEPT !.pc = p]

\* A handler's position changes and nothing else.
Move(w, to) ==
    /\ work' = [work EXCEPT ![w] = to]
    /\ UNCHANGED <<core, late, count, hist>>

\* PUT and PATCH, which DoJSON sends again after a lost answer.
Replayed == {"policy", "limit", "version", "lock"}

\* A write to Core.  It is answered, or the answer is lost and the write is
\* sent again or not; after[a] is what the handler does on answer a.  The
\* answer to a conditional write settles its earlier copies too: their ETag is
\* no longer current.
Send(w, m, after) ==
    \/ /\ Commit(m)
       /\ work' = [work EXCEPT ![w] = after[Answer(m)]]
       /\ late' = IF m.etag = 0 THEN late ELSE late \ {m}
       /\ UNCHANGED count
    \/ /\ Fault
       /\ late' = late \cup {m}
       /\ \/ work' = [work EXCEPT ![w] = after["lost"]]
          \/ m.op \in Replayed /\ UNCHANGED work
       /\ UNCHANGED core

\* flag: `private` of a POST, delete-root-dir of a DELETE.
Write(w, op) == [op |-> op, call |-> work[w].call, id |-> work[w].id, etag |-> work[w].etag,
                 flag |-> FALSE]

\* Creates of one class do not disturb each other, and an import disturbs
\* nobody.
Agree(c, d) == \/ c.kind = "import" \/ d.kind = "import"
               \/ c.kind = "create" /\ d.kind = "create" /\ c.class = d.class

\* A call arrives.  It takes back what creates promised, unless it agrees.
Start(w, c, p) ==
    /\ Is(w, "idle")
    /\ count.requests < MaxRequests
    /\ count' = [count EXCEPT !.requests = @ + 1]
    /\ LET creates == {v \in Workers : ~Is(v, "idle") /\ work[v].call.kind = "create"}
           quiet   == /\ \A v \in Workers : ~Is(v, "idle") => Agree(c, work[v].call)
                      /\ \A m \in late : Agree(c, m.call)
       IN  work' = [v \in Workers |->
                      IF v = w THEN [Idle EXCEPT !.pc = p, !.call = c,
                                                 !.calm = c.kind = "create" => quiet]
                      ELSE IF v \in creates THEN [work[v] EXCEPT !.calm = @ /\ Agree(c, work[v].call)]
                      ELSE work[v]]
    /\ hist' = [hist EXCEPT !.ready = {r \in @ : Agree(c, r.call)},
                            !.purged = @ \cup IF c.ctx = "purge" THEN {c.handle.id} ELSE {}]
    /\ UNCHANGED <<core, late>>

\* A read fails, ensureFeatures refuses the class, or the process stops.
Abandon(w) ==
    /\ ~Is(w, "idle")
    /\ Fault
    /\ work' = [work EXCEPT ![w] = Idle]
    /\ UNCHANGED <<core, late, hist>>

(***************************************************************************)
(* DriverCreateBucket                                                      *)
(***************************************************************************)

\* The registration of the name, if it has a policy document.
Documented == IF Registered /\ bucket.policy # "open" THEN {bucket.reg} ELSE {}

StartCreate(w) ==
    \E c \in Classes :
        IF c.import THEN Start(w, [NoCall EXCEPT !.kind = "import"], "iGet")
        ELSE Start(w, [NoCall EXCEPT !.kind = "create", !.class = c, !.known = Documented], "cGet")

\* GetBucket: the bucket of the name is the one wanted if it is at its path.
Found(w, none) ==
    IF ~Registered THEN none
    ELSE IF bucket.path = Want THEN [Go(w, "cPolicy") EXCEPT !.cur = Facts(bucket)] ELSE Idle

CreateGet(w) ==
    /\ Is(w, "cGet")
    /\ Move(w, Found(w, Go(w, "cPost")))

\* GetBucket after a conflict; here not found is an error.
CreateReget(w) ==
    /\ Is(w, "cReget")
    /\ Move(w, Found(w, Idle))

\* POST of the bucket.  It is not replayed, so a lost answer fails the call.
PostBucket(w, p, asPrivate, done) ==
    /\ Is(w, p)
    /\ Send(w, [Write(w, "post") EXCEPT !.flag = asPrivate],
            [ok |-> [Go(w, done) EXCEPT !.cur = [@ EXCEPT !.lock = Class(w).lock]],
             exists |-> Go(w, "cReget"), lost |-> Idle])
    /\ UNCHANGED hist

\* An older Core rejects `private`, and the bucket is made without it.
CreatePost(w) ==
    \/ PostBucket(w, "cPost", TRUE, "cPolicy")
    \/ Is(w, "cPost") /\ Move(w, Go(w, "cPostOpen"))
    \/ PostBucket(w, "cPostOpen", FALSE, "cLockDown")

\* lockDownLegacy: an empty policy, written without an ETag.
LockDown(w) ==
    /\ Is(w, "cLockDown")
    /\ Send(w, Write(w, "policy"), [ok |-> Go(w, "cPolicy"), missing |-> Idle, lost |-> Idle])
    /\ UNCHANGED hist

\* ensureBucketConfig after the policy: each property the class asks for and
\* the bucket, as it was read, lacks.
Version(w) == Class(w).versioning # "Unversioned" /\ work[w].cur.versioning # Class(w).versioning

\* Of what was read only the path is used from here on.
Rest(b) == [Facts(NoBucket) EXCEPT !.path = b.path]

AfterLock(w) == [work[w] EXCEPT !.pc = IF Class(w).quota > 0 THEN "cQuotaRoot" ELSE "cRoot",
                                !.cur = Rest(@), !.etag = 0, !.try = 1]

AfterVersion(w) == IF Class(w).lock /\ ~work[w].cur.lock
                   THEN [Go(w, "cLock") EXCEPT !.etag = 0, !.try = 1] ELSE AfterLock(w)

AfterPolicy(w) == IF Version(w) THEN [Go(w, "cVersion") EXCEPT !.etag = 0, !.try = 1]
                  ELSE AfterVersion(w)

\* Faulty GetPolicy: statements of others are not spared.
GetPolicyAlways(w) ==
    /\ Is(w, "cPolicy")
    /\ Move(w, [Go(w, "cPutPolicy") EXCEPT !.etag = bucket.etag])

\* GetBucketPolicy.  No bucket, or an open one without a document, reads as an
\* empty policy without ETag; statements are left alone.
GetPolicy(w) ==
    /\ Is(w, "cPolicy")
    /\ Move(w, IF bucket.policy = "grants" THEN AfterPolicy(w)
               ELSE [Go(w, "cPutPolicy") EXCEPT !.etag = IF bucket.policy = "open" THEN 0 ELSE bucket.etag])

\* Faulty Again: one attempt more than the loop has.
AgainOnceMore(w) ==
    IF work[w].try <= PolicyAttempts
    THEN [Go(w, "cPolicy") EXCEPT !.etag = 0, !.try = @ + 1] ELSE Idle

Again(w) ==
    IF work[w].try < PolicyAttempts
    THEN [Go(w, "cPolicy") EXCEPT !.etag = 0, !.try = @ + 1] ELSE Idle

PutPolicy(w) ==
    /\ Is(w, "cPutPolicy")
    /\ Send(w, Write(w, "policy"),
            [ok |-> AfterPolicy(w), stale |-> Again(w), missing |-> Idle, lost |-> Idle])
    /\ UNCHANGED hist

PatchBucket(w) ==
    /\ \/ /\ Is(w, "cVersion")
          /\ Send(w, Write(w, "version"), [ok |-> AfterVersion(w), missing |-> Idle, lost |-> Idle])
       \/ /\ Is(w, "cLock")
          /\ Send(w, Write(w, "lock"), [ok |-> AfterLock(w), missing |-> Idle, lost |-> Idle])
    /\ UNCHANGED hist

\* applyQuota finds the directory at the bucket's path.
QuotaRoot(w) ==
    /\ Is(w, "cQuotaRoot")
    /\ Move(w, IF At(work[w].cur.path) = 0 THEN Idle
               ELSE [Go(w, "cQuota") EXCEPT !.id = At(work[w].cur.path)])

HasQuota(w) == [Go(w, "cRoot") EXCEPT !.id = 0, !.etag = 0]

\* CreateQuota.  A conflict and a lost answer are both settled by a read.
CreateQuota(w) ==
    /\ Is(w, "cQuota")
    /\ Send(w, Write(w, "quota"), [ok |-> HasQuota(w), exists |-> Go(w, "cQuotaGet"),
                                   missing |-> Idle, lost |-> Go(w, "cQuotaGet")])
    /\ UNCHANGED hist

\* Faulty GetQuota: a quota that exists is taken for the one asked for.
GetQuotaAny(w) ==
    /\ Is(w, "cQuotaGet")
    /\ Move(w, IF QuotaOf(work[w].id) = {} THEN Idle ELSE HasQuota(w))

GetQuota(w) ==
    /\ Is(w, "cQuotaGet")
    /\ Move(w, IF QuotaOf(work[w].id) = {} THEN Idle
               ELSE LET q == CHOOSE q \in QuotaOf(work[w].id) : TRUE
                    IN  IF q.limit = Class(w).quota THEN HasQuota(w)
                        ELSE [Go(w, "cQuotaPut") EXCEPT !.etag = q.etag])

UpdateQuota(w) ==
    /\ Is(w, "cQuotaPut")
    /\ Send(w, Write(w, "limit"), [ok |-> HasQuota(w), stale |-> Idle, missing |-> Idle, lost |-> Idle])
    /\ UNCHANGED hist

\* The handle that a create or an import returns, for the bucket registered now.
Returns(w, managed) ==
    LET h == [path |-> work[w].cur.path, id |-> At(work[w].cur.path), managed |-> managed]
    IN  /\ hist' = [hist EXCEPT
                      !.handles = @ \cup {h},
                      !.ready = @ \cup IF managed /\ work[w].calm
                                       THEN {[call |-> [work[w].call EXCEPT !.known = {}],
                                              reg |-> bucket.reg, id |-> h.id]}
                                       ELSE {}]
        /\ work' = [work EXCEPT ![w] = Idle]
        /\ UNCHANGED <<core, late, count>>

\* createOK and the end of importExistingBucket: the identity of the root.
RootFound(w, p, managed) ==
    /\ Is(w, p)
    /\ IF At(work[w].cur.path) = 0 THEN Move(w, Idle) ELSE Returns(w, managed)

CreateReturns(w) == RootFound(w, "cRoot", TRUE)

ImportGet(w) ==
    /\ Is(w, "iGet")
    /\ Move(w, IF Registered THEN [Go(w, "iRoot") EXCEPT !.cur = Rest(bucket)] ELSE Idle)

ImportReturns(w) == RootFound(w, "iRoot", FALSE)

(***************************************************************************)
(* DriverDeleteBucket                                                      *)
(***************************************************************************)

Legacy(w) == Named(w).id = 0

Ctx(w) == work[w].call.ctx

\* A handle that does not prove the driver made the directory retains it.
StartDelete(w) ==
    \E h \in hist.handles, ctx \in Contexts :
        Start(w, [NoCall EXCEPT !.kind = "delete", !.handle = h, !.since = next,
                                !.ctx = IF h.managed THEN ctx ELSE "keep"], "dGet")

\* The DELETE comes next, after AbortAllUploads if the directory goes too.
Unregister(w) == Go(w, IF Ctx(w) = "root" THEN "dAbort" ELSE "dDrop")

\* Faulty DeleteGet: a purge whose bucket is gone counts as done.
DeleteGetOnce(w) ==
    /\ Is(w, "dGet")
    /\ Move(w, IF ~Registered THEN Go(w, "dDone")
               ELSE IF Legacy(w) THEN Go(w, "dDrop")
               ELSE IF bucket.path = Named(w).path THEN Go(w, "dRoot") ELSE Idle)

\* GetBucket by name.
DeleteGet(w) ==
    /\ Is(w, "dGet")
    /\ Move(w, IF ~Registered THEN Go(w, IF Ctx(w) = "purge" THEN "dResume" ELSE "dDone")
               ELSE IF Legacy(w) THEN Go(w, "dDrop")
               ELSE IF bucket.path = Named(w).path THEN Go(w, "dRoot") ELSE Idle)

\* A purge resumed after the bucket was unregistered: only the recorded
\* directory is deleted, and its absence is success.
DeleteResume(w) ==
    /\ Is(w, "dResume")
    /\ LET id == At(Named(w).path)
       IN  Move(w, IF id = 0 THEN Go(w, "dDone")
                   ELSE IF id = Named(w).id THEN [Go(w, "dJob") EXCEPT !.id = id] ELSE Idle)

\* Faulty DeleteRoot: the path is trusted without its file ID.
DeleteRootByPath(w) ==
    /\ Is(w, "dRoot")
    /\ Move(w, [Unregister(w) EXCEPT !.id = IF Ctx(w) = "purge" THEN At(Named(w).path) ELSE 0])

\* The file ID at the bucket's path is compared with the recorded one.  For a
\* purge a missing directory is no obstacle.
DeleteRoot(w) ==
    /\ Is(w, "dRoot")
    /\ LET id == At(Named(w).path)
       IN  Move(w, IF id = Named(w).id
                   THEN [Unregister(w) EXCEPT !.id = IF Ctx(w) = "purge" THEN id ELSE 0]
                   ELSE IF id = 0 /\ Ctx(w) = "purge" THEN Unregister(w) ELSE Idle)

\* AbortAllUploads; a bucket that is gone has none.  The first time its errors
\* are ignored, the second time they end the call.
AbortUploads(w) ==
    /\ Is(w, "dAbort")
    /\ Send(w, Write(w, "abort"),
            [ok |-> Go(w, "dDrop"), lost |-> IF work[w].try = 1 THEN Go(w, "dDrop") ELSE Idle])
    /\ UNCHANGED hist

Unregistered(w) == Go(w, IF work[w].id = 0 THEN "dDone" ELSE "dJob")

\* DeleteBucket.  If it must delete a directory that is not empty, uploads are
\* aborted and it is tried once more.
DropBucket(w) ==
    /\ Is(w, "dDrop")
    /\ Send(w, [Write(w, "drop") EXCEPT !.flag = Ctx(w) = "root"],
            [ok |-> Unregistered(w), missing |-> Unregistered(w),
             full |-> IF work[w].try = 1 THEN [Go(w, "dAbort") EXCEPT !.try = 2] ELSE Idle,
             lost |-> Idle])
    /\ UNCHANGED hist

\* waitForTreeDelete: a job that aborted is an error, one that is gone is done.
JobSeen(w, none) ==
    IF JobOf(work[w].id) = {} THEN none
    ELSE IF \E j \in JobOf(work[w].id) : j.aborted THEN Idle ELSE Go(w, "dWait")

\* treeDelete: a job of the directory is joined; after a lost POST it must be
\* seen.
LookForJob(w) ==
    \/ Is(w, "dJob") /\ Move(w, JobSeen(w, Go(w, "dTree")))
    \/ Is(w, "dRejob") /\ Move(w, JobSeen(w, Idle))

TreeDelete(w) ==
    /\ Is(w, "dTree")
    /\ Send(w, Write(w, "tree"), [ok |-> Go(w, "dWait"), exists |-> Go(w, "dWait"),
                                  missing |-> Go(w, "dDone"), lost |-> Go(w, "dRejob")])
    /\ UNCHANGED hist

WaitForTreeDelete(w) ==
    /\ Is(w, "dWait")
    /\ \A j \in JobOf(work[w].id) : j.aborted
    /\ Move(w, JobSeen(w, Go(w, "dDone")))

\* The call succeeds.
DeleteReturns(w) ==
    /\ Is(w, "dDone")
    /\ work' = [work EXCEPT ![w] = Idle]
    /\ hist' = [hist EXCEPT !.deleted = @ \cup {[handle |-> Named(w), purged |-> Ctx(w) = "purge"]}]
    /\ UNCHANGED <<core, late, count>>

Create(w) ==
    \/ StartCreate(w) \/ CreateGet(w) \/ CreatePost(w) \/ CreateReget(w) \/ LockDown(w)
    \/ GetPolicy(w) \/ PutPolicy(w) \/ PatchBucket(w)
    \/ QuotaRoot(w) \/ CreateQuota(w) \/ GetQuota(w) \/ UpdateQuota(w)
    \/ CreateReturns(w) \/ ImportGet(w) \/ ImportReturns(w)

Delete(w) ==
    \/ StartDelete(w) \/ DeleteGet(w) \/ DeleteResume(w) \/ DeleteRoot(w)
    \/ AbortUploads(w) \/ DropBucket(w)
    \/ LookForJob(w) \/ TreeDelete(w) \/ WaitForTreeDelete(w) \/ DeleteReturns(w)

Next ==
    \/ \E w \in Workers : Create(w) \/ Delete(w) \/ Abandon(w)
    \/ LateWrite \/ JobEnds \/ JobAborts
    \/ ClientWrites \/ ClientIsGranted \/ OperatorActs

Spec == Init /\ [][Next]_vars

(***************************************************************************)
(* Properties                                                              *)
(***************************************************************************)

\* A create that returned, undisturbed by calls that ask for something else,
\* has given the bucket all its class asks for, whatever earlier attempts had
\* done or left to come: nobody has access by default, versioning, lock and
\* quota are set ("never reported Ready with a requested setting missing",
\* driver.go:286).
ReadyIsConfigured ==
    \A r \in hist.ready :
        bucket.reg = r.reg =>
            /\ bucket.policy # "open"
            /\ r.call.class.versioning \in {"Unversioned", bucket.versioning}
            /\ r.call.class.lock => bucket.lock
            /\ r.call.class.quota > 0 /\ Exists(r.id) =>
                 \E q \in QuotaOf(r.id) : q.limit = r.call.class.quota

\* No create removes a statement from the policy of a bucket that had a policy
\* document when it was called, be it of this driver, of an operator or
\* imported; nor do the writes it leaves behind (driver.go:292-296).  A bucket
\* without one reads without ETag, and the write that follows spares nothing
\* that is granted in between (policy.go:94, policy.go:131).
GrantsSurvive ==
    [][bucket.policy = "grants" /\ bucket'.reg = bucket.reg /\ bucket'.policy # "grants" =>
         /\ \A w \in Workers : work'[w] # work[w] => bucket.reg \notin work[w].call.known
         /\ \A m \in late \ late' : bucket.reg \notin m.call.known]_vars

\* A delete that returned has unregistered the bucket its handle names, and a
\* purge has deleted the directory too, also when the first attempt stopped
\* between the two (driver.go:429-452).
DeletedIsGone ==
    \A d \in hist.deleted :
        At(d.handle.path) = d.handle.id /\ d.handle.id # 0 =>
            /\ ~(Registered /\ bucket.path = d.handle.path)
            /\ ~d.purged

\* The bucket may be unregistered for the sake of a call: its root is the one
\* the handle names, or it has come to the name, or its directory to the path,
\* only after the call did; a legacy handle names no root.
MayDrop(c) ==
    \/ c.handle.id = 0
    \/ bucket.path = c.handle.path /\ At(bucket.path) = c.handle.id
    \/ bucket.reg >= c.since
    \/ bucket.path = c.handle.path /\ (At(bucket.path) = 0 \/ At(bucket.path) >= c.since)

\* A delete unregisters no replacement that was there when it was called, and
\* data goes only when a purge was asked for with a handle that names the
\* directory and proves that the driver made it (driver.go:398, driver.go:444,
\* driver.go:466, driver.go:500).
OnlyTheNamed ==
    [][/\ Registered /\ bucket'.reg # bucket.reg =>
            /\ \A w \in Workers : work'[w] # work[w] => MayDrop(work[w].call)
            /\ \A m \in late \ late' : MayDrop(m.call)
       /\ \A f \in files : f.full /\ (\A g \in files' : g.id # f.id) => f.id \in hist.purged]_vars

=============================================================================
