----------------------------- MODULE CosiAccess -----------------------------
(***************************************************************************)
(* DriverGrantBucketAccess and DriverRevokeBucketAccess of the COSI driver *)
(* (internal/driver/driver.go) against Core, for the accesses of one       *)
(* bucket.                                                                 *)
(*                                                                         *)
(* A grant spreads over four stores of Core that share no transaction: the *)
(* local user, its access keys, the bucket policy and the ACL of the       *)
(* bucket's directory.  Policy and ACL are shared by all accesses and are  *)
(* changed by read, modify and conditional write.  One step of a handler   *)
(* is one REST call and what the handler does with its answer.             *)
(*                                                                         *)
(* Core is external.  Identifiers of users, keys and directories are not   *)
(* reused, a user name has one live user, deleting a user keeps its keys,  *)
(* a policy or ACL carries an ETag that changes with each write of it.     *)
(* The sidecar is external too: for one access it makes one call at a time *)
(* and may retry after an error or when it has given up waiting.           *)
(***************************************************************************)
EXTENDS Naturals, FiniteSets

CONSTANTS
    Workers,        \* goroutines serving a call
    ProcessOf,      \* worker -> its process; a process has one Connection
    Accesses,       \* BucketAccess names; each has a user name of its own
    RootOf,         \* access -> RootFileID in its bucket handle, 0: legacy
    ModesOf,        \* access -> values its class's accessMode may take
    KeyLimit,       \* access keys Core allows a user
    PolicyAttempts, \* attempts of MutateBucketPolicy
    AclAttempts,    \* attempts of GrantDirectoryAccess, RevokeDirectoryAccess
    MaxRequests,    \* bound: calls started
    MaxFaults       \* bound: lost answers, calls given up while their cleanup
                    \* runs, and acts of operators

ASSUME AccessAssumption ==
    /\ Accesses # {} /\ \A a \in Accesses : RootOf[a] \in {0, 1} /\ ModesOf[a] # {}
    /\ KeyLimit \in Nat \ {0}
    /\ PolicyAttempts \in Nat \ {0} /\ AclAttempts \in Nat \ {0}
    /\ MaxRequests \in Nat /\ MaxFaults \in Nat

VARIABLES
    users,   \* access -> ID of the live local user of its name, 0: none
    keys,    \* the access keys of Core
    bucket,  \* is the bucket registered, and the file ID at its root path
    policy,  \* statement of each access, and the ETag
    acl,     \* entries that grant a user a mode, and the ETag
    next,    \* next user ID and key ID Core hands out
    late,    \* writes sent whose answer was lost, not applied yet
    work,    \* worker -> local variables and position of its handler
    count,   \* how often each bounded event has happened
    hist     \* history: what callers were told, what operators did

core == <<users, keys, bucket, policy, acl, next>>
vars == <<core, late, work, count, hist>>

(***************************************************************************)
(* Values                                                                  *)
(***************************************************************************)

Modes == UNION {ModesOf[a] : a \in Accesses}

Nobody == [id |-> 0, mode |-> CHOOSE m \in Modes : TRUE]

NoStatements == [a \in Accesses |-> Nobody]

Grant == [id : Nat, mode : Modes]

\* access, id: the username and AuthID; key: the access key minted; todo:
\* the keys listed and not deleted yet; etag, stmts, entries: what the last
\* read of policy or ACL answered; try: which attempt of its loop this is;
\* own, pol, dir: targetUser, policyTarget and root of a revoke; left: the
\* caller is gone; calm: nothing of earlier calls acted at the start; blind:
\* another access had a policy write without ETag under way when this grant
\* had written the policy.
Idle == [pc |-> "idle", access |-> CHOOSE a \in Accesses : TRUE, id |-> 0,
         mode |-> CHOOSE m \in Modes : TRUE, key |-> 0, todo |-> {},
         etag |-> 0, stmts |-> NoStatements, entries |-> {}, try |-> 1,
         own |-> FALSE, pol |-> FALSE, dir |-> FALSE,
         left |-> FALSE, calm |-> TRUE, blind |-> FALSE]

GrantPoints == {"gBucket", "gAttrs", "gUser", "gLookup", "gList", "gDrop", "gKey",
                "gPolicy", "gPutPolicy", "gAcl", "gPutAcl", "gDone"}

RevokePoints == {"rUser", "rList", "rDrop", "rBucket", "rAttrs", "rPolicy", "rPutPolicy",
                 "rAcl", "rPutAcl", "rDelUser", "rDone"}

CleanPoints == {"cList", "cDrop", "cOwn"}

\* A bucket that was not made with a policy has none: ETag 0.
Init ==
    /\ users = [a \in Accesses |-> 0]
    /\ keys = {}
    /\ bucket = [open |-> TRUE, root |-> 1]
    /\ policy \in [stmts : {NoStatements}, etag : {0, 1}]
    /\ acl = [entries |-> {}, etag |-> 1]
    /\ next = [user |-> 1, key |-> 1]
    /\ late = {}
    /\ work = [w \in Workers |-> Idle]
    /\ count = [requests |-> 0, faults |-> 0]
    /\ hist = [accounts |-> {}, given |-> {}, revoked |-> {}, removed |-> {}]

TypeOK ==
    /\ users \in [Accesses -> 0..(next.user - 1)]
    /\ keys \subseteq [id : 1..(next.key - 1), owner : 1..(next.user - 1)]
    /\ \A j, k \in keys : j.id = k.id => j = k
    /\ \A k \in keys : Cardinality({j \in keys : j.owner = k.owner}) <= KeyLimit
    /\ bucket.open \in BOOLEAN /\ bucket.root \in {0, 1}
    /\ policy.stmts \in [Accesses -> Grant] /\ policy.etag \in Nat
    /\ policy.etag = 0 => policy.stmts = NoStatements
    /\ acl.entries \subseteq Grant /\ acl.etag \in Nat \ {0}
    /\ \A w \in Workers :
         /\ work[w].pc \in {"idle"} \cup GrantPoints \cup RevokePoints \cup CleanPoints
         /\ work[w].pc \in {"gPolicy", "gPutPolicy", "rPolicy", "rPutPolicy"} =>
              work[w].try \in 1..PolicyAttempts
         /\ work[w].pc \in {"gAcl", "gPutAcl", "rAcl", "rPutAcl"} =>
              work[w].try \in 1..AclAttempts
         /\ work[w].pc \in {"gDrop", "rDrop", "cDrop"} => work[w].todo # {}
         /\ work[w].pc \in {"gKey", "gPolicy", "gPutPolicy", "gAcl", "gPutAcl"} =>
              work[w].id \in 1..(next.user - 1)

(***************************************************************************)
(* Core                                                                    *)
(***************************************************************************)

Live == {users[a] : a \in Accesses} \ {0}

KeysOf(id) == {k \in keys : k.owner = id}

\* What Core answers to a write that reaches it now.  A write without an ETag
\* (0) is unconditional.
Answer(m) ==
    CASE m.op = "user"     -> IF users[m.access] # 0 THEN "exists" ELSE "ok"
      [] m.op = "dropUser" -> IF m.id \notin Live THEN "missing" ELSE "ok"
      [] m.op = "key"      -> IF m.id \notin Live THEN "missing"
                              ELSE IF Cardinality(KeysOf(m.id)) >= KeyLimit THEN "full" ELSE "ok"
      [] m.op = "dropKey"  -> IF \A k \in keys : k.id # m.id THEN "missing" ELSE "ok"
      [] m.op = "policy"   -> IF ~bucket.open THEN "missing"
                              ELSE IF m.etag \notin {0, policy.etag} THEN "stale" ELSE "ok"
      [] m.op = "acl"      -> IF bucket.root = 0 THEN "missing"
                              ELSE IF m.etag # acl.etag THEN "stale" ELSE "ok"

\* The effect of a write that Core accepts.
Effect(m) ==
    \/ /\ m.op = "user"
       /\ users' = [users EXCEPT ![m.access] = next.user]
       /\ next' = [next EXCEPT !.user = @ + 1]
       /\ UNCHANGED <<keys, bucket, policy, acl>>
    \/ /\ m.op = "dropUser"
       /\ users' = [a \in Accesses |-> IF users[a] = m.id THEN 0 ELSE users[a]]
       /\ UNCHANGED <<keys, bucket, policy, acl, next>>
    \/ /\ m.op = "key"
       /\ keys' = keys \cup {[id |-> next.key, owner |-> m.id]}
       /\ next' = [next EXCEPT !.key = @ + 1]
       /\ UNCHANGED <<users, bucket, policy, acl>>
    \/ /\ m.op = "dropKey"
       /\ keys' = {k \in keys : k.id # m.id}
       /\ UNCHANGED <<users, bucket, policy, acl, next>>
    \/ /\ m.op = "policy"
       /\ policy' = [stmts |-> m.stmts, etag |-> policy.etag + 1]
       /\ UNCHANGED <<users, keys, bucket, acl, next>>
    \/ /\ m.op = "acl"
       /\ acl' = [entries |-> m.entries, etag |-> acl.etag + 1]
       /\ UNCHANGED <<users, keys, bucket, policy, next>>

Commit(m) == IF Answer(m) = "ok" THEN Effect(m) ELSE UNCHANGED core

\* One of the bounded number of things that go wrong.
Fault ==
    /\ count.faults < MaxFaults
    /\ count' = [count EXCEPT !.faults = @ + 1]

\* A write that was sent before reaches Core now.
LateWrite ==
    \E m \in late :
        /\ Commit(m)
        /\ late' = late \ {m}
        /\ UNCHANGED <<work, count, hist>>

Outside == Fault /\ UNCHANGED <<keys, acl, next, late, work>>

\* Somebody deletes the local user of an access; keys, statement and entry stay.
OperatorDeletesUser ==
    \E a \in Accesses :
        /\ users[a] # 0
        /\ users' = [users EXCEPT ![a] = 0]
        /\ hist' = [hist EXCEPT !.removed = @ \cup {users[a]}]
        /\ Outside
        /\ UNCHANGED <<bucket, policy>>

\* The bucket is deleted, and its root directory with it or not.
BucketDeleted ==
    /\ bucket.open
    /\ bucket' \in [open : {FALSE}, root : {0, bucket.root}]
    /\ Outside
    /\ UNCHANGED <<users, policy, hist>>

(***************************************************************************)
(* Handlers: common parts                                                  *)
(***************************************************************************)

At(w, p) == work[w].pc = p

Go(w, p) == [work[w] EXCEPT !.pc = p]

User(w) == users[work[w].access]

\* A handler's position changes and nothing else.
Move(w, to) ==
    /\ work' = [work EXCEPT ![w] = to]
    /\ UNCHANGED <<core, late, count, hist>>

\* A write to Core.  It is answered, or the answer is lost; after[a] is what
\* the handler does on answer a.
Send(w, m, after) ==
    \/ /\ Commit(m)
       /\ work' = [work EXCEPT ![w] = after[Answer(m)]]
       /\ UNCHANGED <<late, count>>
    \/ /\ Fault
       /\ late' = late \cup {m}
       /\ work' = [work EXCEPT ![w] = after["lost"]]
       /\ UNCHANGED core

\* The caller of access a has no call under way, or has given up on it.
Quiet(a) == \A w \in Workers : ~At(w, "idle") /\ work[w].access = a => work[w].left

\* An earlier call of access a has left something behind that still acts: its
\* cleanup, or a write that has not reached Core.
Disturbed(a) ==
    \/ \E w \in Workers : ~At(w, "idle") /\ work[w].access = a
    \/ \E m \in late : m.op \in {"key", "policy", "acl", "dropUser"} /\ m.access = a

\* A call of another access is about to write a policy that it read when the
\* bucket had none, or such a write has not reached Core.
BlindWrite(a) ==
    \/ \E w \in Workers : /\ work[w].pc \in {"gPutPolicy", "rPutPolicy"}
                          /\ work[w].etag = 0 /\ work[w].access # a
    \/ \E m \in late : m.op = "policy" /\ m.etag = 0 /\ m.access # a

StartCall(w, call) ==
    /\ At(w, "idle")
    /\ Quiet(call.access)
    /\ count.requests < MaxRequests
    /\ count' = [count EXCEPT !.requests = @ + 1]
    /\ work' = [work EXCEPT ![w] = call]
    /\ UNCHANGED <<core, late>>

\* ListAccessKeysByOwner for the user ID: on to deleting what it lists, if any.
ListKeys(w, at, drop, none) ==
    /\ At(w, at)
    /\ LET ids == {k.id : k \in KeysOf(work[w].id)}
       IN  Move(w, IF ids = {} THEN none ELSE [work[w] EXCEPT !.todo = ids, !.pc = drop])

\* DELETE of the listed keys, one at a time; a missing key is no error.
DropKeys(w, at, then) ==
    /\ At(w, at)
    /\ \E k \in work[w].todo :
         LET done == IF work[w].todo = {k} THEN then ELSE [work[w] EXCEPT !.todo = @ \ {k}]
         IN  Send(w, [op |-> "dropKey", access |-> work[w].access, id |-> k],
                  [ok |-> done, missing |-> done, lost |-> Idle])
    /\ UNCHANGED hist

\* GetBucketPolicy in MutateBucketPolicy.  A bucket that is not found, or has
\* no policy yet, reads as an empty policy without ETag.
GetPolicy(w, at, put) ==
    /\ At(w, at)
    /\ Move(w, [work[w] EXCEPT !.pc = put,
                  !.etag = IF bucket.open THEN policy.etag ELSE 0,
                  !.stmts = IF bucket.open THEN policy.stmts ELSE NoStatements])

Cleared(w) == [work[w] EXCEPT !.etag = 0, !.stmts = NoStatements, !.entries = {}, !.try = 1]

\* Faulty Again: one attempt more than the loop has.
AgainOnceMore(w, at, attempts, failed) ==
    IF work[w].try <= attempts
    THEN [Cleared(w) EXCEPT !.pc = at, !.try = work[w].try + 1] ELSE failed

\* After a failed precondition: read again, or give up after the last attempt.
Again(w, at, attempts, failed) ==
    IF work[w].try < attempts
    THEN [Cleared(w) EXCEPT !.pc = at, !.try = work[w].try + 1] ELSE failed

\* aclMu of the Connection is held from the first GetACL to the last PutACL.
HoldsAclMu(w) == \/ work[w].pc \in {"gPutAcl", "rPutAcl"}
                 \/ work[w].pc \in {"gAcl", "rAcl"} /\ work[w].try > 1

AclMuFree(w) == \A v \in Workers \ {w} : ProcessOf[v] = ProcessOf[w] => ~HoldsAclMu(v)

EntriesOf(id, entries) == {e \in entries : e.id = id}

\* PutBucketPolicy and PutACL.  PUT is replayed until it is answered.
PutPolicy(w, stmts, after) ==
    Send(w, [op |-> "policy", access |-> work[w].access, stmts |-> stmts, etag |-> work[w].etag], after)

PutAcl(w, entries, after) ==
    Send(w, [op |-> "acl", access |-> work[w].access, entries |-> entries, etag |-> work[w].etag], after)

(***************************************************************************)
(* DriverGrantBucketAccess                                                 *)
(***************************************************************************)

\* A new grant takes back what earlier grants of the access returned: it is
\* going to replace their key.
StartGrant(w) ==
    \E a \in Accesses : \E m \in ModesOf[a] :
        /\ StartCall(w, [Idle EXCEPT !.pc = "gBucket", !.access = a, !.mode = m,
                                     !.calm = ~Disturbed(a)])
        /\ hist' = [hist EXCEPT !.given = {g \in @ : g.access # a}]

\* The bucket by name.  A legacy handle records no root to compare.
GrantBucket(w) ==
    /\ At(w, "gBucket")
    /\ Move(w, IF ~bucket.open THEN Idle
               ELSE Go(w, IF RootOf[work[w].access] = 0 THEN "gUser" ELSE "gAttrs"))

\* verifiedBucketRoot: the file ID at the bucket's path is the recorded one.
GrantAttrs(w) ==
    /\ At(w, "gAttrs")
    /\ Move(w, IF bucket.root = RootOf[work[w].access] THEN Go(w, "gUser") ELSE Idle)

GrantUser(w) ==
    /\ At(w, "gUser")
    /\ Send(w, [op |-> "user", access |-> work[w].access],
            [ok |-> [work[w] EXCEPT !.id = next.user, !.pc = "gList"],
             exists |-> Go(w, "gLookup"), lost |-> Idle])
    /\ UNCHANGED hist

GrantLookup(w) ==
    /\ At(w, "gLookup")
    /\ Move(w, IF User(w) = 0 THEN Idle
               ELSE [work[w] EXCEPT !.id = User(w), !.pc = "gList"])

GrantRotate(w) ==
    \/ ListKeys(w, "gList", "gDrop", Go(w, "gKey"))
    \/ DropKeys(w, "gDrop", [work[w] EXCEPT !.todo = {}, !.pc = "gKey"])

\* CreateAccessKey.  After any error the user's keys are deleted once more.
GrantKey(w) ==
    /\ At(w, "gKey")
    /\ Send(w, [op |-> "key", access |-> work[w].access, id |-> work[w].id],
            [ok |-> [work[w] EXCEPT !.key = next.key, !.pc = "gPolicy"],
             missing |-> Go(w, "cList"), full |-> Go(w, "cList"), lost |-> Go(w, "cList")])
    /\ UNCHANGED hist

Undo(w) == [Cleared(w) EXCEPT !.pc = "cOwn"]

\* Faulty: the policy is written without If-Match.
GrantPolicyUnconditional(w) ==
    \/ GetPolicy(w, "gPolicy", "gPutPolicy")
    \/ /\ At(w, "gPutPolicy")
       /\ Send(w, [op |-> "policy", access |-> work[w].access, etag |-> 0,
                   stmts |-> [work[w].stmts EXCEPT ![work[w].access] =
                                [id |-> work[w].id, mode |-> work[w].mode]]],
               [ok |-> [Cleared(w) EXCEPT !.pc = "gAcl"], missing |-> Undo(w), lost |-> work[w]])
       /\ UNCHANGED hist

\* MutateBucketPolicy with UpsertStatement.
GrantPolicy(w) ==
    \/ GetPolicy(w, "gPolicy", "gPutPolicy")
    \/ /\ At(w, "gPutPolicy")
       /\ PutPolicy(w, [work[w].stmts EXCEPT ![work[w].access] =
                          [id |-> work[w].id, mode |-> work[w].mode]],
                    [ok |-> [Cleared(w) EXCEPT !.pc = "gAcl",
                                               !.blind = BlindWrite(work[w].access)],
                     missing |-> Undo(w),
                     stale |-> Again(w, "gPolicy", PolicyAttempts, Undo(w)), lost |-> work[w]])
       /\ UNCHANGED hist

\* Faulty aclHasExactTrusteeGrant: any entry of the user will do.
HasTrustee(w) == EntriesOf(work[w].id, acl.entries) # {}

\* aclHasExactTrusteeGrant.
HasExactGrant(w) ==
    EntriesOf(work[w].id, acl.entries) = {[id |-> work[w].id, mode |-> work[w].mode]}

\* GrantDirectoryAccess: nothing to write if the user has exactly this entry,
\* else all its entries are replaced by this one.
GrantAcl(w) ==
    LET entry == [id |-> work[w].id, mode |-> work[w].mode]
    IN  \/ /\ At(w, "gAcl") /\ AclMuFree(w)
           /\ Move(w, IF bucket.root = 0 THEN Undo(w)
                      ELSE IF HasExactGrant(w) THEN [Cleared(w) EXCEPT !.pc = "gDone"]
                      ELSE [work[w] EXCEPT !.pc = "gPutAcl", !.etag = acl.etag,
                                           !.entries = acl.entries])
        \/ /\ At(w, "gPutAcl")
           /\ PutAcl(w, (work[w].entries \ EntriesOf(work[w].id, work[w].entries)) \cup {entry},
                     [ok |-> [Cleared(w) EXCEPT !.pc = "gDone"], missing |-> Undo(w),
                      stale |-> Again(w, "gAcl", AclAttempts, Undo(w)), lost |-> work[w]])
           /\ UNCHANGED hist

\* The caller gets the account and the secret.
GrantReturns(w) ==
    LET g == [access |-> work[w].access, id |-> work[w].id,
              mode |-> work[w].mode, key |-> work[w].key,
              calm |-> work[w].calm, blind |-> work[w].blind]
    IN  /\ At(w, "gDone")
        /\ work' = [work EXCEPT ![w] = Idle]
        /\ hist' = [hist EXCEPT !.given = @ \cup {g},
                                !.accounts = @ \cup {[access |-> g.access, id |-> g.id]}]
        /\ UNCHANGED <<core, late, count>>

\* The cleanup of a failed grant: rotateKeys, or only the key of this grant.
\* It has a context of its own and outlives the caller's.
Cleanup(w) ==
    \/ ListKeys(w, "cList", "cDrop", Idle)
    \/ DropKeys(w, "cDrop", Idle)
    \/ /\ At(w, "cOwn")
       /\ Send(w, [op |-> "dropKey", access |-> work[w].access, id |-> work[w].key],
               [ok |-> Idle, missing |-> Idle, lost |-> Idle])
       /\ UNCHANGED hist

(***************************************************************************)
(* DriverRevokeBucketAccess                                                *)
(***************************************************************************)

Legacy(w) == RootOf[work[w].access] = 0

\* A caller presents an account it was given, however old.  A legacy revoke
\* goes by the user name and takes back every grant of the access.
StartRevoke(w) ==
    \E r \in hist.accounts :
        /\ StartCall(w, [Idle EXCEPT !.pc = "rUser", !.access = r.access,
                                     !.calm = ~Disturbed(r.access),
                                     !.id = IF RootOf[r.access] = 0 THEN 0 ELSE r.id])
        /\ hist' = [hist EXCEPT !.given =
                      {g \in @ : g.access # r.access \/ (g.id # r.id /\ RootOf[r.access] # 0)}]

\* GetUserByName.  The user is deleted only if it is the one recorded.
RevokeUser(w) ==
    /\ At(w, "rUser")
    /\ Move(w, IF ~Legacy(w) THEN [work[w] EXCEPT !.own = (User(w) = work[w].id), !.pc = "rList"]
               ELSE [work[w] EXCEPT !.id = User(w), !.own = User(w) # 0,
                                    !.pc = IF User(w) = 0 THEN "rBucket" ELSE "rList"])

RevokeKeys(w) ==
    \/ ListKeys(w, "rList", "rDrop", Go(w, "rBucket"))
    \/ DropKeys(w, "rDrop", [work[w] EXCEPT !.todo = {}, !.pc = "rBucket"])

\* What a revoke has left to do: policy, ACL, user.
Onward(call) ==
    [call EXCEPT !.pc = IF call.pol THEN "rPolicy" ELSE IF call.dir THEN "rAcl"
                        ELSE IF call.own THEN "rDelUser" ELSE "rDone"]

\* Faulty: no registered bucket, so nothing but the user is cleaned up.
RevokeRegisteredBucket(w) ==
    \/ /\ At(w, "rBucket")
       /\ Move(w, IF bucket.open THEN [work[w] EXCEPT !.pol = TRUE, !.pc = "rAttrs"]
                  ELSE Onward(work[w]))
    \/ /\ At(w, "rAttrs")
       /\ Move(w, Onward([work[w] EXCEPT !.dir = bucket.root # 0]))

\* GetBucket, and for a handle with a recorded root FileAttributes: a replaced
\* or missing bucket or directory is left alone.
RevokeBucket(w) ==
    \/ /\ At(w, "rBucket") /\ ~Legacy(w)
       /\ Move(w, [work[w] EXCEPT !.pol = bucket.open, !.pc = "rAttrs"])
    \/ /\ At(w, "rBucket") /\ Legacy(w)
       /\ Move(w, Onward([work[w] EXCEPT !.pol = bucket.open, !.dir = bucket.open /\ work[w].own]))
    \/ /\ At(w, "rAttrs")
       /\ LET same == bucket.root = RootOf[work[w].access]
          IN  Move(w, Onward([work[w] EXCEPT !.pol = @ /\ same, !.dir = same]))

\* RemoveStatementForAuthID; RemoveStatement for a legacy handle.
WithoutStatement(w) ==
    [work[w].stmts EXCEPT ![work[w].access] =
        IF Legacy(w) \/ @.id = work[w].id THEN Nobody ELSE @]

\* The policy is written whether or not the statement was there.
RevokePolicy(w) ==
    LET then == Onward([Cleared(w) EXCEPT !.pol = FALSE])
    IN  \/ GetPolicy(w, "rPolicy", "rPutPolicy")
        \/ /\ At(w, "rPutPolicy")
           /\ PutPolicy(w, WithoutStatement(w),
                        [ok |-> then, missing |-> then,
                         stale |-> Again(w, "rPolicy", PolicyAttempts, Idle), lost |-> work[w]])
           /\ UNCHANGED hist

\* RevokeDirectoryAccess.
RevokeAcl(w) ==
    LET then == Onward([Cleared(w) EXCEPT !.dir = FALSE])
    IN  \/ /\ At(w, "rAcl") /\ AclMuFree(w)
           /\ Move(w, IF bucket.root = 0 \/ EntriesOf(work[w].id, acl.entries) = {} THEN then
                      ELSE [work[w] EXCEPT !.pc = "rPutAcl", !.etag = acl.etag,
                                           !.entries = acl.entries])
        \/ /\ At(w, "rPutAcl")
           /\ PutAcl(w, work[w].entries \ EntriesOf(work[w].id, work[w].entries),
                     [ok |-> then, missing |-> then,
                      stale |-> Again(w, "rAcl", AclAttempts, Idle), lost |-> work[w]])
           /\ UNCHANGED hist

RevokeDelUser(w) ==
    /\ At(w, "rDelUser")
    /\ Send(w, [op |-> "dropUser", access |-> work[w].access, id |-> work[w].id],
            [ok |-> Go(w, "rDone"), missing |-> Go(w, "rDone"), lost |-> Idle])
    /\ UNCHANGED hist

RevokeReturns(w) ==
    /\ At(w, "rDone")
    /\ work' = [work EXCEPT ![w] = Idle]
    /\ hist' = IF work[w].id = 0 \/ ~work[w].calm THEN hist
               ELSE [hist EXCEPT !.revoked = @ \cup {[access |-> work[w].access, id |-> work[w].id]}]
    /\ UNCHANGED <<core, late, count>>

(***************************************************************************)
(* Failures                                                                *)
(***************************************************************************)

\* A call fails for good and the handler returns an error, or its process
\* crashes.  A grant that has asked for a key cleans up first, unless it
\* crashes; the cleanup itself may fail too.
RequestFails(w) ==
    \/ ~At(w, "idle") /\ Move(w, Idle)
    \/ At(w, "gKey") /\ Move(w, Go(w, "cList"))
    \/ work[w].pc \in {"gPolicy", "gPutPolicy", "gAcl", "gPutAcl"} /\ Move(w, Undo(w))

\* The caller gives up waiting, and may retry, while its grant still cleans up.
CallerLeaves(w) ==
    /\ work[w].pc \in CleanPoints /\ ~work[w].left
    /\ Fault
    /\ work' = [work EXCEPT ![w].left = TRUE]
    /\ UNCHANGED <<core, late, hist>>

GrantStep(w) ==
    \/ StartGrant(w) \/ GrantBucket(w) \/ GrantAttrs(w) \/ GrantUser(w) \/ GrantLookup(w)
    \/ GrantRotate(w) \/ GrantKey(w) \/ GrantPolicy(w) \/ GrantAcl(w)
    \/ GrantReturns(w) \/ Cleanup(w)

RevokeStep(w) ==
    \/ StartRevoke(w) \/ RevokeUser(w) \/ RevokeKeys(w) \/ RevokeBucket(w)
    \/ RevokePolicy(w) \/ RevokeAcl(w) \/ RevokeDelUser(w) \/ RevokeReturns(w)

Next == \/ \E w \in Workers : GrantStep(w) \/ RevokeStep(w) \/ RequestFails(w) \/ CallerLeaves(w)
        \/ LateWrite \/ OperatorDeletesUser \/ BucketDeleted

Spec == Init /\ [][Next]_vars

(***************************************************************************)
(* Properties                                                              *)
(***************************************************************************)

\* A grant that returned gives what it says: the user lives, the secret is a
\* key of it, and policy and ACL name it with exactly the mode asked for.
\* Other accesses, retries, delayed revokes of an earlier user of that name
\* and lost answers do not undo it (driver.go:609, driver.go:646,
\* driver.go:653).  Excepted are what operators remove, writes of earlier
\* calls of the access still under way, a cleanup that outlived its caller, and
\* a call of another access that had read the bucket before it had a policy
\* and writes its own without If-Match (policy.go:94, policy.go:131).
CredentialsWork ==
    \A g \in hist.given :
        bucket.open /\ g.calm /\ ~g.blind /\ g.id \notin hist.removed =>
            /\ users[g.access] = g.id
            /\ [id |-> g.key, owner |-> g.id] \in keys
            /\ policy.stmts[g.access] = [id |-> g.id, mode |-> g.mode]
            /\ EntriesOf(g.id, acl.entries) = {[id |-> g.id, mode |-> g.mode]}

\* A revoke that returned leaves nothing of the identity it was for: no user,
\* no key, no statement, and no entry on the directory it knows, even when
\* other calls change policy and ACL meanwhile (driver.go:758, driver.go:803,
\* driver.go:812).
RevokedIsGone ==
    \A r \in hist.revoked :
        /\ r.id \notin Live
        /\ KeysOf(r.id) = {}
        /\ bucket.open => policy.stmts[r.access].id # r.id
        /\ bucket.root # 0 /\ (RootOf[r.access] # 0 \/ bucket.open) =>
             EntriesOf(r.id, acl.entries) = {}

\* A write of one call changes the statement of its own access and the entries
\* of its own user only: read-modify-write loses no other grant (policy.go:122,
\* files.go:162).  Only a policy that was read without ETag, when the bucket
\* had none, is written over whatever others have granted since.
OthersUntouched ==
    [][\A w \in Workers :
         work'[w] # work[w] =>
            /\ \/ \A a \in Accesses \ {work[w].access} : policy'.stmts[a] = policy.stmts[a]
               \/ work[w].pc \in {"gPutPolicy", "rPutPolicy"} /\ work[w].etag = 0
            /\ \A e \in (acl.entries \cup acl'.entries) :
                 e.id # work[w].id => (e \in acl.entries <=> e \in acl'.entries)]_vars

\* "Read-modify-write the bucket policy with `If-Match` ETag"
\* (docs/architecture.md:99): no call of another access removes the statement
\* of a grant that returned, the first grants of a bucket included.
StatementsSurvive ==
    \A g \in hist.given :
        bucket.open /\ g.calm /\ g.id \notin hist.removed =>
            policy.stmts[g.access] = [id |-> g.id, mode |-> g.mode]

\* "Rotate driver-owned keys so a retried Grant always returns a usable secret"
\* (driver.go:605): the key a grant returned is a key of Core, as long as
\* nobody asks for the access to be granted again or revoked.
RetryReturnsUsableSecret ==
    \A g \in hist.given : g.id \notin hist.removed => \E k \in keys : k.id = g.key

=============================================================================
