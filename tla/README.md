# A verification model of cosi-driver-qumulo

This directory models the Qumulo storage drivers of the repository: the CSI
driver (`internal/csidriver`), the COSI driver (`internal/driver`) and the REST
client both use (`internal/qumulo`). The modules are written in TLA+, checked
with TLC on small instances and, in part, proved with TLAPS for every value of
the constants.

## The system

Two programs serve Kubernetes sidecars over gRPC and drive a Qumulo cluster
("Core") over REST. Neither program has a database. Core is the only durable
state, and the signed handles that callers keep are the only memory of what was
created. Several controller processes may be alive at once (a leader handoff),
calls are retried by sidecars, and answers get lost.

| Component | State | Operations | What is hard | What makes it correct |
|---|---|---|---|---|
| Request serialisation (`csidriver/driver.go` `lockCreateName`) | map of counted mutexes | lock, unlock of a name or path | entry dropped while someone waits, lock order | exclusion, no leak, no deadlock |
| Volume lifecycle (`driver.go`, `backend.go`, `directories.go`, `nfs.go`, `smb.go`, `tree_delete.go`) | none of its own: directories, quotas, shares, jobs in Core | CreateVolume, DeleteVolume, ControllerExpandVolume | two processes without a common lock, lost answers, late writes, operators, aborted jobs | one volume per name, a volume lives until its deletion is asked for, only its own data is destroyed, deletion is complete, requests return |
| Quota client (`quotas.go`) | quota and ETag in Core | EnsureQuotaAtLeast | retry loop against rivals and late writes | the quota never shrinks, reports stay true |
| Node service (`node.go`, `publish_state.go`, `mount*.go`) | durable publish record and counted target locks of its own; the kernel's mount table | NodePublishVolume, NodeUnpublishVolume | crash between record and mount, overlapping calls, retried unmount, mounts of others | a target shows one publish at a time, every mount has its record, a repeated publish is recognised, answers are true |
| Bucket lifecycle (`internal/driver/driver.go`, `buckets.go`) | none of its own: registrations, directories, policies, quotas, jobs in Core | DriverCreateBucket, DriverDeleteBucket, import | create in up to seven writes, purge in two, names reused, replays | a bucket is configured when reported, grants survive, a purge finishes, no replacement is deleted |
| Bucket access (`internal/driver/driver.go`, `policy.go`, `files.go`, `users.go`, `accesskeys.go`) | users, keys, bucket policy, directory ACL in Core | DriverGrantBucketAccess, DriverRevokeBucketAccess | four stores changed one after the other, read-modify-write, key rotation | a returned key works, a revoked one does not, others keep theirs |
| REST client (`client.go`) | cache of Connections; per Connection a session token and one login in flight | Cache.Get, DoJSON, relogin | which calls are replayed, a login shared by calls that end at different times | no write is applied twice that must not be, Connections and logins are shared, calls return |
| Naming, policy, mount options (`naming.go`, `actions.go`, `mount.go`) | none | pure functions | collisions, round trips | injective, idempotent |
| Configuration, servers, metrics, generated code | | | | wiring, not modelled |

How they interact: the CSI controller holds its key locks around each create and
delete; inside, each REST call is one step against Core. CreateVolume and
ControllerExpandVolume end in the quota client. A deletion claim written into
the description of a share is how one process tells all others that a volume is
being deleted. The COSI driver takes no locks: creates and deletes of a bucket and
grants and revokes of its accesses meet only in Core, where a handle's file ID
and the ETag of a policy tell old from new. Both drivers send everything through
the REST client, whose replay rule (PUT and PATCH again, POST and DELETE never)
decides which late and doubled writes the other models have to survive. The node
service talks to the kernel only.

## Modules

**KeyedLock** models `lockCreateName`. `creates`, `refs`, `owner` are
`Driver.creates`, `createNameLock.refs` and the holder of `createNameLock.mu`;
`ptr` is the variable `lock` each call has captured. Each critical section of
`createMu` is one step (`Lookup`, `Release`); waiting for and giving up
`lock.mu` are steps of their own (`Acquire`, `Unlock`), since the code runs them
outside `createMu`. A handler is its `plan`: the keys it locks, in order. A new
lock is any object nothing refers to, so addresses are reused as a collector
may reuse them.

**CsiVolume** models the three controller handlers. One action is one REST call
together with what the handler does on each answer; the table names the code.

| Actions | Code |
|---|---|
| `StartCreate`, `ListNFS`, `ListSMB`, `CheckDir` | `CreateVolume`, `CheckVolume` |
| `GetDir`, `MakeDir`, `RegetDir`, `ChangeMode` | `EnsureDirectory`, called before and after the claim |
| `Claim`, `PostShare`, `Reclaim`, `FixShare` | `EnsureNFS`/`EnsureSMB`, `ClaimNFSExport`/`ClaimSMBShare` |
| `EnsureQuota`, `ValidDir`, `ValidRes` | quota, `ValidateVolume`, handle returned |
| `StartExpand`, `ExpandValidRes`, `ExpandQuota` | `ControllerExpandVolume` |
| `StartDelete`, `GetAttrs`, `Prepare`, `Tombstone` | `DeleteVolume`, `PrepareVolumeDeletion` |
| `TreeDelete`, `TreeReget`, `Await` | `treeDelete`, `waitForTreeDelete` |
| `Drop`, `DropIfMatch` | `DeleteVolumeResource` |
| `RequestFails` | any error return, a cancelled context, a crash of the process |
| `LateWrite`, `JobEnds`, `JobAborts`, `OperatorReplaces`, `OperatorEdits` | the world |

`dir`, `shares`, `jobs`, `aborted`, `nextId` are Core; they are external and
modelled as the driver relies on them: identifiers are not reused, an export
path or share name has one owner, a write with a stale ETag changes nothing.
`work[w]` holds a handler's position and local variables. A write whose answer
is lost stays in `late`: Core may apply it at any later time, or never. PATCH is
then sent again, as `DoJSON` does, POST and DELETE are not. `hist` records what
callers were told, what was destroyed, and the directories whose mode comes from a
PATCH that arrived late (`stray`); no action reads it except to choose a
handle a caller may present. The settings of a share (hosts, restrictions,
permissions) are one flag, `drift`: an operator may change them, and a create that
claims such a share puts them right with a conditional PATCH (`FixShare`). The
three loops on 412 (settings, deletion claim, removal of the share) have `Rounds`
rounds, after which the request fails (`Retry`). The locks of a process are the ones KeyedLock
describes, abstracted to what they guarantee; two processes share none. A
description is a record: the fingerprint in it is a hash of the specification,
taken to be injective, and the token of a deletion claim one of the handle.
`EnsureDirectory` is modelled for the last component of the path, and
`EnsureQuotaAtLeast` as one step, which QuotaClient justifies.

**QuotaPromise** states what `EnsureQuotaAtLeast` promises: the quota only takes
larger values, each asked for, and a caller is told a value that covers its
request and that has been reached. **QuotaClient** is the loop: GET, then POST or
PUT with If-Match, up to `Attempts` rounds, with lost answers, replayed PUTs and
late writes. `rivals` is a history variable that counts, for each call, the
writes of others and its lost answers. Core answers a quota read with an ETag and
changes it with every write; without ETags the PUT would be unconditional and
the promise would not hold.

**CosiAccess** models grant and revoke for the accesses of one bucket. Again one
action is one REST call and what the handler does on each answer.

| Actions | Code |
|---|---|
| `StartGrant`, `GrantBucket`, `GrantAttrs` | `DriverGrantBucketAccess`, `verifiedBucketRoot` |
| `GrantUser`, `GrantLookup` | `CreateUser`, `GetUserByName` |
| `GrantRotate`, `GrantKey`, `Cleanup` | `rotateKeys`, `CreateAccessKey`, cleanup of a failed grant |
| `GrantPolicy`, `RevokePolicy` | `MutateBucketPolicy` with the upsert or removal of a statement |
| `GrantAcl`, `RevokeAcl` | `GrantDirectoryAccess`, `RevokeDirectoryAccess` under `aclMu` |
| `StartRevoke`, `RevokeUser`, `RevokeKeys`, `RevokeBucket`, `RevokeDelUser` | `DriverRevokeBucketAccess` |
| `RequestFails`, `CallerLeaves` | an error return, a crash, a caller that stops waiting |

`users`, `keys`, `bucket`, `policy`, `acl`, `next` are Core: external, with
identifiers that are not reused, one live user of a name, and an ETag on policy
and ACL that changes with each write. `late` and `work` are as in CsiVolume. A
policy statement and an ACL entry are reduced to the user they name and its mode.
The bucket starts with a policy (ETag 1), or without a policy document (ETag 0), as
imported buckets and those made without `private` may be. A policy that is not
found has no ETag, whether it is the document or the bucket that is missing, and the
PUT after it is unconditional, as in the code. A write that overtakes another
access's first grant in this way is told apart by its missing ETag, and a grant
made while one was under way is marked `blind` (`BlindWrite`). The bucket is
not registered again under its name here; CosiBucket has that case. The COSI
sidecar makes one call at a time for an access (`Quiet`) and calls again after
an error, or while a grant it no longer waits for is still cleaning up (the
cleanup has a context of its own). A grant or revoke that starts while such a
cleanup or a late write of an earlier call can still act is marked not `calm`,
and the properties promise nothing of it: in one process cosi_retry_race shows
what happens. A bucket handle without a recorded root ("legacy") is revoked by name; both kinds are in the instance. Deleting a user
keeps its keys, which is the worse case for a driver that deletes them itself.

**MountOptions** holds the option rules of `mount.go` and `node.go` as operators
on sets of options: `Sane` is what `sanitizedMountFlags` and
`rejectControlledMountOptions` let through, `Base` and `Merge` what a volume is
mounted with, `Acceptable` what `validateExistingMount` asks of a mount it finds.
`Listed` is what the kernel shows of a mount in `/proc/self/mountinfo`; it leaves
out options that name a default, such as `exec`.

**CsiNode** models the node service.

| Actions | Code |
|---|---|
| `Start`, `Acquire`, `Release`, `Unlock` | `lockNodeTarget` and the function it returns |
| `PublishRefused`, `PublishMounted`, `PublishAbsent` | `NodePublishVolume` up to `mergeMountOptions`; `Recognised` is the comparison with the record and the memory |
| `Persist`, `Mount` | `writePublishState`, `platformMounter.Mount` |
| `UnpublishMounted`, `UnpublishAbsent`, `Unmount`, `Forget`, `RemoveTarget` | `NodeUnpublishVolume`, `removePublishState` |
| `LookFails` | `Lookup` of the mount table fails |
| `PodRestarts`, `NodeRestarts`, `AdminUnmounts`, `AdminMounts` | the world |

`targets`, `refs`, `owner`, `memory` are `Driver.targets` and the fields of
`nodeTargetLock`; `record` is the file of `publish_state.go`; `mounts` the stack
of mounts at a target. `Persist`, `Mount`, `Unmount` and `Forget` may report an
error before or after their effect. Calls refused before the lock is taken change
nothing and are left out. Whether a volume ID decodes is a free choice (the key
may have been rotated). The branch for `os.IsNotExist` in `NodeUnpublishVolume`
is dead for the Linux mounter, which wraps the error, and not modelled.
mount(8) is a child of the container and is killed with its context, so no mount
arrives after its call ended. An unpublish takes off the topmost mount only; an
administrator is therefore assumed to mount on an empty target only.

**NodePromise** is what the node service promises of a target: it shows one
publish or none, and another only after that has gone. CsiNode implements it with
`Shown` for its variable.

**CosiBucket** models creates, imports and deletes of the buckets of one name.

| Actions | Code |
|---|---|
| `StartCreate`, `CreateGet`, `CreatePost`, `CreateReget`, `LockDown` | `DriverCreateBucket`, `lockDownLegacy` |
| `GetPolicy`, `PutPolicy` | `MutateBucketPolicy` in `ensureBucketConfig` |
| `PatchBucket`, `QuotaRoot`, `CreateQuota`, `GetQuota`, `UpdateQuota` | the rest of `ensureBucketConfig`: versioning, object lock, `applyQuota` |
| `CreateReturns`, `ImportGet`, `ImportReturns` | `createOK`, `importExistingBucket` |
| `StartDelete`, `DeleteGet`, `DeleteResume`, `DeleteRoot` | `DriverDeleteBucket` up to its first write |
| `AbortUploads`, `DropBucket` | `AbortAllUploads`, `DeleteBucket`, with the second try |
| `LookForJob`, `TreeDelete`, `WaitForTreeDelete`, `DeleteReturns` | `treeDelete`, `waitForTreeDelete` |
| `Abandon` | a read that fails, `ensureFeatures`, a crash |

Core is external: one registration of the name, directories with identities,
quotas and jobs by file ID; all numbers come from one counter and are not reused.
It takes or rejects the field `private` of a create at each request, since it may be
upgraded between two. A write whose answer is lost stays in `late`; PUT and PATCH
may then be sent again (`Replayed`), POST and DELETE are not. The answer to a
conditional write settles its earlier copies, whose ETag is spent. A delete context of an
unmanaged handle becomes "keep", as the code clears the flags of the class. A user
who is granted access, stores an object or begins an upload (one at a time), and an operator who
swaps the directory or registers the free name, with statements in the policy or
without a policy, are steps of the world. `hist`
and the fields `since`, `known` (the registration of the name when a create was called,
if it had a policy document), `calm` of a call are history: no guard reads
them, but callers present handles from `hist.handles`. `calm` marks a create that
met no call, late write or operator asking for something else; only such a
create is held to ReadyIsConfigured, since two classes that fight over one name
have no right outcome. The fallback for a Core that returns no path for a bucket
is left out.

**RestClient** models `client.go`.

| Actions | Code |
|---|---|
| `Call`, `Lookup`, `Dial` | a call takes its Connection by `Cache.Get` |
| `Authorize`, `Relogin`, `Login`, `LoginDone`, `Wait` | `authorize`, `relogin`, `doLogin` |
| `Served`, `Unauthorized`, `Lost`, `Cancelled`, `Backoff` | an attempt of `DoJSON` and what follows it |
| `SessionEnds`, `CallerLeaves` | the world |

The order of `cache` stands for the times an entry was seen; the second look of
`Cache.Get` does not renew it, as in the code. A request that is lost, or
answered 429 or 5xx, was applied or was not; unlike in the other modules this is
settled at once, since here only the number of times matters. A waiter takes the
leader's error for its own even if only the leader's caller had gone: the code
does so and no property forbids it. A token without a password fails on 401.

The MC modules only give constants their values. Operators marked
"Faulty" are plausible wrong versions of the definition after them, each breaking
one property; no specification uses them.

## Runs

| Run | Question | Bounds |
|---|---|---|
| keyed_lock | Do the locks exclude, without leak or deadlock? | three handlers, two names sharing one path and a delete of that path, three lock objects: enough for a dropped lock to be reallocated under another key while a third handler waits |
| csi_one_controller | With the key locks, are names unique, volumes configured, only requested data destroyed, and does each request return? | four specifications of one name (another mode and retained data, another export prefix, another protocol), two handlers, three requests, one lost answer that may be applied late, one replaced directory, one edited share, one aborted job, two rounds where the code has 3. An edit or a late write between read and write makes a 412, so the loops are repeated; both together exhaust the loop of the deletion claim |
| csi_two_controllers | Without common locks, does the claim on the share protect volumes? | two processes, two specifications of one name and path, five requests (create, delete, create, and two that interfere), one lost answer that may be applied late, one edited share, three rounds as in the code |
| csi_prefix_race | Is a name unique across processes? **Violated** | two requests |
| csi_stale_winner | Does a claim protect the mode across processes? **Violated** | four requests |
| quota_client | Does the loop keep QuotaPromise, and end? | two callers in turn, four limits, four rounds (the code's number), four calls and one lost answer: enough to exhaust the rounds |
| cosi_access | Do grants and revokes of two accesses keep out of each other's way over four stores? | two processes, two accesses (one legacy, one whose mode may change), three calls, one fault of any kind (a lost answer applied late, an abandoned cleanup, an operator's act), and two attempts where the code has 8 (policy) and 4 (ACL), so that the loops are also exhausted |
| csi_node | Do overlapping calls, failures and restarts keep records, mounts, memory and answers together? | two goroutines, one target, two lock objects; four requests: two volumes at one export, and an SMB share with an unlisted option, a replaced value or a refused flag; an administrator's equal mount and a subtree mount. One target is enough: targets share only the map, and a released lock object may be reused for it |
| cosi_bucket | Are buckets configured when reported, and is only what a handle names deleted? | two workers, three calls, one fault of any kind; a class with everything, one with other values, and the import; home and away path; two policy attempts where the code has 8. Three calls are a create, a delete and a second create or delete of the name; 2.8 million states |
| rest_client | How often is a request applied, who logs in, does each call return? | two goroutines, three calls, a cache of one Connection (so that eviction happens), two retries where the code has 5, two faults |
| cosi_retry_race | Does a retried grant always return a usable secret? **Violated** | two calls for one access |
| cosi_first_grants | Does no call remove another access's statement? **Violated** | one process, one grant for each of two accesses, no fault |

Bounds on requests, losses, replacements, edits and aborts are guards named in the
modules. When the requests are used up the system stops, so deadlock is not
checked in the CSI controller, COSI, quota and client runs; in keyed_lock and
csi_node, where calls go on arriving, it is. An operator who swaps
directories can of course take a volume away, so VolumesSurvive is checked
without one, and DestroyedOnRequest with one. Workers are symmetric in the COSI runs: no
definition distinguishes two of them, and only safety is checked there.

What the violated runs show:

* **csi_prefix_race.** CheckVolume says a name cannot be reused for another
  export prefix. The check and the claim are separate calls, and the claim is on
  the export path, which differs. Two processes hand out two handles for one
  directory; deleting either destroys the data of both.
* **csi_stale_winner.** The mode is applied only after the claim is won, so that a
  loser cannot change the winner's directory. A winner that is delayed until its
  volume is deleted (data kept) and recreated by the other process still can: the
  mode is set by path and the identity compared after it.
* **cosi_retry_race.** A comment in the grant says that keys are rotated so that a
  retried grant always returns a usable secret. When an attempt to create the key
  fails, the handler deletes *all* keys of the user, in a context that outlives
  the caller's. A retry that overlaps this cleanup has its new key listed and
  deleted, and returns a dead secret. After a later failure only the attempt's own
  key is deleted, and this does not happen.
* **cosi_first_grants.** `docs/architecture.md` says the policy is read, modified and
  written with `If-Match`. A bucket without a policy document is read without ETag,
  and `putBucketPolicy` then sends no condition. Of two first grants that both read
  the bucket in this state the later PUT replaces the earlier one's document; the
  earlier grant has returned, and its credentials have no statement. The ETag
  protects a bucket from its first policy on, which the lock-down of
  `ensureBucketConfig` writes; an imported bucket has none before its first grant.

Two more disagreements have no run. `docs/csi.md` (line 271) says DeleteVolume
removes the share first; the code marks it with a claim, deletes the data and removes
the share last, and the claim is what keeps concurrent creates away. And a comment in
`ensureBucketConfig` (`driver.go:292`) says that a policy with grants is never touched:
a create that adopts a bucket without policy document reads no ETag, and its
unconditional PUT overwrites a grant made after the read. GrantsSurvive therefore
speaks of buckets that had a policy document when the create was called.

### Fairness

KeyedLock: a started goroutine keeps running (weak fairness) and `sync.Mutex`
hands the lock to a starved waiter (strong fairness on `Acquire`). CsiVolume:
handlers run on, and Core ends each tree-delete job (weak fairness on
`JobEnds`). QuotaClient: a call whose requests are answered runs on. Nothing is
assumed of callers, operators, losses or failures. CsiNode: a handler runs
on, since mount(8), umount(8) and file operations end, the first two at the latest
with kubelet's deadline (weak fairness on each of its steps), and as in KeyedLock
`Acquire` is strongly fair; nothing is assumed of restarts, so EveryCallReturns
holds however often the pod stops. RestClient: a goroutine that can run does; a
request ends within the client's timeout of 30 seconds. CosiAccess and CosiBucket
state no fairness, as only safety is checked of them.

## Proofs

**KeyedLockProofs**, for any finite set of goroutines and any keys, plans and
lock objects: `TypeCorrect`, `NamesAndPathsAreExclusive`, `MapHoldsLocksInUse`.
MutualExclusion alone is not inductive: that two handlers of one key meet at the
same mutex needs that the map entry lives as long as any of them refers to the
lock. The invariant therefore says that a handler's pointer for a key is the map's
entry, that an entry's count is the number of handlers that refer to it, that an
object serves one key, and that the owner of a mutex is the handler inside.
The one counting argument (a reference count of 1 means there is no other user)
rests on the cardinality theorems of finite sets.

**QuotaProofs**, for any callers, limits and bounds: `QuotaTypeCorrect`,
`NoWriteShrinks`, `ReportsStand`, `LoopKeepsPromise` (each step of the loop is a
step of QuotaPromise or a stutter) and `RetriesAreCaused`. WritesGrow speaks only
of writes whose ETag is current; it becomes inductive with NoFutureTags, which
keeps an old write from becoming current again.

**CsiNodeProofs**, for any finite set of goroutines and any targets, requests,
foreign mounts and lock objects: `NodeTypeCorrect`, `TargetsAreExclusive`,
`MapIsKept`, `RecordsCoverMounts`, `AnswersAreTrue`, `NodeKeepsPromise` and
`RetriesAreAccepted`. None of the invariants stands alone. That a publish does not
mount over another needs that the target stays bare between `Lookup` and mount(8),
which needs exclusion, which needs that the map keeps the entry while anyone
refers to its lock, so the counting argument of KeyedLock returns; here the entry
must also stay while the lock remembers a published target. `IInv` joins the four:
lock bookkeeping (`Distinct`, `Counted`, `Kept`, `Remembered`), a conjunct per
goroutine on what its control point knows (`WorkerOK`), and one per target on
record, memory and mounts (`TargetOK`). The refinement maps each step to a step of
NodePromise or a stutter. `RetriesAreAccepted` rests on `AcceptsOwnMount`: whatever
flags pass `Sane`, what `Merge` mounts and the kernel lists satisfies `Acceptable`.

**RestClientProofs**, for any goroutines, credentials, requests and bounds:
`ClientTypeCorrect`, `UnsafeCallsAreSentOnce`, `CallsShareLogins`. SentOnce
speaks of finished calls too; inductive is that an unsafe request under way has
not been applied at all (`OnceInv`). For CallsShare, `UsesInv` says that the
Connection of a call in progress is the cached one of its key or has been evicted,
and `FlightInv` that a login in flight and the call that leads it determine each
other; the count of leaders follows by the cardinality of a singleton. Both need
the sequences typed (`TypeInv`).

**CsiVolumeProofs** and **CsiVolumeSafety**, for any workers, processes,
specifications and bounds. Alone, none of the properties is inductive: what a
handler does depends on what it read some steps ago, and a write arrives when its
handler may be long gone. `Base` therefore joins four things: Core is in order
(`CoreOK`: identifiers have one meaning, what callers were told is true), what is
known of each write under way (`MsgOK`: a conditional DELETE is bound to an ETag
whose share nobody uses or that is spent, a tree-delete job to a directory that a claim covers),
what is known of each handler at its point (`LocalOK`), and the types. Whatever is
known must be stable under all other actors; `Evolves` collects what no step
undoes, the stability lemmas (`MsgStays`, `LocalStays`) follow from it once, and
each action is left with what it does itself. From `Base` alone follow `Typing`,
`DestroyedForItsHandle` and `DeletedLeavesNothing`. The theorems of
CsiVolumeSafety need more of the world, and each hypothesis is needed, as TLC
shows on instances without it:

| Theorem | Hypotheses | Without them |
|---|---|---|
| `JobsAreClaimed` | no operator (`MaxReplaced = 0`) | two processes, five requests, one directory moved away and replaced |
| `ReturnedVolumesIntact` | `OneLabelPerPath` | two processes, a specification with another export prefix (csi_prefix_race): the other's deletion takes the directory |
| `LiveVolumesSurvive` | `OneLabelPerPath`, `MaxReplaced = 0` | the same, or the operator takes the volume away |
| `NamesAreUnique` | `SingleProcess` | csi_prefix_race |
| `VolumesAreConfigured` | `SingleProcess` | csi_stale_winner |

`OneLabelPerPath` says that specifications with one directory have one protocol and
one share label, as they do when the deployment has one StorageClass for a name;
csi_two_controllers satisfies it and `MaxReplaced = 0`. `SingleProcess` holds in
csi_one_controller. Answers may be lost in every theorem. What VolumesConfigured
leaves open is one case: the PATCH of the mode is addressed by path, and a copy
that Core applies after its sender gave up may meet the directory of a later volume;
such a directory is in `hist.stray` until an answered PATCH sets its mode again.
The quota has no exception, since it only grows. In one process the argument is another
one: the locks of a name and of a path make a create and what CheckVolume read one
step for the other handlers (`CsiVolumeSafety`).

**CosiBucketProofs**, for any workers, paths, classes, numbers of attempts and
bounds, and with every fault of the model: `Typing`, `DeletedLeavesNothing`,
`CreatesSpareGrants`, `NamedIsDropped` and, from a second invariant, `ReadyBuckets`.
`Base` has the same form. A write
of the COSI driver names the bucket, not the registration, so what makes a late one
harmless is (`Harmless`) for a policy write, the ETag of a policy without
statements, or, without an ETag, that the bucket had no policy document when the
create was called; (`Droppable`) for a DELETE, that the bucket of that name is now the one the
handle names, or it, or the directory at its path, came after the call; for a
tree-delete job, that a purge was asked for with a handle that proves the driver
made the directory. These stay true because Core hands out each number once
(`Evolves`). A delete is done (`Done`) when bucket and directory no longer fit the
handle, and they never fit it again. An action property of a step in which a write
reaches Core needs to know for whom it was sent: each handler's lemma also says
that at most one write commits, the worker's own (`OneWrite`).

CreatesSpareGrants holds because a document, once written, does not go away before
the bucket does: a create that was called when the registered bucket had one reads an
ETag, or finds the bucket gone, and then its write meets that registration no more.
A bucket without document has no such protection (the hazard at `policy.go:131`), whoever made it.

`ReadyBuckets` states ReadyIsConfigured. Its invariant `Config` (`Configured`) follows a
create that is calm: no operator acted during it, and every other call, and every
write that may still arrive, agrees with it (`Agreed`), that is, asks for the same
class or is an import. What such a create has reached at each of its points is
`Settled`: what it read of the bucket still holds or has been improved upon, and what
it has set, or found set, is there. Calls that agree never undo any of it (`Kept`):
a late PUT of the versioning or a late PATCH of the quota writes the same value, a
late policy write closes the bucket or fails on its ETag, and nobody deletes. After
the return the same is kept for the bucket reported Ready (`ReadyOK`) until a call
that asks for something else, or an operator, ends its claim.

**CosiAccessProofs**, for any workers, processes, accesses, modes, limits and bounds:
`Belonging`, `Typing`, `GrantsAreSeparate`, `RevokedLeavesNothing` and
`CredentialsHold`, in two layers. `Base(o)` is the first: `o` maps a user ID to the
access whose user it is, a number Core will hand out to whatever the proof chooses
when it does (`NextOwner`). Writes name numbers only; with `o` one can say whose they
are, and that a policy or ACL write under a current ETag differs from what Core has in
what it says of its own access only (`PolicyFor`, `AclFor`). From it follow the
types, `OthersUntouched`, and that the write of one access, however late, leaves the
others' user, keys, statement and entries (`CommitElsewhere`). A policy write
without ETag is the exception: `Base` says of it that it was prepared for the empty
policy, and `OthersUntouched` excepts it. For CredentialsWork a layer of its own
(`NoBlind`) shows that no such write appears once the bucket has a document: whoever
reads then has an ETag, so a grant that is not `blind` when its policy is written
never meets one.

The second layer, `Kept`, is about one access at a time. A call that started
undisturbed acts `Alone`: no other call of its access is under way, and a late write
of that access which Core would still accept is one the call itself sent and says what
the call is about to write. What such a call has achieved at its control point
(`Granted`, `Revoked`) therefore stays. After the return `GoneOK` and `GivenOK` are
kept beside later calls of the access, which may be disturbed: no grant in progress uses
the revoked user, no late write names it; the only calls beside a valid grant are
revokes of an earlier user of the name. RevokedIsGone and CredentialsWork are the parts
of `GoneOK` and `GivenOK` that speak of Core.

The assumptions are those of the modules: positive limits and bounds, a finite
set of goroutines, a handler locking each key once, foreign mounts that are not
requests, requests, credentials, specifications and classes of the right form (at
least one of each where a default is chosen), an access and a mode for it (a bucket
access has a class whose accessMode has a value), a root file ID recorded or not, and a value for the place of a directory
that is at none of the paths (`"elsewhere"`).

With these every type invariant, safety invariant and safety action property of the
passing runs is a theorem. Only model-checked: every liveness property
(EveryHandlerReturns, EveryRequestReturns, and EveryCallReturns of three modules),
since liveness under fairness is outside the prover's reach.

## Not modelled, and the plan

* Strings: parsing, validation and encoding of handles, parameters, credentials
  and endpoints (`naming.go`, `actions.go`, `config.go`, `handle.go`); bucket and
  user names with their truncation and hashes; wire formats. Their properties are
  about characters, and the unit tests enumerate them. The models take a handle
  for the record of what it says, and hashes for injective.
* Controller: the capacity limit of a request, SMB v3 preview calls, directories
  above the last component.
* Node: the Windows and test mounters, files of SMB credentials beyond their
  failure to be written, statistics.
* COSI: the change of an S3 root directory's restore mode, the lookup of groups,
  several bucket names; the steps of a grant while its bucket is replaced (a grant
  is one step of CosiBucket, and CosiAccess has one registration); a key that Core
  creates after the grant's answer was lost and its cleanup has ended (a leaked key
  that the next grant rotates away).
* REST client: URLs, TLS, headers, the decoding of errors, paging, and the memo
  of the version and the S3 settings.
* Logging, metrics, servers, process configuration; generated code, deployment
  manifests and the test double.

What remains worth doing, in this order:

1. An abstract table of grants that CosiAccess implements.
2. The composition of CosiAccess with CosiBucket, for a bucket replaced under a grant.
