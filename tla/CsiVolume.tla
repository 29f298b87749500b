------------------------------ MODULE CsiVolume ------------------------------
(***************************************************************************)
(* CreateVolume, DeleteVolume and ControllerExpandVolume of the CSI        *)
(* controller (internal/csidriver/driver.go, backend.go) against a Qumulo  *)
(* cluster ("Core"), with several controller processes serving requests at *)
(* the same time.                                                          *)
(*                                                                         *)
(* One step of a handler is one REST call and what the handler does with   *)
(* its answer.  A handler keeps nothing but local variables, so a crash of *)
(* its process is a failure of every request it serves (RequestFails).     *)
(*                                                                         *)
(* Core is external: it is modelled as the driver relies on it.  Directory *)
(* and share identifiers are never reused, an export path or share name    *)
(* has one owner, a conditional write with a stale ETag changes nothing.   *)
(* A write whose answer does not arrive stays in "late": Core may apply it *)
(* at once, long after the handler has given up, or never.                 *)
(*                                                                         *)
(* The settings of a share (restrictions, permissions) are one flag,       *)
(* "drift": they are no longer those of its specification.  An operator    *)
(* may change them; one who edits paths or descriptions is not modelled.   *)
(***************************************************************************)
EXTENDS Naturals, FiniteSets

CONSTANTS
    Workers,     \* goroutines serving a request
    ReplicaOf,   \* worker -> the controller process it runs in
    Specs,       \* the CreateVolume specifications callers use
    Opts,        \* spec -> the volumeOptions it parses to
    ExpandTo,    \* capacity that ControllerExpandVolume asks for
    Rounds,      \* rounds of a loop on 412; 3 in the code
    MaxRequests, \* bound: requests started
    MaxLost,     \* bound: writes whose answer is lost
    MaxReplaced, \* bound: directories an operator replaces
    MaxAborted,  \* bound: tree-delete jobs that Core aborts
    MaxEdited    \* bound: shares whose settings an operator changes

ASSUME OptsAssumption ==
    /\ Specs # {}
    /\ \A s \in Specs :
         /\ Opts[s].proto \in {"nfs", "smb"}
         /\ Opts[s].deleteData \in BOOLEAN
         /\ Opts[s].cap \in Nat   \* 0: quotaEnabled is false
         /\ Opts[s].mode \in Nat \ {0}

ASSUME BoundsAssumption ==
    /\ ExpandTo \in Nat \ {0} /\ Rounds \in Nat \ {0}
    /\ MaxRequests \in Nat /\ MaxLost \in Nat
    /\ MaxReplaced \in Nat /\ MaxAborted \in Nat /\ MaxEdited \in Nat

(***************************************************************************)
(* Values                                                                  *)
(***************************************************************************)

Paths == {Opts[s].path : s \in Specs}

\* The name under which Core holds the protocol resource of a volume: the
\* export path for NFS, the share name for SMB.
Label(s) == IF Opts[s].proto = "nfs" THEN Opts[s].export ELSE Opts[s].name

Handle == [spec : Specs, dir : Nat, res : Nat]

\* Descriptions.  The fingerprint in a managed description is a hash of the
\* whole specification, the token of a deletion claim one of the handle.
Managed(s) == [kind |-> "managed", of |-> [spec |-> s, dir |-> 0, res |-> 0]]

Deleting(h) == [kind |-> "deleting", of |-> h]

NoDir == [id |-> 0, mode |-> 0, quota |-> 0]

VARIABLES
    dir,       \* path -> directory there, NoDir when there is none
    shares,    \* the NFS exports and SMB shares of Core
    jobs,      \* directory IDs with a running tree-delete job
    aborted,   \* directory IDs whose job Core aborted
    nextId,    \* next identifier Core hands out
    late,      \* writes sent whose answer was lost, not applied yet
    work,      \* worker -> local variables and position of its handler
    count,     \* how often each bounded event has happened
    hist       \* history: what callers have been told, what was destroyed,
               \* directories whose mode comes from a late write (stray)

core == <<dir, shares, jobs, aborted, nextId>>
vars == <<core, late, work, count, hist>>

Idle == [pc |-> "idle", h |-> [spec |-> CHOOSE s \in Specs : TRUE, dir |-> 0, res |-> 0],
         found |-> FALSE, seen |-> 0, etag |-> 0, round |-> 1]

CreatePoints == {"listNFS", "listSMB", "checkDir", "getDir", "mkdir", "regetDir", "chmod",
                 "claim", "post", "reclaim", "fix", "quota", "validDir", "validRes"}

DeletePoints == {"attrs", "prepare", "tomb", "tree", "treeReget", "await", "drop", "dropIf"}

ExpandPoints == {"xValidDir", "xValidRes", "xQuota"}

Write ==
    [op : {"mkdir"}, path : Paths]
    \cup [op : {"chmod"}, path : Paths, mode : Nat]
    \cup [op : {"post"}, spec : Specs]
    \cup [op : {"fix"}, res : Nat, etag : Nat]
    \cup [op : {"tomb"}, h : Handle, etag : Nat]
    \cup [op : {"tree"}, dir : Nat]
    \cup [op : {"drop"}, res : Nat, etag : Nat]

Events == {"requests", "lost", "replaced", "aborted", "edited"}

TypeOK ==
    /\ \A p \in Paths : /\ dir[p].id \in 0..(nextId - 1)
                        /\ dir[p].mode \in Nat /\ dir[p].quota \in Nat
    /\ DOMAIN dir = Paths
    /\ \A r \in shares : /\ r.id \in 1..(nextId - 1)
                         /\ r.spec \in Specs /\ r.etag \in Nat /\ r.drift \in BOOLEAN
                         /\ r.desc.kind \in {"managed", "deleting"}
    /\ \A q, r \in shares : q.id = r.id => q = r
    /\ jobs \subseteq 1..(nextId - 1) /\ aborted \subseteq 1..(nextId - 1)
    /\ jobs \cap aborted = {}
    /\ late \subseteq Write
    /\ \A w \in Workers :
         /\ work[w].pc \in {"idle"} \cup CreatePoints \cup DeletePoints \cup ExpandPoints
         /\ work[w].h \in Handle
         /\ work[w].found \in BOOLEAN /\ work[w].seen \in Nat /\ work[w].etag \in Nat
         /\ work[w].round \in 1..Rounds
    /\ count \in [Events -> Nat]

(***************************************************************************)
(* Core                                                                    *)
(***************************************************************************)

Share(id) == {r \in shares : r.id = id}

Labelled(s) ==
    {r \in shares : Opts[r.spec].proto = Opts[s].proto /\ Label(r.spec) = Label(s)}

DirIds == {dir[p].id : p \in Paths} \ {0}

\* What Core answers to a write to a share under If-Match.
IfMatch(id, etag) ==
    IF Share(id) = {} THEN "missing"
    ELSE IF \A r \in Share(id) : r.etag # etag THEN "stale" ELSE "ok"

\* What Core answers to a write that reaches it now.
Answer(m) ==
    CASE m.op = "mkdir" -> IF dir[m.path] # NoDir THEN "exists" ELSE "ok"
      [] m.op = "chmod" -> IF dir[m.path] = NoDir THEN "missing" ELSE "ok"
      [] m.op = "post"  -> IF Labelled(m.spec) # {} THEN "exists"
                           ELSE IF dir[Opts[m.spec].path] = NoDir THEN "missing" ELSE "ok"
      [] m.op = "fix"   -> IfMatch(m.res, m.etag)
      [] m.op = "tomb"  -> IfMatch(m.h.res, m.etag)
      [] m.op = "tree"  -> IF m.dir \in jobs \cup aborted THEN "exists"
                           ELSE IF m.dir \notin DirIds THEN "missing" ELSE "ok"
      [] m.op = "drop"  -> IfMatch(m.res, m.etag)

NewDir(p) ==
    /\ dir' = [dir EXCEPT ![p] = [id |-> nextId, mode |-> 0, quota |-> 0]]
    /\ nextId' = nextId + 1
    /\ UNCHANGED <<shares, jobs, aborted, hist>>

ShareOf(s) == [id |-> nextId, spec |-> s, desc |-> Managed(s), etag |-> 1, drift |-> FALSE]

\* Faulty NewShare: an identifier handed out twice.
NewShareReusesId(s) ==
    /\ shares' = shares \cup {ShareOf(s)}
    /\ UNCHANGED <<dir, jobs, aborted, nextId, hist>>

NewShare(s) ==
    /\ shares' = shares \cup {ShareOf(s)}
    /\ nextId' = nextId + 1
    /\ UNCHANGED <<dir, jobs, aborted, hist>>

SetShares(new) ==
    /\ shares' = new
    /\ UNCHANGED <<dir, jobs, aborted, nextId, hist>>

\* The effect of a write that Core accepts; answered is false for a late one.
Effect(m, answered) ==
    \/ m.op = "mkdir" /\ NewDir(m.path)
    \/ /\ m.op = "chmod"
       /\ dir' = [dir EXCEPT ![m.path].mode = m.mode]
       /\ hist' = [hist EXCEPT !.stray = IF answered THEN @ \ {dir[m.path].id}
                                         ELSE @ \cup {dir[m.path].id}]
       /\ UNCHANGED <<shares, jobs, aborted, nextId>>
    \/ m.op = "post" /\ NewShare(m.spec)
    \/ /\ m.op = "fix"
       /\ SetShares({IF r.id = m.res THEN [r EXCEPT !.drift = FALSE, !.etag = @ + 1]
                     ELSE r : r \in shares})
    \/ /\ m.op = "tomb"
       /\ SetShares({IF r.id = m.h.res THEN [r EXCEPT !.desc = Deleting(m.h), !.etag = @ + 1]
                     ELSE r : r \in shares})
    \/ /\ m.op = "tree"
       /\ jobs' = jobs \cup {m.dir}
       /\ hist' = [hist EXCEPT !.destroyed = @ \cup {m.dir}]
       /\ UNCHANGED <<dir, shares, aborted, nextId>>
    \/ m.op = "drop" /\ SetShares(shares \ Share(m.res))

Commit(m, answered) ==
    IF Answer(m) = "ok" THEN Effect(m, answered) ELSE UNCHANGED <<core, hist>>

\* A write that was sent before reaches Core now.
LateWrite ==
    \E m \in late :
        /\ Commit(m, FALSE)
        /\ late' = late \ {m}
        /\ UNCHANGED <<work, count>>

\* A tree-delete job ends: the directory is gone, and so is the job.
JobEnds ==
    \E d \in jobs :
        /\ jobs' = jobs \ {d}
        /\ dir' = [p \in Paths |-> IF dir[p].id = d THEN NoDir ELSE dir[p]]
        /\ UNCHANGED <<shares, aborted, nextId, late, work, count, hist>>

\* A job meets an error; GET keeps reporting it with last_error_message.
JobAborts ==
    \E d \in jobs :
        /\ count["aborted"] < MaxAborted
        /\ count' = [count EXCEPT !["aborted"] = @ + 1]
        /\ jobs' = jobs \ {d}
        /\ aborted' = aborted \cup {d}
        /\ UNCHANGED <<dir, shares, nextId, late, work, hist>>

\* Somebody moves the directory away and makes another one at its path.
OperatorReplaces ==
    \E p \in Paths :
        /\ count["replaced"] < MaxReplaced
        /\ dir[p] # NoDir
        /\ count' = [count EXCEPT !["replaced"] = @ + 1]
        /\ dir' = [dir EXCEPT ![p] = [id |-> nextId, mode |-> 0, quota |-> 0]]
        /\ nextId' = nextId + 1
        /\ UNCHANGED <<shares, jobs, aborted, late, work, hist>>

\* Somebody changes the settings of a share.
OperatorEdits ==
    \E r \in shares :
        /\ count["edited"] < MaxEdited
        /\ count' = [count EXCEPT !["edited"] = @ + 1]
        /\ shares' = (shares \ {r}) \cup {[r EXCEPT !.drift = TRUE, !.etag = @ + 1]}
        /\ UNCHANGED <<dir, jobs, aborted, nextId, late, work, hist>>

(***************************************************************************)
(* Handlers: common parts                                                  *)
(***************************************************************************)

At(w, p) == work[w].pc = p

Spec(w) == work[w].h.spec

Path(w) == Opts[Spec(w)].path

Go(w, p) == [work[w] EXCEPT !.pc = p]

\* After a 412: the next round reads again at p, the last one is an error.
Retry(w, p) ==
    IF work[w].round < Rounds THEN [Go(w, p) EXCEPT !.etag = 0, !.round = @ + 1] ELSE Idle

\* A read of Core: the handler goes on, nothing else changes.
Read(w, next) ==
    /\ work' = [work EXCEPT ![w] = next]
    /\ UNCHANGED <<core, late, count, hist>>

\* A write to Core.  Core answers, or the answer is lost; after[a] is what
\* the handler does on answer a.
Send(w, m, after) ==
    \/ /\ Commit(m, TRUE)
       /\ work' = [work EXCEPT ![w] = after[Answer(m)]]
       /\ UNCHANGED <<late, count>>
    \/ /\ count["lost"] < MaxLost
       /\ count' = [count EXCEPT !["lost"] = @ + 1]
       /\ late' = late \cup {m}
       /\ work' = [work EXCEPT ![w] = after["lost"]]
       /\ UNCHANGED <<core, hist>>

Answers == {"ok", "exists", "missing", "stale", "lost"}

\* The locks of one process: "name" and "path" for a create, "path" for a
\* delete (module KeyedLock), taken when the handler starts.  Expand has none.
Locking(w) == work[w].pc \in CreatePoints \cup DeletePoints

LocksFree(w, s, creating) ==
    \A v \in Workers \ {w} :
        ReplicaOf[v] = ReplicaOf[w] /\ Locking(v) =>
            /\ Path(v) # Opts[s].path
            /\ creating /\ work[v].pc \in CreatePoints =>
                 Opts[Spec(v)].name # Opts[s].name

StartRequest(w, p, h) ==
    /\ At(w, "idle")
    /\ count["requests"] < MaxRequests
    /\ count' = [count EXCEPT !["requests"] = @ + 1]
    /\ work' = [work EXCEPT ![w] = [Idle EXCEPT !.pc = p, !.h = h]]
    /\ UNCHANGED <<core, late>>

\* Any call may fail for good: transport, credentials, an expired context, the
\* process crashing.  The caller sees an error and may retry.
RequestFails(w) ==
    /\ ~At(w, "idle")
    /\ Read(w, Idle)

(***************************************************************************)
(* CreateVolume                                                            *)
(***************************************************************************)

StartCreate(w) ==
    \E s \in Specs :
        /\ LocksFree(w, s, TRUE)
        /\ StartRequest(w, "listNFS", [spec |-> s, dir |-> 0, res |-> 0])
        /\ UNCHANGED hist

\* managedVolumeName: the volume a managed description names, if it is one.
ManagedName(r) == IF r.desc.kind = "managed" THEN {Opts[r.desc.of.spec].name} ELSE {}

\* Faulty Related: only the export path or share name is looked at.
RelatedByLabel(r, s) == Opts[r.spec].proto = Opts[s].proto /\ Label(r.spec) = Label(s)

\* A share that CheckVolume does not skip.
Related(r, s) ==
    \/ Opts[s].name \in ManagedName(r)
    \/ Opts[r.spec].proto = "nfs" /\ Opts[r.spec].export = Opts[s].export
    \/ Opts[r.spec].proto = "smb" /\ Opts[r.spec].name = Opts[s].name
    \/ Opts[r.spec].path = Opts[s].path

\* Faulty ExactMatch: the description is not compared.
ExactMatchAnyDescription(r, s) ==
    /\ Opts[r.spec].proto = Opts[s].proto
    /\ Label(r.spec) = Label(s)
    /\ Opts[r.spec].path = Opts[s].path

ExactMatch(r, s) ==
    /\ Opts[r.spec].proto = Opts[s].proto
    /\ Label(r.spec) = Label(s)
    /\ Opts[r.spec].path = Opts[s].path
    /\ r.desc = Managed(s)

\* CheckVolume reads the exports, then the shares, and refuses a name or path
\* that is in use with other parameters.
ListShares(w, pc, proto, next) ==
    LET related == {r \in shares : Opts[r.spec].proto = proto /\ Related(r, Spec(w))}
    IN  /\ At(w, pc)
        /\ IF \A r \in related : ExactMatch(r, Spec(w))
           THEN Read(w, [Go(w, next) EXCEPT !.found = @ \/ related # {}])
           ELSE Read(w, Idle)

ListNFS(w) == ListShares(w, "listNFS", "nfs", "listSMB")

ListSMB(w) == ListShares(w, "listSMB", "smb", "checkDir")

\* A share of this very specification: a retry, whose directory must exist.
CheckDir(w) ==
    /\ At(w, "checkDir")
    /\ IF work[w].found /\ dir[Path(w)] = NoDir
       THEN Read(w, Idle)
       ELSE Read(w, Go(w, "getDir"))

\* EnsureDirectory runs twice: before the claim, to have a path to claim, and
\* with the mode after it.  Claimed tells the two calls apart.
Claimed(w) == work[w].h.res # 0

\* Faulty DirSeen: a directory that has a mode already keeps it.
DirSeenKeepsMode(w, id, mode) ==
    IF ~Claimed(w) THEN [Go(w, "claim") EXCEPT !.h.dir = id]
    ELSE IF mode = 0 THEN [Go(w, "chmod") EXCEPT !.seen = id]
    ELSE IF id = work[w].h.dir THEN Go(w, "quota") ELSE Idle

\* The handler has learnt that directory d is at the path, with that mode.
DirSeen(w, id, mode) ==
    IF ~Claimed(w) THEN [Go(w, "claim") EXCEPT !.h.dir = id]
    ELSE IF mode # Opts[Spec(w)].mode THEN [Go(w, "chmod") EXCEPT !.seen = id]
    ELSE IF id = work[w].h.dir THEN Go(w, "quota") ELSE Idle

GetDir(w) ==
    /\ At(w, "getDir")
    /\ IF dir[Path(w)] = NoDir
       THEN Read(w, Go(w, "mkdir"))
       ELSE Read(w, DirSeen(w, dir[Path(w)].id, dir[Path(w)].mode))

MakeDir(w) ==
    /\ At(w, "mkdir")
    /\ Send(w, [op |-> "mkdir", path |-> Path(w)],
            [a \in Answers |-> IF a = "ok" THEN DirSeen(w, nextId, 0)
                               ELSE Go(w, "regetDir")])

\* A failed create is reconciled by a read.
RegetDir(w) ==
    /\ At(w, "regetDir")
    /\ IF dir[Path(w)] = NoDir
       THEN Read(w, Idle)
       ELSE Read(w, DirSeen(w, dir[Path(w)].id, dir[Path(w)].mode))

\* The mode is set by path; the identity is compared after that.  A PATCH
\* whose answer is lost is sent again.
ChangeMode(w) ==
    /\ At(w, "chmod")
    /\ Send(w, [op |-> "chmod", path |-> Path(w), mode |-> Opts[Spec(w)].mode],
            [a \in Answers |->
                CASE a = "ok" -> IF work[w].seen = work[w].h.dir
                                 THEN [Go(w, "quota") EXCEPT !.seen = 0] ELSE Idle
                  [] a = "lost" -> work[w]
                  [] OTHER -> Idle])

\* ClaimNFSExport and ClaimSMBShare: an existing share with this label is ours
\* only when its description is exactly ours.  Settings that differ are put
\* right first.
ClaimSeen(w, r) ==
    IF r.desc # Managed(Spec(w)) \/ Opts[r.spec].path # Path(w) THEN Idle
    ELSE IF r.drift THEN [Go(w, "fix") EXCEPT !.h.res = r.id, !.etag = r.etag]
    ELSE [Go(w, "getDir") EXCEPT !.h.res = r.id, !.round = 1]

Claim(w) ==
    /\ At(w, "claim")
    /\ \/ Labelled(Spec(w)) = {} /\ Read(w, Go(w, "post"))
       \/ \E r \in Labelled(Spec(w)) : Read(w, ClaimSeen(w, r))

PostShare(w) ==
    /\ At(w, "post")
    /\ Send(w, [op |-> "post", spec |-> Spec(w)],
            [a \in Answers |->
                CASE a = "ok" -> [Go(w, "getDir") EXCEPT !.h.res = nextId]
                  [] a \in {"exists", "lost"} -> Go(w, "reclaim")
                  [] OTHER -> Idle])

\* After a create conflict or a lost answer: the share must be there.
Reclaim(w) ==
    /\ At(w, "reclaim")
    /\ \/ Labelled(Spec(w)) = {} /\ Read(w, Idle)
       \/ \E r \in Labelled(Spec(w)) : Read(w, ClaimSeen(w, r))

\* The PATCH of the settings, with If-Match: 412 leads back to the read.
FixShare(w) ==
    /\ At(w, "fix")
    /\ Send(w, [op |-> "fix", res |-> work[w].h.res, etag |-> work[w].etag],
            [a \in Answers |->
                CASE a = "ok" -> [Go(w, "getDir") EXCEPT !.etag = 0, !.round = 1]
                  [] a = "stale" -> [Retry(w, "reclaim") EXCEPT !.h.res = 0]
                  [] a = "lost" -> work[w]
                  [] OTHER -> Idle])

\* EnsureQuotaAtLeast by directory ID, in one step (module QuotaClient).
GrowQuota(w, cap, next) ==
    IF work[w].h.dir \in DirIds
    THEN /\ dir' = [p \in Paths |->
                      IF dir[p].id = work[w].h.dir /\ dir[p].quota < cap
                      THEN [dir[p] EXCEPT !.quota = cap] ELSE dir[p]]
         /\ work' = [work EXCEPT ![w] = next]
         /\ UNCHANGED <<shares, jobs, aborted, nextId, late, count, hist>>
    ELSE Read(w, Idle)

EnsureQuota(w) ==
    /\ At(w, "quota")
    /\ IF Opts[Spec(w)].cap = 0
       THEN Read(w, Go(w, "validDir"))
       ELSE GrowQuota(w, Opts[Spec(w)].cap, Go(w, "validDir"))

\* ValidateVolume: the directory, then the share by its ID.
ValidDir(w) ==
    \E p \in {<<"validDir", "validRes">>, <<"xValidDir", "xValidRes">>} :
        /\ At(w, p[1])
        /\ IF dir[Path(w)].id = work[w].h.dir
           THEN Read(w, Go(w, p[2]))
           ELSE Read(w, Idle)

ShareValid(h) == \E r \in Share(h.res) : ExactMatch(r, h.spec)

\* The handle is returned to the caller.
ValidRes(w) ==
    /\ At(w, "validRes")
    /\ work' = [work EXCEPT ![w] = Idle]
    /\ hist' = IF ShareValid(work[w].h)
               THEN [hist EXCEPT !.issued = @ \cup {work[w].h}] ELSE hist
    /\ UNCHANGED <<core, late, count>>

(***************************************************************************)
(* ControllerExpandVolume                                                  *)
(***************************************************************************)

StartExpand(w) ==
    \E h \in hist.issued :
        /\ Opts[h.spec].cap # 0
        /\ StartRequest(w, "xValidDir", h)
        /\ UNCHANGED hist

ExpandValidRes(w) ==
    /\ At(w, "xValidRes")
    /\ Read(w, IF ShareValid(work[w].h) THEN Go(w, "xQuota") ELSE Idle)

ExpandQuota(w) ==
    /\ At(w, "xQuota")
    /\ GrowQuota(w, ExpandTo, Idle)

(***************************************************************************)
(* DeleteVolume                                                            *)
(***************************************************************************)

StartDelete(w) ==
    \E h \in hist.issued :
        /\ LocksFree(w, h.spec, FALSE)
        /\ StartRequest(w, IF Opts[h.spec].deleteData THEN "attrs" ELSE "drop", h)
        /\ hist' = [hist EXCEPT !.delReq = @ \cup {h}]

\* The directory at the path must be the one of the handle, or be gone.
\* found records that it is there.
GetAttrs(w) ==
    /\ At(w, "attrs")
    /\ IF dir[Path(w)].id \in {0, work[w].h.dir}
       THEN Read(w, [Go(w, "prepare") EXCEPT !.found = dir[Path(w)] # NoDir])
       ELSE Read(w, Idle)

\* Success is reported to the caller.
Deleted(w) ==
    /\ work' = [work EXCEPT ![w] = Idle]
    /\ hist' = [hist EXCEPT !.deleted = @ \cup {work[w].h}]
    /\ UNCHANGED <<core, late, count>>

\* What follows once the deletion is claimed.
ClaimHeld(w) ==
    [Go(w, IF work[w].found THEN "tree" ELSE "drop") EXCEPT !.etag = 0, !.round = 1]

\* Faulty Prepare: the data is deleted without a claim on the share.
PrepareWithoutClaim(w) ==
    /\ At(w, "prepare")
    /\ Read(w, ClaimHeld(w))

\* PrepareVolumeDeletion reads the share: a missing one is success when the
\* directory is gone too, our own claim is resumed, and a description that is
\* not ours is left alone.
Prepare(w) ==
    /\ At(w, "prepare")
    /\ \/ /\ Share(work[w].h.res) = {}
          /\ IF work[w].found THEN Read(w, Idle) ELSE Deleted(w)
       \/ \E r \in Share(work[w].h.res) :
             Read(w, IF r.desc = Deleting(work[w].h) THEN ClaimHeld(w)
                     ELSE IF r.desc = Managed(Spec(w))
                          THEN [Go(w, "tomb") EXCEPT !.etag = r.etag]
                          ELSE Idle)

\* Faulty Tombstone: after 412 the same PATCH is sent again, with the same ETag.
TombstoneSendsAgain(w) ==
    /\ At(w, "tomb")
    /\ Send(w, [op |-> "tomb", h |-> work[w].h, etag |-> work[w].etag],
            [a \in Answers |-> IF a = "ok" THEN ClaimHeld(w)
                               ELSE IF a = "missing" THEN Idle ELSE work[w]])

\* The PATCH that claims the deletion, with If-Match.  A PATCH that committed
\* but whose answer was lost is sent again, fails with 412 and is read back.
Tombstone(w) ==
    /\ At(w, "tomb")
    /\ Send(w, [op |-> "tomb", h |-> work[w].h, etag |-> work[w].etag],
            [a \in Answers |->
                CASE a = "ok" -> ClaimHeld(w)
                  [] a = "stale" -> Retry(w, "prepare")
                  [] a = "lost" -> work[w]
                  [] OTHER -> Idle])

\* Faulty TreeDelete: empties whatever is at the path now.
TreeDeleteAtPath(w) ==
    /\ At(w, "tree")
    /\ Send(w, [op |-> "tree", dir |-> dir[Path(w)].id],
            [a \in Answers |-> IF a = "missing" THEN Go(w, "drop") ELSE Go(w, "await")])

\* TreeDelete joins a job that exists, else submits one.
TreeDelete(w) ==
    /\ At(w, "tree")
    /\ Send(w, [op |-> "tree", dir |-> work[w].h.dir],
            [a \in Answers |->
                CASE a \in {"ok", "exists"} -> Go(w, "await")
                  [] a = "missing" -> Go(w, "drop")
                  [] OTHER -> Go(w, "treeReget")])

\* After a lost answer only a job that can be seen is waited for.
TreeReget(w) ==
    /\ At(w, "treeReget")
    /\ Read(w, IF work[w].h.dir \in jobs \cup aborted THEN Go(w, "await") ELSE Idle)

\* Faulty Await: a job that was accepted is taken for a job that is done.
AwaitNothing(w) ==
    /\ At(w, "await")
    /\ Read(w, Go(w, "drop"))

\* A job that is gone has completed.
Await(w) ==
    /\ At(w, "await")
    /\ work[w].h.dir \notin jobs
    /\ Read(w, IF work[w].h.dir \in aborted THEN Idle ELSE Go(w, "drop"))

\* Faulty Drop: the share is found by its path or name, not by its ID.
DropByLabel(w) ==
    /\ At(w, "drop")
    /\ \/ Labelled(Spec(w)) = {} /\ Deleted(w)
       \/ \E r \in Labelled(Spec(w)) :
             Read(w, IF r.desc.of.spec = Spec(w)
                     THEN [Go(w, "dropIf") EXCEPT !.etag = r.etag, !.h.res = r.id] ELSE Idle)

\* DeleteVolumeResource reads the share: it must carry our deletion claim, or
\* with deleteData false our managed description.
Drop(w) ==
    LET h == work[w].h
        expected == IF Opts[h.spec].deleteData THEN Deleting(h) ELSE Managed(h.spec)
    IN  /\ At(w, "drop")
        /\ \/ Share(h.res) = {} /\ Deleted(w)
           \/ \E r \in Share(h.res) :
                 Read(w, IF r.desc = expected
                         THEN [Go(w, "dropIf") EXCEPT !.etag = r.etag] ELSE Idle)

\* The conditional DELETE, sent once.
DropIfMatch(w) ==
    LET m == [op |-> "drop", res |-> work[w].h.res, etag |-> work[w].etag]
    IN  /\ At(w, "dropIf")
        /\ \/ /\ Answer(m) \in {"ok", "missing"}
              /\ shares' = shares \ Share(m.res)
              /\ hist' = [hist EXCEPT !.deleted = @ \cup {work[w].h}]
              /\ work' = [work EXCEPT ![w] = Idle]
              /\ UNCHANGED <<dir, jobs, aborted, nextId, late, count>>
           \/ /\ Answer(m) = "stale"
              /\ Read(w, Retry(w, "drop"))
           \/ /\ count["lost"] < MaxLost
              /\ count' = [count EXCEPT !["lost"] = @ + 1]
              /\ late' = late \cup {m}
              /\ work' = [work EXCEPT ![w] = Idle]
              /\ UNCHANGED <<core, hist>>

(***************************************************************************)
(* Specification                                                           *)
(***************************************************************************)

Init ==
    /\ dir = [p \in Paths |-> NoDir]
    /\ shares = {} /\ jobs = {} /\ aborted = {} /\ late = {}
    /\ nextId = 1
    /\ work = [w \in Workers |-> Idle]
    /\ count = [e \in Events |-> 0]
    /\ hist = [issued |-> {}, delReq |-> {}, deleted |-> {}, destroyed |-> {}, stray |-> {}]

CreateStep(w) ==
    \/ ListNFS(w)  \/ ListSMB(w)    \/ CheckDir(w)  \/ GetDir(w)   \/ MakeDir(w)
    \/ RegetDir(w) \/ ChangeMode(w) \/ Claim(w)     \/ PostShare(w) \/ Reclaim(w)
    \/ FixShare(w) \/ EnsureQuota(w) \/ ValidDir(w) \/ ValidRes(w)

ExpandStep(w) == ExpandValidRes(w) \/ ExpandQuota(w)

DeleteStep(w) ==
    \/ GetAttrs(w)  \/ Prepare(w) \/ Tombstone(w) \/ TreeDelete(w)
    \/ TreeReget(w) \/ Await(w)   \/ Drop(w)      \/ DropIfMatch(w)

Advance(w) == CreateStep(w) \/ ExpandStep(w) \/ DeleteStep(w)

External == LateWrite \/ JobEnds \/ JobAborts \/ OperatorReplaces \/ OperatorEdits

Next ==
    \/ \E w \in Workers :
          StartCreate(w) \/ StartExpand(w) \/ StartDelete(w) \/ Advance(w) \/ RequestFails(w)
    \/ External

Behaviour == Init /\ [][Next]_vars

(***************************************************************************)
(* Fairness: a handler that is not waiting for Core runs on, and Core ends *)
(* every tree-delete job.  Nothing obliges callers, operators or losses.   *)
(***************************************************************************)
FairSpec ==
    /\ Behaviour
    /\ \A w \in Workers : WF_vars(Advance(w))
    /\ WF_vars(JobEnds)

(***************************************************************************)
(* Properties                                                              *)
(***************************************************************************)

\* Volumes handed out whose deletion nobody has asked for.
Live == hist.issued \ hist.delReq

\* Those of them that ValidateVolume would accept.
Usable == {h \in Live : dir[Opts[h.spec].path].id = h.dir /\ ShareValid(h)}

\* A volume that was returned to a caller keeps its directory and its share
\* until the caller deletes it: no failing create, no other request's delete,
\* no late write takes them away (driver.go:218, backend.go:248).  An operator
\* who replaces directories by hand can, so this is checked without one.
VolumesSurvive ==
    \A h \in Live :
        /\ h.dir \notin hist.destroyed
        /\ dir[Opts[h.spec].path].id = h.dir
        /\ ShareValid(h)

\* "A request cannot reuse a name for another protocol, export prefix, or
\* backing directory" (backend.go:57): one name, one volume in use.
OneVolumePerName ==
    \A g, h \in Usable : Opts[g.spec].name = Opts[h.spec].name => g = h

\* A tree-delete job runs only while the share carries the deletion claim of
\* a handle for that very directory, so no create can reuse the directory
\* while it is being emptied (backend.go:248).
DeletionIsClaimed ==
    \A d \in jobs : \E r \in shares :
        r.desc.kind = "deleting" /\ r.desc.of.dir = d /\ r.desc.of \in hist.delReq

\* Data is destroyed only on behalf of a handle that names this directory by
\* ID and was created with deleteData, never for a replacement found at the
\* path (driver.go:263).
DestroyedOnRequest ==
    \A d \in hist.destroyed : \E h \in hist.delReq :
        h.dir = d /\ Opts[h.spec].deleteData

\* CreateVolume never returns a volume whose data is being or has been
\* deleted: the share that ValidateVolume reads last carries the deletion
\* claim by then (driver.go:201, backend.go:248).
ReturnedIsIntact ==
    \A w \in Workers :
        At(w, "validRes") /\ ShareValid(work[w].h) => work[w].h.dir \notin hist.destroyed

\* When DeleteVolume reports success nothing of the volume is left, and it
\* does not come back through a write that arrives late (driver.go:266).
DeletedIsGone ==
    \A h \in hist.deleted :
        /\ Share(h.res) = {}
        /\ Opts[h.spec].deleteData => h.dir \notin DirIds

\* A volume that was handed out has the mode of its own specification and a
\* quota no smaller than it asked for, whoever else raced for the name:
\* "Applying the requested mode before winning that claim would let an
\* incompatible request racing during an HA leader handoff chmod the eventual
\* winner's directory" (driver.go:134).  Only a PATCH that nobody had an
\* answer to and that Core applies later can leave another mode there.
VolumesConfigured ==
    \A h \in Usable :
        LET d == dir[Opts[h.spec].path]
        IN  /\ d.mode = Opts[h.spec].mode \/ d.id \in hist.stray
            /\ d.quota >= Opts[h.spec].cap

\* No request waits for ever, whichever answer is lost, whoever edits a share
\* between a read and its conditional write, and also when Core aborts the
\* tree-delete job: after 412 a loop reads again or gives up (backend.go:255,
\* backend.go:350, nfs.go:297), the wait ends with the job (driver.go:266).
EveryRequestReturns == \A w \in Workers : ~At(w, "idle") ~> At(w, "idle")

=============================================================================
