-------------------------- MODULE CsiVolumeSafety ---------------------------
(***************************************************************************)
(* Proofs about CsiVolume: the properties that hold under conditions on    *)
(* the deployment.  Without any one of them TLC finds a counterexample, on *)
(* an instance like those of the runs.                                     *)
(*                                                                         *)
(*   OneLabelPerPath  specifications with the same directory have the same *)
(*                    protocol and label, as with one class per base path; *)
(*   MaxReplaced = 0  no operator moves a directory by hand;               *)
(*   SingleProcess    one process serves all requests.                     *)
(*                                                                         *)
(* StepMoves says what a step may do to Core, StepGoes where it takes a    *)
(* handler.  Each invariant is proved on top of Base from these two:       *)
(* Intact (a share in order means intact data), Standing (a volume nobody  *)
(* has asked to delete is there), OneName (locks, what CheckVolume saw,    *)
(* names) and Configured (mode and quota).                                 *)
(***************************************************************************)
EXTENDS CsiVolumeProofs

\* A handler that waits for the answer sets the mode of the directory at p.
SetsMode(p, mode) ==
    \E w \in Workers : At(w, "chmod") /\ Path(w) = p /\ Opts[Spec(w)].mode = mode

\* The mode stays, or is set by such a handler; any other mode is a stray one.
ModeMoved(p) ==
    \/ /\ dir'[p].mode = dir[p].mode
       /\ dir[p].id \in hist.stray => dir'[p].id \in hist'.stray
    \/ SetsMode(p, dir'[p].mode)
    \/ dir'[p].id \in hist'.stray

\* What a step may do to the directory at a path, to a share, to the jobs and
\* to the set of directories that are destroyed.
DirMoved(p) ==
    \/ dir'[p].id = dir[p].id /\ dir'[p].quota >= dir[p].quota /\ ModeMoved(p)
    \/ dir[p] = NoDir /\ dir'[p].id = nextId
    \/ dir[p].id \in jobs \ jobs' /\ dir'[p] = NoDir
    \/ MaxReplaced # 0 /\ dir'[p].id = nextId

\* The same share, whatever its settings.
Same(q, r) == q.id = r.id /\ q.spec = r.spec /\ q.desc = r.desc

\* What a step may do to Core.
Moved ==
    /\ \A p \in Paths : DirMoved(p)
    /\ \A r \in shares : \/ \E q \in shares' : Same(q, r)
                         \/ r.desc.kind = "deleting"
                         \/ \E h \in hist.delReq : h.res = r.id
    /\ \A q \in shares' : \/ \E r \in shares : Same(q, r)
                          \/ q.id >= nextId
                          \/ q.desc.kind = "deleting"
    /\ \A d \in jobs' : d \in jobs \/ d \in DirIds'
    /\ \A d \in hist'.destroyed :
         \/ d \in hist.destroyed
         \/ d \in DirIds /\ \E h \in hist.delReq : h.dir = d /\ ClaimedBy(h)

\* A step that leaves the directories alone.
LEMMA DirsKept ==
    ASSUME CoreTypes, dir' = dir, hist.stray \subseteq hist'.stray
    PROVE  \A p \in Paths : DirMoved(p)
BY DEF CoreTypes, DirMoved, ModeMoved

\* A step that leaves Core alone.
LEMMA QuietMoves ==
    ASSUME CoreOK, UNCHANGED core, hist'.destroyed = hist.destroyed,
           hist'.stray = hist.stray
    PROVE  Moved
<1>1. \A p \in Paths : DirMoved(p)
  BY DirsKept DEF CoreOK, core
<1> QED
  BY <1>1 DEF Moved, Same, core

\* A write that reaches Core does what Moved allows, and hands out nothing.
LEMMA CommitMoves ==
    ASSUME CoreOK, NEW m \in Write, MsgOK(m), NEW answered, Commit(m, answered),
           m.op = "chmod" /\ answered => SetsMode(m.path, m.mode)
    PROVE  Moved /\ hist'.issued = hist.issued
<1>1. CASE Answer(m) # "ok"
  BY <1>1, QuietMoves DEF Commit
<1> SUFFICES ASSUME Answer(m) = "ok", Effect(m, answered)
             PROVE  Moved /\ hist'.issued = hist.issued
  BY <1>1 DEF Commit
<1> DEFINE NewOnes == \A q \in shares' : \/ \E r \in shares : Same(q, r)
                                         \/ q.id >= nextId
                                         \/ q.desc.kind = "deleting"
<1>0. NewOnes
  <2>1. Evolves
    BY CommitOK
  <2>2. ASSUME NEW q \in shares', ~(q.id >= nextId), q.desc.kind # "deleting"
        PROVE  \E r \in shares : Same(q, r)
    <3>1. \E r \in shares :
             /\ r.id = q.id /\ r.spec = q.spec
             /\ \/ q = r
                \/ /\ q.etag > r.etag
                   /\ \/ q.desc = r.desc
                      \/ Unclaimed(r) /\ q.desc.kind = "deleting"
      BY Zenon, <2>1, <2>2 DEF Evolves
    <3> QED
      BY Zenon, <2>2, <3>1 DEF Same
  <2> QED
    BY <2>2
<1> USE DEF Same
<1>2. CASE m.op = "mkdir"
  <2>1. m.path \in Paths /\ dir[m.path] = NoDir /\ NewDir(m.path)
    BY <1>2 DEF Write, Answer, Effect
  <2>2. /\ dir' = [dir EXCEPT ![m.path] = [id |-> nextId, mode |-> 0, quota |-> 0]]
        /\ UNCHANGED <<shares, jobs, aborted, hist>>
    BY <2>1 DEF NewDir
  <2>3. \A p \in Paths : DirMoved(p)
    BY <2>1, <2>2 DEF DirMoved, ModeMoved, CoreOK, CoreTypes
  <2> QED
    BY <1>0, <2>2, <2>3 DEF Moved
<1>3. CASE m.op = "chmod"
  <2>1. m.path \in Paths /\ dir[m.path] # NoDir
    BY <1>3 DEF Write, Answer
  <2>2. /\ dir' = [dir EXCEPT ![m.path].mode = m.mode]
        /\ hist' = [hist EXCEPT !.stray = IF answered THEN @ \ {dir[m.path].id}
                                          ELSE @ \cup {dir[m.path].id}]
        /\ UNCHANGED <<shares, jobs, aborted, nextId>>
    BY <1>3 DEF Effect
  <2>3. /\ hist'.issued = hist.issued /\ hist'.destroyed = hist.destroyed
        /\ hist'.stray = IF answered THEN hist.stray \ {dir[m.path].id}
                         ELSE hist.stray \cup {dir[m.path].id}
    BY <2>2 DEF CoreOK, CoreTypes
  <2>4. /\ dir'[m.path].mode = m.mode /\ dir'[m.path].id = dir[m.path].id
        /\ dir'[m.path].quota = dir[m.path].quota /\ dir[m.path].quota \in Nat
        /\ \A p \in Paths : p # m.path => dir'[p] = dir[p] /\ dir[p].quota \in Nat
    BY <2>1, <2>2 DEF CoreOK, CoreTypes
  <2>5. ASSUME NEW p \in Paths, p # m.path PROVE dir[p].id # dir[m.path].id
    BY <2>1, <2>5 DEF CoreOK, DirOK
  <2>6. DirMoved(m.path)
    BY <1>3, <2>1, <2>3, <2>4 DEF DirMoved, ModeMoved
  <2>7. ASSUME NEW p \in Paths, p # m.path PROVE DirMoved(p)
    BY <2>3, <2>4, <2>5, <2>7 DEF DirMoved, ModeMoved
  <2> QED
    BY <1>0, <2>2, <2>3, <2>6, <2>7 DEF Moved
<1>4. CASE m.op = "post"
  <2>1. NewShare(m.spec)
    BY <1>4 DEF Effect
  <2>2. shares \subseteq shares' /\ UNCHANGED <<dir, jobs, aborted, hist>>
    BY <2>1 DEF NewShare
  <2>3. \A p \in Paths : DirMoved(p)
    BY <2>2, DirsKept DEF CoreOK
  <2> QED
    BY <1>0, <2>2, <2>3 DEF Moved
<1>5. CASE m.op = "fix"
  <2>1. SetShares({IF r.id = m.res THEN Edited(r, FALSE) ELSE r : r \in shares})
    BY <1>5 DEF Effect, Edited
  <2>2. UNCHANGED <<dir, jobs, aborted, hist>>
    BY <2>1 DEF SetShares
  <2>3. ASSUME NEW r \in shares PROVE \E q \in shares' : Same(q, r)
    <3>1. (IF r.id = m.res THEN Edited(r, FALSE) ELSE r) \in shares'
      BY <2>1 DEF SetShares
    <3>2. Same(Edited(r, FALSE), r)
      BY EditedType DEF CoreOK, CoreTypes
    <3> QED
      BY <3>1, <3>2
  <2>4. \A p \in Paths : DirMoved(p)
    BY <2>2, DirsKept DEF CoreOK
  <2> QED
    BY <1>0, <2>2, <2>3, <2>4 DEF Moved
<1>6. CASE m.op = "tomb"
  <2>1. m.h \in hist.delReq
    BY <1>6 DEF MsgOK
  <2>2. SetShares({IF r.id = m.h.res THEN Marked(r, m.h) ELSE r : r \in shares})
    BY <1>6 DEF Effect, Marked
  <2>3. /\ UNCHANGED <<dir, jobs, aborted, hist>>
        /\ \A r \in shares : r.id # m.h.res => r \in shares'
    BY <2>2 DEF SetShares
  <2>4. \A p \in Paths : DirMoved(p)
    BY <2>3, DirsKept DEF CoreOK
  <2> QED
    BY <1>0, <2>1, <2>3, <2>4 DEF Moved
<1>7. CASE m.op = "tree"
  <2>1. PICK h \in hist.delReq : h.dir = m.dir /\ (Gone(h.dir) \/ ClaimedBy(h))
    BY <1>7 DEF MsgOK
  <2>2. m.dir \in DirIds /\ ClaimedBy(h)
    BY <1>7, <2>1 DEF Answer, Gone
  <2>3. /\ jobs' = jobs \cup {m.dir} /\ hist' = [hist EXCEPT !.destroyed = @ \cup {m.dir}]
        /\ UNCHANGED <<dir, shares, aborted, nextId>>
    BY <1>7 DEF Effect
  <2>4. /\ hist'.destroyed = hist.destroyed \cup {m.dir} /\ hist'.issued = hist.issued
        /\ hist'.stray = hist.stray
    BY <2>3 DEF CoreOK, CoreTypes
  <2>5. DirIds' = DirIds
    BY <2>3 DEF DirIds
  <2>6. \A p \in Paths : DirMoved(p)
    BY <2>3, <2>4, DirsKept DEF CoreOK
  <2> QED
    BY <1>0, <2>1, <2>2, <2>3, <2>4, <2>5, <2>6 DEF Moved
<1>8. CASE m.op = "drop"
  <2>1. Droppable(m.res, m.etag) /\ \E r \in Share(m.res) : r.etag = m.etag
    BY <1>8 DEF MsgOK, Answer, IfMatch
  <2>2. shares' = shares \ Share(m.res) /\ UNCHANGED <<dir, jobs, aborted, nextId, hist>>
    BY <1>8 DEF Effect, SetShares
  <2>3. ASSUME NEW r \in shares
        PROVE  r \in shares' \/ r.desc.kind = "deleting" \/ \E h \in hist.delReq : h.res = r.id
    BY <2>1, <2>2 DEF Droppable, Share, CoreOK, ShareOK
  <2>4. \A p \in Paths : DirMoved(p)
    BY <2>2, DirsKept DEF CoreOK
  <2> QED
    BY <1>0, <2>2, <2>3, <2>4 DEF Moved
<1> QED
  BY <1>2, <1>3, <1>4, <1>5, <1>6, <1>7, <1>8 DEF Write

\* What a handler does to Core in a step, and what it tells its caller.
Reads(w) == UNCHANGED <<core, hist>>

Writes(w) ==
    \E m \in Write :
        /\ MsgOK(m)
        /\ m.op = "chmod" =>
             At(w, "chmod") /\ m.path = Path(w) /\ m.mode = Opts[Spec(w)].mode
        /\ Commit(m, TRUE) \/ UNCHANGED <<core, hist>>

Grows(w) ==
    /\ \E cap \in Nat :
          dir' = [p \in Paths |-> IF dir[p].id = work[w].h.dir /\ dir[p].quota < cap
                                  THEN [dir[p] EXCEPT !.quota = cap] ELSE dir[p]]
    /\ UNCHANGED <<shares, jobs, aborted, nextId, hist>>

Kinds(w) == Reads(w) \/ Writes(w) \/ Grows(w) \/ Deleted(w) \/ ValidRes(w) \/ DropIfMatch(w)

\* A handler that sends a write is one that writes.
LEMMA SendKind ==
    ASSUME NEW w \in Workers, NEW m \in Write, MsgOK(m), NEW after, Send(w, m, after),
           m.op = "chmod" =>
             At(w, "chmod") /\ m.path = Path(w) /\ m.mode = Opts[Spec(w)].mode
    PROVE  Writes(w)
BY DEF Send, Writes

\* Each step of a handler is of one of these kinds.
LEMMA AdvanceKind ==
    ASSUME Base, NEW w \in Workers, Advance(w)
    PROVE  Kinds(w)
<1>1. CASE \/ ListNFS(w) \/ ListSMB(w) \/ CheckDir(w) \/ GetDir(w) \/ RegetDir(w)
           \/ Claim(w) \/ Reclaim(w) \/ ValidDir(w) \/ ExpandValidRes(w)
           \/ GetAttrs(w) \/ TreeReget(w) \/ Await(w)
  BY <1>1 DEF ListNFS, ListSMB, ListShares, CheckDir, GetDir, RegetDir, Claim, Reclaim,
              ValidDir, ExpandValidRes, GetAttrs, TreeReget, Await, Read, Reads, Kinds
<1>2. CASE Prepare(w) \/ Drop(w)
  BY <1>2 DEF Prepare, Drop, Read, Reads, Kinds
<1>3. CASE EnsureQuota(w) \/ ExpandQuota(w)
  <2>1. Opts[Spec(w)].cap \in Nat /\ ExpandTo \in Nat
    BY WorkType, OptsAssumption, BoundsAssumption
  <2> QED
    BY <1>3, <2>1 DEF EnsureQuota, ExpandQuota, GrowQuota, Grows, Read, Reads, Kinds
<1>4. CASE MakeDir(w)
  <2>1. [op |-> "mkdir", path |-> Path(w)] \in Write /\ MsgOK([op |-> "mkdir", path |-> Path(w)])
    BY WorkType DEF Write, MsgOK
  <2> QED
    BY <1>4, <2>1, SendKind DEF MakeDir, Kinds
<1>5. CASE ChangeMode(w)
  <2> DEFINE m == [op |-> "chmod", path |-> Path(w), mode |-> Opts[Spec(w)].mode]
  <2>1. m \in Write /\ MsgOK(m) /\ m.path = Path(w) /\ m.mode = Opts[Spec(w)].mode
    BY WorkType, OptsAssumption DEF Write, MsgOK
  <2>2. At(w, "chmod") /\ \E after : Send(w, m, after)
    BY Zenon, <1>5 DEF ChangeMode
  <2> HIDE DEF m
  <2> QED
    BY <2>1, <2>2, SendKind DEF Kinds
<1>6. CASE PostShare(w)
  <2> DEFINE m == [op |-> "post", spec |-> Spec(w)]
  <2>1. m \in Write /\ MsgOK(m) /\ m.op # "chmod"
    BY WorkType DEF Write, MsgOK
  <2>2. \E after : Send(w, m, after)
    BY Zenon, <1>6 DEF PostShare
  <2> HIDE DEF m
  <2> QED
    BY <2>1, <2>2, SendKind DEF Kinds
<1>7. CASE Tombstone(w)
  <2> DEFINE m == [op |-> "tomb", h |-> work[w].h, etag |-> work[w].etag]
  <2>1. DeleteOK(work[w]) /\ work[w].pc = "tomb"
    BY <1>7, DeletingType DEF Tombstone, DeletePoints
  <2>2. m \in Write /\ MsgOK(m) /\ m.op # "chmod"
    BY <2>1, WorkType DEF Write, MsgOK, DeleteOK
  <2>3. \E after : Send(w, m, after)
    BY Zenon, <1>7 DEF Tombstone
  <2> HIDE DEF m
  <2> QED
    BY <2>2, <2>3, SendKind DEF Kinds
<1>8. CASE TreeDelete(w)
  <2> DEFINE m == [op |-> "tree", dir |-> work[w].h.dir]
  <2>1. DeleteOK(work[w]) /\ work[w].pc = "tree"
    BY <1>8, DeletingType DEF TreeDelete, DeletePoints
  <2>2. m \in Write /\ MsgOK(m) /\ m.op # "chmod"
    BY <2>1, WorkType DEF Write, MsgOK, DeleteOK
  <2>3. \E after : Send(w, m, after)
    BY Zenon, <1>8 DEF TreeDelete
  <2> HIDE DEF m
  <2> QED
    BY <2>2, <2>3, SendKind DEF Kinds
<1>9. CASE FixShare(w)
  <2> DEFINE m == [op |-> "fix", res |-> work[w].h.res, etag |-> work[w].etag]
  <2>1. m \in Write /\ MsgOK(m) /\ m.op # "chmod"
    BY WorkType DEF Write, MsgOK
  <2>2. \E after : Send(w, m, after)
    BY Zenon, <1>9 DEF FixShare
  <2> HIDE DEF m
  <2> QED
    BY <2>1, <2>2, SendKind DEF Kinds
<1> QED
  BY <1>1, <1>2, <1>3, <1>4, <1>5, <1>6, <1>7, <1>8, <1>9
     DEF Advance, CreateStep, ExpandStep, DeleteStep, Kinds

\* The steps that take no part in what follows but for what they remove.
LEMMA KindMoves ==
    ASSUME Base, NEW w \in Workers, Kinds(w)
    PROVE  /\ Moved
           /\ \/ hist'.issued = hist.issued
              \/ /\ UNCHANGED core /\ At(w, "validRes") /\ ShareValid(work[w].h)
                 /\ hist'.issued = hist.issued \cup {work[w].h}
                 /\ hist'.stray = hist.stray
                 /\ work' = [work EXCEPT ![w] = Idle]
<1>1. CASE Reads(w)
  BY <1>1, QuietMoves DEF Reads, Base
<1>2. CASE Writes(w)
  <2>1. PICK m \in Write :
           /\ MsgOK(m)
           /\ m.op = "chmod" =>
                At(w, "chmod") /\ m.path = Path(w) /\ m.mode = Opts[Spec(w)].mode
           /\ Commit(m, TRUE) \/ UNCHANGED <<core, hist>>
    BY <1>2 DEF Writes
  <2>2. CASE Commit(m, TRUE)
    <3>1. m.op = "chmod" => SetsMode(m.path, m.mode)
      BY <2>1 DEF SetsMode
    <3> QED
      BY <2>1, <2>2, <3>1, CommitMoves DEF Base
  <2>3. CASE UNCHANGED <<core, hist>>
    BY <2>3, QuietMoves DEF Base
  <2> QED
    BY <2>1, <2>2, <2>3
<1>3. CASE Grows(w)
  <2>1. PICK cap \in Nat :
          dir' = [p \in Paths |-> IF dir[p].id = work[w].h.dir /\ dir[p].quota < cap
                                  THEN [dir[p] EXCEPT !.quota = cap] ELSE dir[p]]
    BY <1>3 DEF Grows
  <2>2. \A p \in Paths : /\ dir'[p].id = dir[p].id /\ dir'[p].mode = dir[p].mode
                         /\ dir'[p].quota >= dir[p].quota
    BY <2>1 DEF Base, CoreOK, CoreTypes
  <2>3. \A p \in Paths : DirMoved(p)
    BY <1>3, <2>2 DEF DirMoved, ModeMoved, Grows
  <2> QED
    BY <1>3, <2>3 DEF Moved, Same, Grows
<1>4. CASE Deleted(w)
  <2>1. hist' = [hist EXCEPT !.deleted = @ \cup {work[w].h}] /\ UNCHANGED core
    BY <1>4 DEF Deleted
  <2>2. /\ hist'.destroyed = hist.destroyed /\ hist'.issued = hist.issued
        /\ hist'.stray = hist.stray
    BY <2>1 DEF Base, CoreOK, CoreTypes
  <2> QED
    BY <2>1, <2>2, QuietMoves DEF Base
<1>5. CASE ValidRes(w)
  <2>1. /\ work' = [work EXCEPT ![w] = Idle] /\ UNCHANGED core
        /\ hist' = IF ShareValid(work[w].h)
                   THEN [hist EXCEPT !.issued = @ \cup {work[w].h}] ELSE hist
        /\ At(w, "validRes")
    BY <1>5 DEF ValidRes
  <2>2. /\ hist'.destroyed = hist.destroyed /\ hist'.stray = hist.stray
        /\ \/ hist'.issued = hist.issued
           \/ ShareValid(work[w].h) /\ hist'.issued = hist.issued \cup {work[w].h}
    BY <2>1 DEF Base, CoreOK, CoreTypes
  <2> QED
    BY <2>1, <2>2, QuietMoves DEF Base
<1>6. CASE DropIfMatch(w)
  <2> DEFINE m == [op |-> "drop", res |-> work[w].h.res, etag |-> work[w].etag]
  <2>1. /\ Droppable(work[w].h.res, work[w].etag)
        /\ Answer(m) = "ok" => \E r \in Share(work[w].h.res) : r.etag = work[w].etag
        /\ Answer(m) = "missing" => Share(work[w].h.res) = {}
        /\ m.res = work[w].h.res
    BY <1>6, DeletingType DEF DropIfMatch, DeletePoints, DeleteOK, Answer, IfMatch
  <2>2. \/ /\ Answer(m) \in {"ok", "missing"}
           /\ shares' = shares \ Share(m.res)
           /\ hist' = [hist EXCEPT !.deleted = @ \cup {work[w].h}]
           /\ UNCHANGED <<dir, jobs, aborted, nextId>>
        \/ UNCHANGED <<core, hist>>
    BY <1>6 DEF DropIfMatch, Read
  <2> HIDE DEF m
  <2>3. CASE /\ Answer(m) \in {"ok", "missing"}
             /\ shares' = shares \ Share(m.res)
             /\ hist' = [hist EXCEPT !.deleted = @ \cup {work[w].h}]
             /\ UNCHANGED <<dir, jobs, aborted, nextId>>
    <3>1. /\ hist'.destroyed = hist.destroyed /\ hist'.issued = hist.issued
          /\ hist'.stray = hist.stray
      BY <2>3 DEF Base, CoreOK, CoreTypes
    <3>2. ASSUME NEW r \in shares
          PROVE  \/ r \in shares' \/ r.desc.kind = "deleting"
                 \/ \E h \in hist.delReq : h.res = r.id
      BY <2>1, <2>3 DEF Droppable, Share, Base, CoreOK, ShareOK
    <3>3. \A p \in Paths : DirMoved(p)
      BY <2>3, <3>1, DirsKept DEF Base, CoreOK
    <3> QED
      BY <2>3, <3>1, <3>2, <3>3 DEF Moved, Same
  <2>4. CASE UNCHANGED <<core, hist>>
    BY <2>4, QuietMoves DEF Base
  <2> QED
    BY <2>2, <2>3, <2>4
<1> QED
  BY <1>1, <1>2, <1>3, <1>4, <1>5, <1>6 DEF Kinds

\* The same of Core and of operators.
LEMMA ExternalMoves ==
    ASSUME Base, External
    PROVE  Moved /\ hist'.issued = hist.issued /\ UNCHANGED work
<1>1. CASE LateWrite
  <2>1. PICK m \in late : Commit(m, FALSE) /\ UNCHANGED work
    BY <1>1 DEF LateWrite
  <2>2. m \in Write /\ MsgOK(m)
    BY DEF Base
  <2> QED
    BY <2>1, <2>2, CommitMoves DEF Base
<1>2. CASE JobEnds
  <2>1. PICK d \in jobs :
           /\ jobs' = jobs \ {d}
           /\ dir' = [p \in Paths |-> IF dir[p].id = d THEN NoDir ELSE dir[p]]
           /\ UNCHANGED <<shares, aborted, nextId, late, work, count, hist>>
    BY <1>2 DEF JobEnds
  <2>2. \A p \in Paths : DirMoved(p)
    BY <2>1 DEF DirMoved, ModeMoved, Base, CoreOK, CoreTypes
  <2> QED
    BY <2>1, <2>2 DEF Moved, Same
<1>3. CASE JobAborts
  <2>1. PICK d \in jobs :
           /\ jobs' = jobs \ {d} /\ UNCHANGED <<dir, shares, nextId, late, work, hist>>
    BY <1>3 DEF JobAborts
  <2>2. \A p \in Paths : DirMoved(p)
    BY <2>1 DEF DirMoved, ModeMoved, Base, CoreOK, CoreTypes
  <2> QED
    BY <2>1, <2>2 DEF Moved, Same
<1>4. CASE OperatorReplaces
  <2>1. PICK p \in Paths :
           /\ count["replaced"] < MaxReplaced
           /\ dir' = [dir EXCEPT ![p] = [id |-> nextId, mode |-> 0, quota |-> 0]]
           /\ UNCHANGED <<shares, jobs, aborted, late, work, hist>>
    BY <1>4 DEF OperatorReplaces
  <2>2. MaxReplaced # 0
    BY <2>1, BoundsAssumption DEF Base, Events
  <2>3. \A q \in Paths : DirMoved(q)
    BY <2>1, <2>2 DEF DirMoved, ModeMoved, Base, CoreOK, CoreTypes
  <2> QED
    BY <2>1, <2>3 DEF Moved, Same
<1>5. CASE OperatorEdits
  <2>1. PICK r \in shares :
           /\ shares' = (shares \ {r}) \cup {Edited(r, TRUE)}
           /\ UNCHANGED <<dir, jobs, aborted, nextId, late, work, hist>>
    BY <1>5 DEF OperatorEdits, Edited
  <2>2. Same(Edited(r, TRUE), r)
    BY EditedType DEF Base, CoreOK, CoreTypes, Same
  <2>3. \A p \in Paths : DirMoved(p)
    BY <2>1, DirsKept DEF Base, CoreOK
  <2>4. /\ \A s \in shares : \E q \in shares' : Same(q, s)
        /\ \A q \in shares' : \E s \in shares : Same(q, s)
    BY <2>1, <2>2 DEF Same
  <2> QED
    BY <2>1, <2>3, <2>4 DEF Moved
<1> QED
  BY <1>1, <1>2, <1>3, <1>4, <1>5 DEF External

\* A request that starts changes nothing in Core.
LEMMA StartMoves ==
    ASSUME Base, NEW w \in Workers, StartCreate(w) \/ StartExpand(w) \/ StartDelete(w)
    PROVE  Moved /\ hist'.issued = hist.issued
<1>1. UNCHANGED core
  BY DEF StartCreate, StartExpand, StartDelete, StartRequest
<1>2. /\ hist'.destroyed = hist.destroyed /\ hist'.issued = hist.issued
      /\ hist'.stray = hist.stray
  BY DEF StartCreate, StartExpand, StartDelete, Base, CoreOK, CoreTypes
<1> QED
  BY <1>1, <1>2, QuietMoves DEF Base

\* A handler returns a volume to its caller.
Issues(w) ==
    /\ UNCHANGED core /\ At(w, "validRes") /\ ShareValid(work[w].h)
    /\ hist'.issued = hist.issued \cup {work[w].h} /\ hist'.stray = hist.stray
    /\ work' = [work EXCEPT ![w] = Idle]

\* Every step.
LEMMA StepMoves ==
    ASSUME Base, [Next]_vars
    PROVE  /\ Moved
           /\ hist'.issued = hist.issued \/ \E w \in Workers : Issues(w)
<1>1. CASE UNCHANGED vars
  BY <1>1, QuietMoves DEF vars, Base
<1>2. CASE External
  BY <1>2, ExternalMoves
<1>3. ASSUME NEW w \in Workers,
             StartCreate(w) \/ StartExpand(w) \/ StartDelete(w) \/ Advance(w) \/ RequestFails(w)
      PROVE  /\ Moved
             /\ hist'.issued = hist.issued \/ \E v \in Workers : Issues(v)
  <2>1. CASE StartCreate(w) \/ StartExpand(w) \/ StartDelete(w)
    BY <2>1, StartMoves
  <2>2. CASE Advance(w)
    BY <2>2, AdvanceKind, KindMoves DEF Issues
  <2>3. CASE RequestFails(w)
    BY <2>3, QuietMoves DEF RequestFails, Read, Base
  <2> QED
    BY <1>3, <2>1, <2>2, <2>3
<1> QED
  BY <1>1, <1>2, <1>3 DEF Next

\* No directory that is being emptied is moved away.
JobsAtPaths == \A d \in jobs : d \in DirIds

\* Without an operator a directory keeps its path until its job ends.
LEMMA JobsStay ==
    ASSUME MaxReplaced = 0, Base, JobsAtPaths, [Next]_vars
    PROVE  JobsAtPaths'
<1>1. Moved
  BY StepMoves
<1> SUFFICES ASSUME NEW d \in jobs', d \in jobs PROVE d \in DirIds'
  BY <1>1 DEF Moved, JobsAtPaths
<1>2. PICK p \in Paths : dir[p].id = d /\ d # 0
  BY DEF JobsAtPaths, DirIds
<1>3. dir'[p].id = d
  BY <1>1, <1>2 DEF Moved, DirMoved, NoDir
<1> QED
  BY <1>2, <1>3 DEF DirIds

\* While no operator moves directories, a tree-delete job runs only for a
\* directory whose share carries the deletion claim (backend.go:248), so that no
\* create takes the directory over while it is emptied.
THEOREM JobsAreClaimed ==
    ASSUME MaxReplaced = 0
    PROVE  Behaviour => []DeletionIsClaimed
<1>1. Init => JobsAtPaths
  BY DEF Init, JobsAtPaths
<1>2. Base /\ JobsAtPaths /\ [Next]_vars => JobsAtPaths'
  BY JobsStay
<1>3. Base /\ JobsAtPaths => DeletionIsClaimed
  <2> SUFFICES ASSUME Base, JobsAtPaths, NEW d \in jobs
               PROVE  \E r \in shares : /\ r.desc.kind = "deleting" /\ r.desc.of.dir = d
                                        /\ r.desc.of \in hist.delReq
    BY DEF DeletionIsClaimed
  <2>1. d \in hist.destroyed /\ ~Gone(d)
    BY DEF Base, CoreOK, DirOK, JobsAtPaths, Gone
  <2>2. PICK r \in shares : r.desc.kind = "deleting" /\ r.desc.of.dir = d
    BY <2>1 DEF Base, CoreOK, HistOK, ClaimedOrGone
  <2>3. ClaimedOnRequest(r)
    BY <2>2, ClaimIsOf DEF Base, CoreOK
  <2> QED
    BY <2>2, <2>3 DEF ClaimedOnRequest
<1> QED
  BY <1>1, <1>2, <1>3, BaseInv, PTL DEF Behaviour

\* The handler has seen that its directory is the one at the path.
VerifiedAt(k) ==
    \/ k.pc \in {"quota", "validDir", "validRes"}
    \/ k.pc = "chmod" /\ k.seen = k.h.dir

\* The directory, when it still is the one of the handle, is configured, but
\* for a mode that came late.
ModeSet(h) ==
    dir[Opts[h.spec].path].id = h.dir =>
        dir[Opts[h.spec].path].mode = Opts[h.spec].mode \/ h.dir \in hist.stray

QuotaSet(h) ==
    dir[Opts[h.spec].path].id = h.dir => dir[Opts[h.spec].path].quota >= Opts[h.spec].cap

\* CheckVolume has seen no share of this protocol that it must refuse.
Listed(s, proto) ==
    \A r \in shares : Opts[r.spec].proto = proto /\ Related(r, s) => ExactMatch(r, s)

\* The points of a create that has read both lists.
AfterLists == CreatePoints \ {"listNFS", "listSMB"}

\* Where a handler goes in a step.
Creates(w, k) ==
    /\ work[w].pc \in AfterLists /\ k.pc \in AfterLists /\ k.h.spec = Spec(w)
    /\ VerifiedAt(k) => /\ k.h = work[w].h
                        /\ \/ VerifiedAt(work[w])
                           \/ UNCHANGED <<core, hist>> /\ dir[Path(w)].id = work[w].h.dir
    /\ k.pc = "quota" => ModeSet(k.h)'
    /\ k.pc = "validDir" => work[w].pc = "quota" /\ QuotaSet(k.h)'
    /\ k.pc = "validRes" => work[w].pc = "validDir"

GoesTo(w, k) ==
    \/ k.pc = "idle"
    \/ /\ At(w, "listNFS") /\ k.pc = "listSMB" /\ k.h = work[w].h
       /\ Listed(Spec(w), "nfs") /\ UNCHANGED <<core, hist>>
    \/ /\ At(w, "listSMB") /\ k.pc = "checkDir" /\ k.h = work[w].h
       /\ Listed(Spec(w), "smb") /\ UNCHANGED <<core, hist>>
    \/ Creates(w, k)
    \/ work[w].pc \in DeletePoints /\ k.pc \in DeletePoints /\ k.h = work[w].h
    \/ work[w].pc \in ExpandPoints /\ k.pc \in ExpandPoints /\ k.h = work[w].h

Goes(w) == \E k \in Locals : work' = [work EXCEPT ![w] = k] /\ GoesTo(w, k)

\* A handler that returns.
LEMMA GoesIdle ==
    ASSUME Base, NEW w \in Workers, work' = [work EXCEPT ![w] = Idle]
    PROVE  Goes(w)
BY IdleType DEF Goes, GoesTo, Idle

\* The steps of CheckVolume.
LEMMA ListGoes ==
    ASSUME Base, NEW w \in Workers, ListNFS(w) \/ ListSMB(w)
    PROVE  Goes(w)
<1>1. ASSUME NEW pc \in {"listNFS", "listSMB"}, NEW proto \in {"nfs", "smb"},
             NEW p \in {"listSMB", "checkDir"}, ListShares(w, pc, proto, p),
             ~Goes(w)
      PROVE  /\ At(w, pc) /\ Listed(Spec(w), proto) /\ UNCHANGED <<core, hist>>
             /\ \E k \in Locals : work' = [work EXCEPT ![w] = k] /\ k.pc = p /\ k.h = work[w].h
  <2> DEFINE related == {r \in shares : Opts[r.spec].proto = proto /\ Related(r, Spec(w))}
  <2>1. PICK f \in BOOLEAN : f = (Go(w, p).found \/ related # {})
    BY Zenon
  <2>2. \/ Read(w, Idle)
        \/ /\ \A r \in related : ExactMatch(r, Spec(w))
           /\ Read(w, [Go(w, p) EXCEPT !.found = f])
    BY Zenon, <1>1, <2>1 DEF ListShares
  <2>3. ~Read(w, Idle)
    BY <1>1, GoesIdle DEF Read
  <2>4. Go(w, p) \in Locals /\ Go(w, p).pc = p /\ Go(w, p).h = work[w].h
    BY GoType DEF Points, CreatePoints
  <2>5. PICK k \in Locals : k = [Go(w, p) EXCEPT !.found = f]
    BY <2>4 DEF Locals
  <2>6. k.pc = p /\ k.h = work[w].h
    BY <2>4, <2>5 DEF Locals
  <2>7. At(w, pc)
    BY <1>1 DEF ListShares
  <2> QED
    BY <2>2, <2>3, <2>5, <2>6, <2>7 DEF Read, Listed
<1>2. CASE ListNFS(w)
  BY <1>1, <1>2 DEF ListNFS, Goes, GoesTo
<1>3. CASE ListSMB(w)
  BY <1>1, <1>3 DEF ListSMB, Goes, GoesTo
<1> QED
  BY <1>2, <1>3

\* The reads of EnsureDirectory.
LEMMA DirGoes ==
    ASSUME Base, NEW w \in Workers, CheckDir(w) \/ GetDir(w) \/ RegetDir(w)
    PROVE  Goes(w)
<1>1. work[w].pc \in AfterLists
  BY DEF CheckDir, GetDir, RegetDir, At, AfterLists, CreatePoints
<1>2. CASE Read(w, Idle)
  BY <1>2, GoesIdle DEF Read
<1>3. CASE \E p \in {"getDir", "mkdir"} : Read(w, Go(w, p))
  <2>1. PICK p \in {"getDir", "mkdir"} : Read(w, Go(w, p))
    BY <1>3
  <2>2. PICK k \in Locals : k = Go(w, p) /\ k.pc = p /\ k.h = work[w].h
    BY GoType DEF Points, CreatePoints
  <2>3. Creates(w, k)
    BY <1>1, <2>2 DEF Creates, AfterLists, CreatePoints, VerifiedAt, Spec
  <2> QED
    BY <2>1, <2>2, <2>3 DEF Goes, GoesTo, Read
<1>4. CASE dir[Path(w)] # NoDir /\ Read(w, DirSeen(w, dir[Path(w)].id, dir[Path(w)].mode))
  <2> DEFINE id == dir[Path(w)].id
             mode == dir[Path(w)].mode
  <2>1. id \in Nat /\ mode \in Nat
    BY <1>4, FoundAt
  <2>2. PICK k \in Locals :
             /\ k = DirSeen(w, id, mode)
             /\ \/ /\ k.pc = "claim" /\ work[w].h.res = 0
                   /\ k.h.dir = id /\ k.h.spec = Spec(w) /\ k.h.res = 0
                \/ /\ k.pc = "chmod" /\ work[w].h.res # 0
                   /\ k.h = work[w].h /\ k.seen = id
                \/ /\ k.pc = "quota" /\ work[w].h.res # 0
                   /\ k.h = work[w].h /\ id = work[w].h.dir /\ mode = Opts[Spec(w)].mode
                \/ k = Idle
    BY Zenon, <2>1, DirSeenCases
  <2> HIDE DEF id, mode
  <2>3. Read(w, k)
    BY <1>4, <2>2 DEF id, mode
  <2>4. ASSUME k.pc = "claim" /\ k.h.spec = Spec(w)
        PROVE  Creates(w, k)
    BY <1>1, <2>4 DEF Creates, AfterLists, CreatePoints, VerifiedAt
  <2>5. ASSUME k.pc = "chmod" /\ k.h = work[w].h /\ k.seen = id
        PROVE  Creates(w, k)
    BY <1>1, <2>3, <2>5 DEF Creates, AfterLists, CreatePoints, VerifiedAt, Spec, Read, id
  <2>6. ASSUME /\ k.pc = "quota" /\ k.h = work[w].h /\ id = work[w].h.dir
               /\ mode = Opts[Spec(w)].mode
        PROVE  Creates(w, k)
    <3>1. dir' = dir
      BY <2>3 DEF Read, core
    <3>2. dir[Opts[k.h.spec].path].mode = Opts[k.h.spec].mode
      BY <2>6 DEF Spec, Path, mode
    <3>3. ModeSet(k.h)'
      BY <3>1, <3>2 DEF ModeSet
    <3> QED
      BY <1>1, <2>3, <2>6, <3>3 DEF Creates, AfterLists, CreatePoints, VerifiedAt, Spec, Read, id
  <2>7. CASE k = Idle
    BY <2>3, <2>7, GoesIdle DEF Read
  <2> QED
    BY <2>2, <2>3, <2>4, <2>5, <2>6, <2>7 DEF Goes, GoesTo, Read
<1> QED
  BY <1>2, <1>3, <1>4 DEF CheckDir, GetDir, RegetDir

\* The POST of EnsureDirectory.
LEMMA MakeDirGoes ==
    ASSUME Base, NEW w \in Workers, MakeDir(w)
    PROVE  Goes(w)
<1> DEFINE m == [op |-> "mkdir", path |-> Path(w)]
           after == [a \in Answers |-> IF a = "ok" THEN DirSeen(w, nextId, 0)
                                       ELSE Go(w, "regetDir")]
<1>1. Answer(m) \in {"ok", "exists"}
  BY DEF Answer
<1>2. /\ Send(w, m, after) /\ work[w].pc = "mkdir" /\ CreateOK(work[w])
      /\ work[w].pc \in AfterLists
  BY WorkType DEF MakeDir, At, AfterLists, LocalOK, CreatePoints
<1>3. /\ after["ok"] = DirSeen(w, nextId, 0) /\ after["exists"] = Go(w, "regetDir")
      /\ after["lost"] = Go(w, "regetDir")
  BY DEF Answers
<1>4. \/ work' = [work EXCEPT ![w] = DirSeen(w, nextId, 0)]
      \/ work' = [work EXCEPT ![w] = Go(w, "regetDir")]
  <2> HIDE DEF m, after
  <2> QED
    BY <1>1, <1>2, <1>3 DEF Send
<1>5. CASE work' = [work EXCEPT ![w] = Go(w, "regetDir")]
  <2>1. PICK k \in Locals : k = Go(w, "regetDir") /\ k.pc = "regetDir" /\ k.h = work[w].h
    BY GoType DEF Points, CreatePoints
  <2>2. Creates(w, k)
    BY <1>2, <2>1 DEF Creates, AfterLists, CreatePoints, VerifiedAt, Spec
  <2> QED
    BY <1>5, <2>1, <2>2 DEF Goes, GoesTo
<1>6. CASE work' = [work EXCEPT ![w] = DirSeen(w, nextId, 0)]
  <2>1. PICK k \in Locals :
             /\ k = DirSeen(w, nextId, 0)
             /\ \/ /\ k.pc = "claim" /\ work[w].h.res = 0
                   /\ k.h.dir = nextId /\ k.h.spec = Spec(w) /\ k.h.res = 0
                \/ /\ k.pc = "chmod" /\ work[w].h.res # 0
                   /\ k.h = work[w].h /\ k.seen = nextId
                \/ /\ k.pc = "quota" /\ work[w].h.res # 0
                   /\ k.h = work[w].h /\ nextId = work[w].h.dir /\ 0 = Opts[Spec(w)].mode
                \/ k = Idle
    BY DirSeenCases DEF Base, CoreOK, CoreTypes
  <2>2. Opts[Spec(w)].mode # 0
    BY WorkType, OptsAssumption
  <2>3. work[w].h.res # 0 => work[w].h.dir # nextId
    BY <1>2, WorkType DEF CreateOK, HandleOK, Base, CoreOK, CoreTypes
  <2>4. ASSUME k.pc = "claim" /\ k.h.spec = Spec(w)
        PROVE  Creates(w, k)
    BY <1>2, <2>4 DEF Creates, AfterLists, CreatePoints, VerifiedAt
  <2>5. ASSUME k.pc = "chmod" /\ k.h = work[w].h /\ k.seen = nextId /\ work[w].h.res # 0
        PROVE  Creates(w, k)
    BY <1>2, <2>3, <2>5 DEF Creates, AfterLists, CreatePoints, VerifiedAt, Spec
  <2>6. CASE k = Idle
    BY <1>6, <2>1, <2>6, GoesIdle
  <2> QED
    BY <1>6, <2>1, <2>2, <2>4, <2>5, <2>6 DEF Goes, GoesTo
<1> QED
  BY <1>4, <1>5, <1>6

\* The PATCH of the mode: it goes on only when it has met its own directory.
LEMMA ChangeModeGoes ==
    ASSUME Base, NEW w \in Workers, ChangeMode(w)
    PROVE  Goes(w)
<1> DEFINE m == [op |-> "chmod", path |-> Path(w), mode |-> Opts[Spec(w)].mode]
           after == [a \in Answers |->
                CASE a = "ok" -> IF work[w].seen = work[w].h.dir
                                 THEN [Go(w, "quota") EXCEPT !.seen = 0] ELSE Idle
                  [] a = "lost" -> work[w]
                  [] OTHER -> Idle]
<1>1. Answer(m) \in {"ok", "missing"}
  BY DEF Answer
<1>2. Send(w, m, after) /\ work[w].pc = "chmod" /\ work[w].pc \in AfterLists
  BY DEF ChangeMode, At, AfterLists, CreatePoints
<1>3. /\ after["ok"] = IF work[w].seen = work[w].h.dir
                       THEN [Go(w, "quota") EXCEPT !.seen = 0] ELSE Idle
      /\ after["missing"] = Idle /\ after["lost"] = work[w]
  BY DEF Answers
<1>4. Commit(m, TRUE) /\ Answer(m) = "ok" =>
         /\ dir' = [dir EXCEPT ![Path(w)].mode = Opts[Spec(w)].mode]
  BY DEF Commit, Effect
<1> HIDE DEF m, after
<1>5. \/ work' = [work EXCEPT ![w] = Idle]
      \/ work' = [work EXCEPT ![w] = work[w]]
      \/ /\ Commit(m, TRUE) /\ Answer(m) = "ok" /\ work[w].seen = work[w].h.dir
         /\ work' = [work EXCEPT ![w] = [Go(w, "quota") EXCEPT !.seen = 0]]
  BY <1>1, <1>2, <1>3 DEF Send
<1>6. CASE work' = [work EXCEPT ![w] = Idle]
  BY <1>6, GoesIdle
<1>7. CASE work' = [work EXCEPT ![w] = work[w]]
  <2>1. PICK k \in Locals : k = work[w]
    BY WorkType
  <2>2. Creates(w, k)
    BY <1>2, <2>1 DEF Creates, AfterLists, CreatePoints, VerifiedAt, Spec
  <2> QED
    BY <1>7, <2>1, <2>2 DEF Goes, GoesTo
<1>8. CASE /\ Commit(m, TRUE) /\ Answer(m) = "ok" /\ work[w].seen = work[w].h.dir
           /\ work' = [work EXCEPT ![w] = [Go(w, "quota") EXCEPT !.seen = 0]]
  <2>1. Go(w, "quota") \in Locals /\ Go(w, "quota").pc = "quota" /\ Go(w, "quota").h = work[w].h
    BY GoType DEF Points, CreatePoints
  <2>2. PICK k \in Locals : k = [Go(w, "quota") EXCEPT !.seen = 0]
    BY <2>1 DEF Locals
  <2>3. k.pc = "quota" /\ k.h = work[w].h
    BY <2>1, <2>2 DEF Locals
  <2>4. Path(w) \in Paths /\ dir'[Path(w)].mode = Opts[Spec(w)].mode
    BY <1>4, <1>8, WorkType DEF Base, CoreOK, CoreTypes
  <2>5. ModeSet(k.h)'
    BY <2>3, <2>4 DEF ModeSet, Path, Spec
  <2>6. Creates(w, k)
    BY <1>2, <1>8, <2>3, <2>5 DEF Creates, AfterLists, CreatePoints, VerifiedAt, Spec
  <2> QED
    BY <1>8, <2>2, <2>6 DEF Goes, GoesTo
<1> QED
  BY <1>5, <1>6, <1>7, <1>8

\* The steps that find or make the share that owns the path.
LEMMA ShareGoes ==
    ASSUME Base, NEW w \in Workers, Claim(w) \/ Reclaim(w) \/ PostShare(w)
    PROVE  Goes(w)
<1>1. work[w].pc \in AfterLists
  BY DEF Claim, Reclaim, PostShare, At, AfterLists, CreatePoints
<1>2. CASE work' = [work EXCEPT ![w] = Idle]
  BY <1>2, GoesIdle
<1>3. CASE \E p \in {"post", "reclaim"} : work' = [work EXCEPT ![w] = Go(w, p)]
  <2>1. PICK p \in {"post", "reclaim"} : work' = [work EXCEPT ![w] = Go(w, p)]
    BY <1>3
  <2>2. PICK k \in Locals : k = Go(w, p) /\ k.pc = p /\ k.h = work[w].h
    BY GoType DEF Points, CreatePoints
  <2>3. Creates(w, k)
    BY <1>1, <2>2 DEF Creates, AfterLists, CreatePoints, VerifiedAt, Spec
  <2> QED
    BY <2>1, <2>2, <2>3 DEF Goes, GoesTo
<1>4. CASE \E id \in Nat : work' = [work EXCEPT ![w] = [Go(w, "getDir") EXCEPT !.h.res = id]]
  <2>1. PICK id \in Nat : work' = [work EXCEPT ![w] = [Go(w, "getDir") EXCEPT !.h.res = id]]
    BY <1>4
  <2>2. /\ Go(w, "getDir") \in Locals /\ Go(w, "getDir").pc = "getDir"
        /\ Go(w, "getDir").h = work[w].h
    BY GoType DEF Points, CreatePoints
  <2>3. PICK k \in Locals : k = [Go(w, "getDir") EXCEPT !.h.res = id]
    BY <2>2 DEF Locals, Handle
  <2>4. k.pc = "getDir" /\ k.h.spec = Spec(w)
    BY <2>2, <2>3, WorkType DEF Locals, Handle, Spec
  <2>5. Creates(w, k)
    BY <1>1, <2>4 DEF Creates, AfterLists, CreatePoints, VerifiedAt
  <2> QED
    BY <2>1, <2>3, <2>5 DEF Goes, GoesTo
<1>5. CASE Claim(w) \/ Reclaim(w)
  <2>1. \A r \in Labelled(Spec(w)) : r.id \in Nat /\ r.etag \in Nat
    BY DEF Labelled, Base, CoreOK, CoreTypes, ShareType
  <2>2. ASSUME NEW id \in Nat, NEW e \in Nat
        PROVE  \A k : \/ k = [Go(w, "fix") EXCEPT !.h.res = id, !.etag = e]
                      \/ k = [Go(w, "getDir") EXCEPT !.h.res = id, !.round = 1]
                      => k \in Locals /\ Creates(w, k)
    <3>1. \A p \in {"getDir", "fix"} :
             Go(w, p) \in Locals /\ Go(w, p).pc = p /\ Go(w, p).h = work[w].h
      BY GoType DEF Points, CreatePoints
    <3>2. PICK f \in Locals : f = [Go(w, "fix") EXCEPT !.h.res = id, !.etag = e]
      BY <3>1 DEF Locals, Handle
    <3>3. PICK g \in Locals : g = [Go(w, "getDir") EXCEPT !.h.res = id, !.round = 1]
      BY <3>1, FirstRound DEF Locals, Handle
    <3>4. f.pc = "fix" /\ f.h.spec = Spec(w)
      BY <3>1, <3>2, WorkType DEF Locals, Handle, Spec
    <3>5. g.pc = "getDir" /\ g.h.spec = Spec(w)
      BY <3>1, <3>3, WorkType DEF Locals, Handle, Spec
    <3>6. Creates(w, f) /\ Creates(w, g)
      BY <1>1, <3>4, <3>5 DEF Creates, AfterLists, CreatePoints, VerifiedAt
    <3> QED
      BY <3>2, <3>3, <3>6
  <2>3. CASE \E r \in Labelled(Spec(w)) : Read(w, ClaimSeen(w, r))
    <3>1. PICK r \in Labelled(Spec(w)) : Read(w, ClaimSeen(w, r))
      BY <2>3
    <3>2. \/ work' = [work EXCEPT ![w] = Idle]
          \/ work' = [work EXCEPT ![w] =
                        [Go(w, "fix") EXCEPT !.h.res = r.id, !.etag = r.etag]]
          \/ work' = [work EXCEPT ![w] = [Go(w, "getDir") EXCEPT !.h.res = r.id, !.round = 1]]
      BY <3>1 DEF Read, ClaimSeen
    <3> QED
      BY <1>2, <2>1, <2>2, <3>2 DEF Goes, GoesTo
  <2> QED
    BY <1>2, <1>3, <1>5, <2>3 DEF Claim, Reclaim, Read
<1>6. CASE PostShare(w)
  <2> DEFINE m == [op |-> "post", spec |-> Spec(w)]
             after == [a \in Answers |->
                CASE a = "ok" -> [Go(w, "getDir") EXCEPT !.h.res = nextId]
                  [] a \in {"exists", "lost"} -> Go(w, "reclaim")
                  [] OTHER -> Idle]
  <2>1. Answer(m) \in {"ok", "exists", "missing"} /\ Send(w, m, after)
    BY <1>6 DEF Answer, PostShare
  <2>2. /\ after["ok"] = [Go(w, "getDir") EXCEPT !.h.res = nextId]
        /\ after["exists"] = Go(w, "reclaim") /\ after["lost"] = Go(w, "reclaim")
        /\ after["missing"] = Idle
    BY DEF Answers
  <2> HIDE DEF m, after
  <2>3. \/ work' = [work EXCEPT ![w] = Idle]
        \/ work' = [work EXCEPT ![w] = Go(w, "reclaim")]
        \/ work' = [work EXCEPT ![w] = [Go(w, "getDir") EXCEPT !.h.res = nextId]]
    BY <2>1, <2>2 DEF Send
  <2>4. nextId \in Nat
    BY DEF Base, CoreOK, CoreTypes
  <2> QED
    BY <1>2, <1>3, <1>4, <2>3, <2>4
<1> QED
  BY <1>5, <1>6

\* The PATCH of the settings of a share that is ours.
LEMMA FixShareGoes ==
    ASSUME Base, NEW w \in Workers, FixShare(w)
    PROVE  Goes(w)
<1> DEFINE m == [op |-> "fix", res |-> work[w].h.res, etag |-> work[w].etag]
           after == [a \in Answers |->
                CASE a = "ok" -> [Go(w, "getDir") EXCEPT !.etag = 0, !.round = 1]
                  [] a = "stale" -> [Retry(w, "reclaim") EXCEPT !.h.res = 0]
                  [] a = "lost" -> work[w]
                  [] OTHER -> Idle]
<1>1. Answer(m) \in {"ok", "stale", "missing"} /\ Send(w, m, after)
  BY DEF Answer, IfMatch, FixShare
<1>2. /\ after["ok"] = [Go(w, "getDir") EXCEPT !.etag = 0, !.round = 1]
      /\ after["stale"] = [Retry(w, "reclaim") EXCEPT !.h.res = 0]
      /\ after["lost"] = work[w] /\ after["missing"] = Idle
  BY DEF Answers
<1>3. work[w].pc = "fix" /\ work[w].pc \in AfterLists
  BY DEF FixShare, At, AfterLists, CreatePoints
<1> HIDE DEF m, after
<1>4. \/ work' = [work EXCEPT ![w] = Idle]
      \/ work' = [work EXCEPT ![w] = work[w]]
      \/ work' = [work EXCEPT ![w] = [Go(w, "getDir") EXCEPT !.etag = 0, !.round = 1]]
      \/ work' = [work EXCEPT ![w] = [Retry(w, "reclaim") EXCEPT !.h.res = 0]]
  BY <1>1, <1>2 DEF Send
<1>5. ASSUME NEW k \in Locals, work' = [work EXCEPT ![w] = k],
             \/ k.pc = "idle"
             \/ k.pc \in {"fix", "getDir", "reclaim"} /\ k.h.spec = Spec(w)
      PROVE  Goes(w)
  <2>1. k.pc = "idle" \/ Creates(w, k)
    BY <1>3, <1>5 DEF Creates, AfterLists, CreatePoints, VerifiedAt
  <2> QED
    BY <1>5, <2>1 DEF Goes, GoesTo
<1>6. CASE work' = [work EXCEPT ![w] = work[w]]
  BY <1>3, <1>5, <1>6, WorkType DEF Spec
<1>7. CASE work' = [work EXCEPT ![w] = [Go(w, "getDir") EXCEPT !.etag = 0, !.round = 1]]
  <2>1. /\ Go(w, "getDir") \in Locals /\ Go(w, "getDir").pc = "getDir"
        /\ Go(w, "getDir").h = work[w].h
    BY GoType DEF Points, CreatePoints
  <2>2. PICK k \in Locals : k = [Go(w, "getDir") EXCEPT !.etag = 0, !.round = 1]
    BY <2>1, FirstRound DEF Locals
  <2>3. k.pc = "getDir" /\ k.h = work[w].h
    BY <2>1, <2>2 DEF Locals
  <2> QED
    BY <1>5, <1>7, <2>2, <2>3 DEF Spec
<1>8. CASE work' = [work EXCEPT ![w] = [Retry(w, "reclaim") EXCEPT !.h.res = 0]]
  <2>1. PICK k \in Locals : /\ k = Retry(w, "reclaim")
                            /\ (k.pc = "reclaim" /\ k.h = work[w].h) \/ k = Idle
    BY RetryIs DEF Points, CreatePoints
  <2>2. PICK c \in Locals : c = [k EXCEPT !.h.res = 0]
    BY DEF Locals, Handle
  <2>3. c.pc = k.pc /\ c.h.spec = k.h.spec
    BY <2>2 DEF Locals, Handle
  <2>4. c.pc = "idle" \/ (c.pc = "reclaim" /\ c.h.spec = Spec(w))
    BY <2>1, <2>3 DEF Idle, Spec
  <2> QED
    BY <1>5, <1>8, <2>1, <2>2, <2>4
<1> QED
  BY <1>4, <1>6, <1>7, <1>8, GoesIdle

\* The quota of a create, and ValidateVolume.
LEMMA ValidGoes ==
    ASSUME Base, NEW w \in Workers, EnsureQuota(w) \/ ValidDir(w) \/ ValidRes(w)
    PROVE  Goes(w)
<1>1. CASE work' = [work EXCEPT ![w] = Idle]
  BY <1>1, GoesIdle
<1>2. CASE EnsureQuota(w) /\ work' = [work EXCEPT ![w] = Go(w, "validDir")]
  <2>1. PICK k \in Locals : k = Go(w, "validDir") /\ k.pc = "validDir" /\ k.h = work[w].h
    BY GoType DEF Points, CreatePoints
  <2>2. work[w].pc = "quota" /\ work[w].pc \in AfterLists
    BY <1>2 DEF EnsureQuota, At, AfterLists, CreatePoints
  <2>3. Path(w) = Opts[k.h.spec].path /\ Spec(w) = k.h.spec /\ Path(w) \in Paths
    BY <2>1, WorkType DEF Path, Spec
  <2>4. QuotaSet(k.h)'
    <3>1. CASE Opts[Spec(w)].cap = 0 /\ dir' = dir
      <4>1. dir'[Path(w)].quota \in Nat
        BY <2>3, <3>1 DEF Base, CoreOK, CoreTypes
      <4> QED
        BY <2>3, <3>1, <4>1 DEF QuotaSet
    <3>2. CASE dir' = [p \in Paths |->
                         IF dir[p].id = work[w].h.dir /\ dir[p].quota < Opts[Spec(w)].cap
                         THEN [dir[p] EXCEPT !.quota = Opts[Spec(w)].cap] ELSE dir[p]]
      <4>1. Opts[Spec(w)].cap \in Nat
        BY WorkType, OptsAssumption
      <4> DEFINE d == dir[Path(w)]
                 cap == Opts[Spec(w)].cap
      <4>2. d \in [id : Nat, mode : Nat, quota : Nat]
        BY <2>3 DEF Base, CoreOK, CoreTypes
      <4>3. dir'[Path(w)] = IF d.id = work[w].h.dir /\ d.quota < cap
                            THEN [d EXCEPT !.quota = cap] ELSE d
        BY <2>3, <3>2
      <4>4. dir'[Path(w)].id = work[w].h.dir => dir'[Path(w)].quota >= cap
        <5> HIDE DEF d, cap
        <5> QED
          BY <4>1, <4>2, <4>3 DEF cap
      <4> QED
        BY <2>1, <2>3, <4>4 DEF QuotaSet
    <3>3. work[w].pc # "idle" /\ Go(w, "validDir") # Idle
      BY <2>1, <2>2 DEF Idle
    <3>4. work'[w] # Idle
      BY <1>2, <3>3 DEF Base
    <3>5. ~Read(w, Idle)
      BY <3>4 DEF Read, Base
    <3> QED
      BY <1>2, <3>1, <3>2, <3>5 DEF EnsureQuota, GrowQuota, Read, core
  <2>5. Creates(w, k)
    BY <2>1, <2>2, <2>4 DEF Creates, AfterLists, CreatePoints, VerifiedAt, Spec
  <2> QED
    BY <1>2, <2>1, <2>5 DEF Goes, GoesTo
<1>3. CASE At(w, "validDir") /\ work' = [work EXCEPT ![w] = Go(w, "validRes")]
  <2>1. PICK k \in Locals : k = Go(w, "validRes") /\ k.pc = "validRes" /\ k.h = work[w].h
    BY GoType DEF Points, CreatePoints
  <2>2. Creates(w, k)
    BY <1>3, <2>1 DEF Creates, At, AfterLists, CreatePoints, VerifiedAt, Spec
  <2> QED
    BY <1>3, <2>1, <2>2 DEF Goes, GoesTo
<1>4. CASE At(w, "xValidDir") /\ work' = [work EXCEPT ![w] = Go(w, "xValidRes")]
  <2>1. PICK k \in Locals : k = Go(w, "xValidRes") /\ k.pc = "xValidRes" /\ k.h = work[w].h
    BY GoType DEF Points, ExpandPoints
  <2> QED
    BY <1>4, <2>1 DEF Goes, GoesTo, At, ExpandPoints
<1>5. CASE EnsureQuota(w)
  BY <1>1, <1>2, <1>5 DEF EnsureQuota, GrowQuota, Read
<1>6. CASE ValidDir(w)
  <2>1. PICK p \in {<<"validDir", "validRes">>, <<"xValidDir", "xValidRes">>} :
             At(w, p[1]) /\ (Read(w, Go(w, p[2])) \/ Read(w, Idle))
    BY <1>6 DEF ValidDir
  <2> QED
    BY <1>1, <1>3, <1>4, <2>1 DEF Read
<1>7. CASE ValidRes(w)
  BY <1>1, <1>7 DEF ValidRes
<1> QED
  BY <1>5, <1>6, <1>7

\* The steps of ControllerExpandVolume.
LEMMA ExpandGoes ==
    ASSUME Base, NEW w \in Workers, ExpandStep(w)
    PROVE  Goes(w)
<1>1. CASE work' = [work EXCEPT ![w] = Idle]
  BY <1>1, GoesIdle
<1>2. CASE At(w, "xValidRes") /\ work' = [work EXCEPT ![w] = Go(w, "xQuota")]
  <2>1. PICK k \in Locals : k = Go(w, "xQuota") /\ k.pc = "xQuota" /\ k.h = work[w].h
    BY GoType DEF Points, ExpandPoints
  <2> QED
    BY <1>2, <2>1 DEF Goes, GoesTo, At, ExpandPoints
<1> QED
  BY <1>1, <1>2 DEF ExpandStep, ExpandValidRes, ExpandQuota, GrowQuota, Read

\* The steps of DeleteVolume.
LEMMA DeleteGoes ==
    ASSUME Base, NEW w \in Workers, DeleteStep(w)
    PROVE  Goes(w)
<1>1. work[w].pc \in DeletePoints
  BY DEF DeleteStep, GetAttrs, Prepare, Tombstone, TreeDelete, TreeReget, Await, Drop,
         DropIfMatch, At, DeletePoints
<1>2. CASE work' = [work EXCEPT ![w] = Idle]
  BY <1>2, GoesIdle
<1>3. ASSUME NEW k \in Locals, work' = [work EXCEPT ![w] = k],
             k.pc \in DeletePoints, k.h = work[w].h
      PROVE  Goes(w)
  BY <1>1, <1>3 DEF Goes, GoesTo
<1>4. CASE \E p \in DeletePoints : work' = [work EXCEPT ![w] = Go(w, p)]
  BY <1>3, <1>4, GoType DEF Points
<1>5. CASE \E p \in DeletePoints, e \in Nat :
              work' = [work EXCEPT ![w] = [Go(w, p) EXCEPT !.etag = e]]
  <2>1. PICK p \in DeletePoints, e \in Nat :
              work' = [work EXCEPT ![w] = [Go(w, p) EXCEPT !.etag = e]]
    BY <1>5
  <2>2. Go(w, p) \in Locals /\ Go(w, p).pc = p /\ Go(w, p).h = work[w].h
    BY GoType DEF Points
  <2>3. PICK k \in Locals : k = [Go(w, p) EXCEPT !.etag = e]
    BY <2>2 DEF Locals
  <2>4. k.pc = p /\ k.h = work[w].h
    BY <2>2, <2>3 DEF Locals
  <2> QED
    BY <1>3, <2>1, <2>3, <2>4
<1>6. CASE work' = [work EXCEPT ![w] = ClaimHeld(w)]
  BY <1>3, <1>6, ClaimHeldType DEF DeletePoints
<1>0. CASE \E p \in DeletePoints : work' = [work EXCEPT ![w] = Retry(w, p)]
  <2>1. PICK p \in DeletePoints : work' = [work EXCEPT ![w] = Retry(w, p)]
    BY <1>0
  <2>2. PICK k \in Locals : /\ k = Retry(w, p)
                            /\ (k.pc = p /\ k.h = work[w].h) \/ k = Idle
    BY RetryIs DEF Points
  <2> QED
    BY <1>2, <1>3, <2>1, <2>2
<1>7. CASE GetAttrs(w)
  <2>1. PICK f \in BOOLEAN : f = (dir[Path(w)] # NoDir)
    BY Zenon
  <2>2. CASE work' = [work EXCEPT ![w] = [Go(w, "prepare") EXCEPT !.found = f]]
    <3>1. /\ Go(w, "prepare") \in Locals /\ Go(w, "prepare").pc = "prepare"
          /\ Go(w, "prepare").h = work[w].h
      BY GoType DEF Points, DeletePoints
    <3>2. PICK k \in Locals : k = [Go(w, "prepare") EXCEPT !.found = f]
      BY <3>1 DEF Locals
    <3>3. k.pc \in DeletePoints /\ k.h = work[w].h
      BY <3>1, <3>2 DEF Locals, DeletePoints
    <3> QED
      BY <1>3, <2>2, <3>2, <3>3
  <2> QED
    BY Zenon, <1>2, <1>7, <2>1, <2>2 DEF GetAttrs, Read
<1>8. CASE Prepare(w)
  <2>1. \A r \in Share(work[w].h.res) : r.etag \in Nat
    BY DEF Share, Base, CoreOK, CoreTypes, ShareType
  <2>2. CASE Deleted(w)
    BY <1>2, <2>2 DEF Deleted
  <2>3. CASE Read(w, ClaimHeld(w))
    BY <1>6, <2>3 DEF Read
  <2>4. CASE \E r \in Share(work[w].h.res) : Read(w, [Go(w, "tomb") EXCEPT !.etag = r.etag])
    BY <1>5, <2>1, <2>4 DEF Read, DeletePoints
  <2>5. CASE Read(w, Idle)
    BY <1>2, <2>5 DEF Read
  <2> QED
    BY <1>8, <2>2, <2>3, <2>4, <2>5 DEF Prepare
<1>9. CASE Tombstone(w)
  <2> DEFINE m == [op |-> "tomb", h |-> work[w].h, etag |-> work[w].etag]
             after == [a \in Answers |->
                CASE a = "ok" -> ClaimHeld(w)
                  [] a = "stale" -> Retry(w, "prepare")
                  [] a = "lost" -> work[w]
                  [] OTHER -> Idle]
  <2>1. Answer(m) \in {"ok", "stale", "missing"} /\ Send(w, m, after)
    BY <1>9 DEF Answer, IfMatch, Tombstone
  <2>2. /\ after["ok"] = ClaimHeld(w)
        /\ after["stale"] = Retry(w, "prepare")
        /\ after["lost"] = work[w] /\ after["missing"] = Idle
    BY DEF Answers
  <2> HIDE DEF m, after
  <2>3. \/ work' = [work EXCEPT ![w] = Idle]
        \/ work' = [work EXCEPT ![w] = work[w]]
        \/ work' = [work EXCEPT ![w] = ClaimHeld(w)]
        \/ work' = [work EXCEPT ![w] = Retry(w, "prepare")]
    BY <2>1, <2>2 DEF Send
  <2>4. CASE work' = [work EXCEPT ![w] = work[w]]
    BY <1>1, <1>3, <2>4, WorkType
  <2>5. CASE work' = [work EXCEPT ![w] = ClaimHeld(w)]
    BY <1>6, <2>5
  <2>6. CASE work' = [work EXCEPT ![w] = Retry(w, "prepare")]
    BY <1>0, <2>6 DEF DeletePoints
  <2> QED
    BY <1>2, <2>3, <2>4, <2>5, <2>6
<1>10. CASE TreeDelete(w)
  <2> DEFINE m == [op |-> "tree", dir |-> work[w].h.dir]
             after == [a \in Answers |->
                CASE a \in {"ok", "exists"} -> Go(w, "await")
                  [] a = "missing" -> Go(w, "drop")
                  [] OTHER -> Go(w, "treeReget")]
  <2>1. Answer(m) \in {"ok", "exists", "missing"} /\ Send(w, m, after)
    BY <1>10 DEF Answer, TreeDelete
  <2>2. /\ after["ok"] = Go(w, "await") /\ after["exists"] = Go(w, "await")
        /\ after["missing"] = Go(w, "drop") /\ after["lost"] = Go(w, "treeReget")
    BY DEF Answers
  <2> HIDE DEF m, after
  <2>3. \E p \in {"await", "drop", "treeReget"} : work' = [work EXCEPT ![w] = Go(w, p)]
    BY <2>1, <2>2 DEF Send
  <2> QED
    BY <1>4, <2>3 DEF DeletePoints
<1>11. CASE TreeReget(w) \/ Await(w)
  BY <1>2, <1>4, <1>11 DEF TreeReget, Await, Read, DeletePoints
<1>12. CASE Drop(w)
  <2>1. \A r \in Share(work[w].h.res) : r.etag \in Nat
    BY DEF Share, Base, CoreOK, CoreTypes, ShareType
  <2>2. CASE Deleted(w)
    BY <1>2, <2>2 DEF Deleted
  <2>3. CASE \E r \in Share(work[w].h.res) : Read(w, [Go(w, "dropIf") EXCEPT !.etag = r.etag])
    BY <1>5, <2>1, <2>3 DEF Read, DeletePoints
  <2>4. CASE Read(w, Idle)
    BY <1>2, <2>4 DEF Read
  <2> QED
    BY <1>12, <2>2, <2>3, <2>4 DEF Drop
<1>13. CASE DropIfMatch(w)
  <2>1. \/ work' = [work EXCEPT ![w] = Idle]
        \/ work' = [work EXCEPT ![w] = Retry(w, "drop")]
    BY <1>13 DEF DropIfMatch, Read
  <2> QED
    BY <1>0, <1>2, <2>1 DEF DeletePoints
<1> QED
  BY <1>7, <1>8, <1>9, <1>10, <1>11, <1>12, <1>13 DEF DeleteStep

\* Each step of a handler.
LEMMA AdvanceGoes ==
    ASSUME Base, NEW w \in Workers, Advance(w)
    PROVE  Goes(w)
BY ListGoes, DirGoes, MakeDirGoes, ChangeModeGoes, ShareGoes, FixShareGoes,
   ValidGoes, ExpandGoes, DeleteGoes DEF Advance, CreateStep

\* A handler starts.
Starts(w) ==
    \E k \in Locals :
        /\ At(w, "idle") /\ work' = [work EXCEPT ![w] = k]
        /\ UNCHANGED core /\ hist'.issued = hist.issued
        /\ \/ k.pc = "listNFS" /\ LocksFree(w, k.h.spec, TRUE)
           \/ k.pc \in DeletePoints /\ LocksFree(w, k.h.spec, FALSE)
           \/ k.pc \in ExpandPoints

\* Every step moves at most one handler, and in one of these ways.
LEMMA StepGoes ==
    ASSUME Base, [Next]_vars
    PROVE  UNCHANGED work \/ \E w \in Workers : Goes(w) \/ Starts(w)
<1>1. CASE UNCHANGED vars
  BY <1>1 DEF vars
<1>2. CASE External
  BY <1>2, ExternalMoves
<1>3. ASSUME NEW w \in Workers,
             StartCreate(w) \/ StartExpand(w) \/ StartDelete(w) \/ Advance(w) \/ RequestFails(w)
      PROVE  Goes(w) \/ Starts(w)
  <2>1. ASSUME NEW p, NEW h \in Handle, StartRequest(w, p, h), p \in Points,
               hist'.issued = hist.issued,
               \/ p = "listNFS" /\ LocksFree(w, h.spec, TRUE)
               \/ p \in DeletePoints /\ LocksFree(w, h.spec, FALSE)
               \/ p \in ExpandPoints
        PROVE  Starts(w)
    <3>1. PICK k \in Locals : k = [Idle EXCEPT !.pc = p, !.h = h]
      BY <2>1, IdleType DEF Locals
    <3>2. k.pc = p /\ k.h = h
      BY <3>1, IdleType DEF Locals
    <3> QED
      BY <2>1, <3>1, <3>2 DEF Starts, StartRequest
  <2>2. CASE StartCreate(w)
    <3>1. PICK s \in Specs :
             /\ LocksFree(w, s, TRUE)
             /\ StartRequest(w, "listNFS", [spec |-> s, dir |-> 0, res |-> 0])
             /\ UNCHANGED hist
      BY <2>2 DEF StartCreate
    <3>2. [spec |-> s, dir |-> 0, res |-> 0] \in Handle
      BY DEF Handle
    <3>3. PICK h \in Handle : h = [spec |-> s, dir |-> 0, res |-> 0]
      BY <3>2
    <3>4. h.spec = s
      BY <3>3
    <3> QED
      BY <2>1, <3>1, <3>3, <3>4 DEF Points, CreatePoints
  <2>3. CASE StartExpand(w)
    <3>1. PICK h \in hist.issued : StartRequest(w, "xValidDir", h) /\ UNCHANGED hist
      BY <2>3 DEF StartExpand
    <3>2. h \in Handle
      BY DEF Base, CoreOK, CoreTypes
    <3> QED
      BY <2>1, <3>1, <3>2 DEF Points, ExpandPoints
  <2>4. CASE StartDelete(w)
    <3>1. PICK h \in hist.issued :
             /\ LocksFree(w, h.spec, FALSE)
             /\ StartRequest(w, IF Opts[h.spec].deleteData THEN "attrs" ELSE "drop", h)
             /\ hist' = [hist EXCEPT !.delReq = @ \cup {h}]
      BY <2>4 DEF StartDelete
    <3>2. h \in Handle /\ hist'.issued = hist.issued
      BY <3>1 DEF Base, CoreOK, CoreTypes
    <3> QED
      BY <2>1, <3>1, <3>2 DEF Points, DeletePoints
  <2>5. CASE Advance(w)
    BY <2>5, AdvanceGoes
  <2>6. CASE RequestFails(w)
    BY <2>6, GoesIdle DEF RequestFails, Read
  <2> QED
    BY <1>3, <2>2, <2>3, <2>4, <2>5, <2>6
<1> QED
  BY <1>1, <1>2, <1>3 DEF Next

(***************************************************************************)
(* One label per path                                                      *)
(***************************************************************************)

\* Specifications with the same directory export it under the same label.
OneLabelPerPath ==
    \A s, t \in Specs : Opts[s].path = Opts[t].path =>
        Opts[s].proto = Opts[t].proto /\ Label(s) = Label(t)

\* Handles that callers hold, or that a handler has seen the directory of.
Held == hist.issued \cup {work[w].h : w \in {v \in Workers : VerifiedAt(work[v])}}

\* A volume whose share is in order has not been given up for deletion.
Intact == \A h \in Held : ShareValid(h) => h.dir \notin hist.destroyed

\* The handles held are in order.
LEMMA HeldType ==
    ASSUME Base, NEW h \in Held
    PROVE  h \in Handle /\ HandleOK(h)
<1>1. CASE h \in hist.issued
  BY <1>1 DEF Base, CoreOK, CoreTypes, HistOK
<1>2. CASE h \notin hist.issued
  <2>1. PICK w \in Workers : VerifiedAt(work[w]) /\ h = work[w].h
    BY <1>2 DEF Held
  <2> QED
    BY <2>1, WorkType DEF VerifiedAt, LocalOK, CreateOK, CreatePoints
<1> QED
  BY <1>1, <1>2

\* Handles that are held are in order.
HeldHandles == \A h \in Held : h \in Handle /\ HandleOK(h)

\* The same after the step.
LEMMA HeldTypeNext == Base' => \A h \in Held' : h \in Handle /\ HandleOK(h)'
<1>1. Base => HeldHandles
  BY HeldType DEF HeldHandles
<1>2. Base' => HeldHandles'
  BY <1>1, PTL
<1> QED
  BY <1>2 DEF HeldHandles

\* How a handle comes to be held.
LEMMA HeldGrows ==
    ASSUME Base, Base', [Next]_vars, NEW h \in Held'
    PROVE  \/ h \in Held
           \/ UNCHANGED <<core, hist>> /\ dir[Opts[h.spec].path].id = h.dir
<1>1. CASE h \in hist'.issued
  <2>1. CASE hist'.issued = hist.issued
    BY <1>1, <2>1 DEF Held
  <2>2. CASE \E w \in Workers : Issues(w)
    <3>1. PICK w \in Workers : Issues(w)
      BY <2>2
    <3>2. VerifiedAt(work[w]) /\ hist'.issued = hist.issued \cup {work[w].h}
      BY <3>1 DEF Issues, At, VerifiedAt
    <3> QED
      BY <1>1, <3>2 DEF Held
  <2> QED
    BY <2>1, <2>2, StepMoves
<1>2. CASE h \notin hist'.issued
  <2>1. PICK v \in Workers : VerifiedAt(work'[v]) /\ h = work'[v].h
    BY <1>2 DEF Held, VerifiedAt
  <2>2. CASE work'[v] = work[v]
    BY <2>1, <2>2 DEF Held
  <2>3. CASE work'[v] # work[v]
    <3>1. PICK w \in Workers : Goes(w) \/ Starts(w)
      BY <2>3, StepGoes
    <3>2. PICK k \in Locals : /\ work' = [work EXCEPT ![w] = k]
                              /\ \/ GoesTo(w, k)
                                 \/ k.pc \in {"listNFS"} \cup DeletePoints \cup ExpandPoints
      BY <3>1 DEF Goes, Starts
    <3>3. v = w /\ work'[v] = k
      BY <2>3, <3>2 DEF Base
    <3>4. Creates(w, k)
      BY <2>1, <3>2, <3>3 DEF GoesTo, VerifiedAt, DeletePoints, ExpandPoints
    <3>5. \/ VerifiedAt(work[w])
          \/ UNCHANGED <<core, hist>> /\ dir[Path(w)].id = work[w].h.dir
      BY <2>1, <3>3, <3>4 DEF Creates
    <3>6. h = work[w].h
      BY <2>1, <3>3, <3>4 DEF Creates
    <3> QED
      BY <3>5, <3>6 DEF Held, Path, Spec
  <2> QED
    BY <2>2, <2>3
<1> QED
  BY <1>1, <1>2

\* ValidateVolume accepts a handle exactly when its share is managed still.
LEMMA ValidShare ==
    ASSUME NEW h \in Handle, HandleOK(h), CoreOK
    PROVE  ShareValid(h) <=> \E r \in shares : /\ r.id = h.res /\ r.spec = h.spec
                                               /\ r.desc = Managed(h.spec)
BY DEF ShareValid, ExactMatch, Share, HandleOK

\* A share that is lost stays lost.
LEMMA ValidBefore ==
    ASSUME Base, Base', Moved, NEW h \in Handle, HandleOK(h), HandleOK(h)', ShareValid(h)'
    PROVE  ShareValid(h)
<1>1. PICK r \in shares' : r.id = h.res /\ r.spec = h.spec /\ r.desc = Managed(h.spec)
  BY ValidShare DEF Base, ShareValid, ExactMatch, Share, HandleOK
<1>2. \E q \in shares : Same(r, q)
  <2>1. r.desc.kind # "deleting"
    BY <1>1 DEF Managed
  <2>2. h.res < nextId /\ h.res \in Nat /\ nextId \in Nat
    BY DEF HandleOK, Handle, Base, CoreOK, CoreTypes
  <2> QED
    BY <1>1, <2>1, <2>2 DEF Moved
<1> QED
  BY <1>1, <1>2, ValidShare DEF Base, Same

\* A volume whose share is in order carries no claim, so no other handle for its
\* directory carries one: with one label per path they have the same share.
LEMMA ClaimOrValid ==
    ASSUME OneLabelPerPath, Base, NEW h \in Handle, HandleOK(h), ShareValid(h), h.dir \in DirIds,
           NEW g \in hist.issued, g.dir = h.dir, NEW r \in shares, r.desc = Deleting(g)
    PROVE  FALSE
<1>1. PICK p \in Paths : dir[p].id = h.dir
  BY DEF DirIds
<1>2. HandleOK(g) /\ g \in Handle /\ g.spec \in Specs /\ h.spec \in Specs
  BY DEF Base, CoreOK, CoreTypes, HistOK, Handle
<1>3. Opts[g.spec].path = Opts[h.spec].path
  BY <1>1, <1>2 DEF HandleOK, Home
<1>4. PICK q \in shares : q.spec = h.spec /\ q.desc = Managed(h.spec)
  BY ValidShare DEF Base
<1>5. r.desc.kind = "deleting" /\ r.desc.of = g
  BY DEF Deleting
<1>6. r.spec = g.spec
  BY <1>5, ClaimIsOf DEF Base, CoreOK, ClaimedOnRequest
<1>7. q = r
  BY <1>2, <1>3, <1>4, <1>6 DEF OneLabelPerPath, Base, CoreOK, ShareOK
<1> QED
  BY <1>4, <1>5, <1>7 DEF Managed

\* No step destroys the data of a volume whose share is in order.
LEMMA IntactStays ==
    ASSUME OneLabelPerPath, Base, Base', Intact, [Next]_vars
    PROVE  Intact'
<1>1. Moved
  BY StepMoves
<1> SUFFICES ASSUME NEW h \in Held', ShareValid(h)' PROVE h.dir \notin hist'.destroyed
  BY DEF Intact
<1>2. h \in Handle /\ HandleOK(h)'
  BY HeldTypeNext
<1>3. CASE h \in Held
  <2>1. HandleOK(h)
    BY <1>3, HeldType
  <2>2. ShareValid(h) /\ h.dir \notin hist.destroyed
    BY <1>1, <1>2, <1>3, <2>1, ValidBefore DEF Intact
  <2> SUFFICES ASSUME h.dir \in hist'.destroyed PROVE FALSE
    OBVIOUS
  <2>3. PICK g \in hist.delReq : g.dir = h.dir /\ h.dir \in DirIds /\ ClaimedBy(g)
    BY <1>1, <2>2 DEF Moved
  <2>4. g \in hist.issued
    BY DEF Base, CoreOK, HistOK
  <2> QED
    BY <1>2, <2>1, <2>2, <2>3, <2>4, ClaimOrValid DEF ClaimedBy
<1>4. CASE UNCHANGED <<core, hist>> /\ dir[Opts[h.spec].path].id = h.dir
  <2>1. HandleOK(h) /\ ShareValid(h)
    BY <1>2, <1>4 DEF HandleOK, Home, ShareValid, ExactMatch, Share, core
  <2> SUFFICES ASSUME h.dir \in hist.destroyed PROVE FALSE
    BY <1>4
  <2>2. h.dir \in DirIds
    BY <1>2, <1>4, <2>1 DEF DirIds, HandleOK, Paths, Handle
  <2>3. PICK r \in shares : r.desc.kind = "deleting" /\ r.desc.of.dir = h.dir
    BY <2>2 DEF Base, CoreOK, HistOK, ClaimedOrGone, Gone
  <2>4. r.desc = Deleting(r.desc.of) /\ r.desc.of \in hist.issued
    BY <2>3, ClaimIsOf DEF Base, CoreOK, ClaimedOnRequest
  <2> QED
    BY <1>2, <2>1, <2>2, <2>3, <2>4, ClaimOrValid
<1> QED
  BY <1>3, <1>4, HeldGrows

\* Initially nothing is held.
LEMMA InitIntact == Init => Intact
BY DEF Init, Intact, Held, VerifiedAt, Idle

\* With one label per path, a volume whose share ValidateVolume accepts has not
\* been given up for deletion, at any time (driver.go:201).
THEOREM IntactInv ==
    ASSUME OneLabelPerPath
    PROVE  Behaviour => []Intact
<1>1. Base /\ Base' /\ Intact /\ [Next]_vars => Intact'
  BY IntactStays
<1> QED
  BY <1>1, InitIntact, BaseInv, PTL DEF Behaviour

\* With one label per path CreateVolume returns no volume whose data is being or
\* has been deleted (driver.go:201, backend.go:248).
THEOREM ReturnedVolumesIntact ==
    ASSUME OneLabelPerPath
    PROVE  Behaviour => []ReturnedIsIntact
<1>1. Intact => ReturnedIsIntact
  BY DEF Intact, Held, VerifiedAt, ReturnedIsIntact, At
<1> QED
  BY <1>1, IntactInv, PTL

(***************************************************************************)
(* No operator either                                                      *)
(***************************************************************************)

\* A deletion that was asked for stays asked for.
LEMMA RequestsStay ==
    ASSUME Base, [Next]_vars
    PROVE  hist.delReq \subseteq hist'.delReq
<1>1. ASSUME NEW m \in Write, MsgOK(m), NEW answered, Commit(m, answered)
      PROVE  hist.delReq \subseteq hist'.delReq
  BY <1>1, CommitOK DEF Evolves, Base
<1>2. hist \in [issued : SUBSET Handle, delReq : SUBSET Handle, deleted : SUBSET Handle,
                destroyed : SUBSET Nat, stray : SUBSET Nat]
  BY DEF Base, CoreOK, CoreTypes
<1>3. CASE UNCHANGED vars
  BY <1>3 DEF vars
<1>4. CASE External
  <2>1. \A m \in late : m \in Write /\ MsgOK(m)
    BY DEF Base
  <2> QED
    BY <1>1, <1>4, <2>1 DEF External, LateWrite, JobEnds, JobAborts, OperatorReplaces,
                          OperatorEdits
<1>5. ASSUME NEW w \in Workers,
             StartCreate(w) \/ StartExpand(w) \/ StartDelete(w) \/ Advance(w) \/ RequestFails(w)
      PROVE  hist.delReq \subseteq hist'.delReq
  <2>1. CASE StartCreate(w) \/ StartExpand(w) \/ StartDelete(w)
    BY <1>2, <2>1 DEF StartCreate, StartExpand, StartDelete
  <2>2. CASE Advance(w)
    <3>1. CASE Reads(w) \/ Grows(w)
      BY <3>1 DEF Reads, Grows
    <3>2. CASE Writes(w)
      BY <1>1, <3>2 DEF Writes
    <3>3. CASE Deleted(w) \/ ValidRes(w)
      BY <1>2, <3>3 DEF Deleted, ValidRes
    <3>4. CASE DropIfMatch(w)
      BY <1>2, <3>4 DEF DropIfMatch, Read
    <3> QED
      BY <2>2, <3>1, <3>2, <3>3, <3>4, AdvanceKind DEF Kinds
  <2>3. CASE RequestFails(w)
    BY <2>3 DEF RequestFails, Read
  <2> QED
    BY <1>5, <2>1, <2>2, <2>3
<1> QED
  BY <1>3, <1>4, <1>5 DEF Next

\* The directory of a volume whose share is in order is at its path, and a
\* volume nobody has asked to delete has its share.
Standing ==
    /\ \A h \in Held : ShareValid(h) => dir[Opts[h.spec].path].id = h.dir
    /\ \A h \in Live : ShareValid(h)

\* No step takes the directory or the share of a volume that nobody has asked
\* to delete.
LEMMA StandingStays ==
    ASSUME OneLabelPerPath, MaxReplaced = 0, Base, Base', Intact, Standing, [Next]_vars
    PROVE  Standing'
<1>1. Moved
  BY StepMoves
<1>2. ASSUME NEW h \in Held', ShareValid(h)' PROVE dir'[Opts[h.spec].path].id = h.dir
  <2>1. h \in Handle /\ HandleOK(h)'
    BY HeldTypeNext
  <2>2. CASE h \in Held
    <3>1. HandleOK(h)
      BY <2>2, HeldType
    <3>2. ShareValid(h)
      BY <1>1, <1>2, <2>1, <3>1, ValidBefore
    <3>3. h.dir \notin hist.destroyed /\ dir[Opts[h.spec].path].id = h.dir
      BY <2>2, <3>2 DEF Intact, Standing
    <3>4. h.dir # 0 /\ h.dir \notin jobs
      BY <3>1, <3>3 DEF HandleOK, Base, CoreOK, DirOK
    <3>5. Opts[h.spec].path \in Paths
      BY <2>1 DEF Paths, Handle
    <3> QED
      BY <1>1, <3>3, <3>4, <3>5 DEF Moved, DirMoved, NoDir
  <2>3. CASE UNCHANGED <<core, hist>> /\ dir[Opts[h.spec].path].id = h.dir
    BY <2>3 DEF core
  <2> QED
    BY <2>2, <2>3, HeldGrows
<1>3. ASSUME NEW h \in Live' PROVE ShareValid(h)'
  <2>1. h \in hist'.issued /\ h \notin hist.delReq
    BY RequestsStay DEF Live
  <2>2. CASE h \in hist.issued
    <3>1. h \in Handle /\ HandleOK(h) /\ ShareValid(h) /\ h \in Held
      BY <2>1, <2>2 DEF Standing, Live, Base, CoreOK, CoreTypes, HistOK, Held
    <3>2. PICK r \in shares : r.id = h.res /\ r.spec = h.spec /\ r.desc = Managed(h.spec)
      BY <3>1, ValidShare DEF Base
    <3>3. ASSUME NEW g \in hist.delReq, g.res = r.id PROVE FALSE
      <4>1. g \in hist.issued /\ g \in Handle /\ HandleOK(g) /\ g \in Held
        BY DEF Base, CoreOK, CoreTypes, HistOK, Held
      <4>2. g.spec = h.spec
        BY <3>2, <3>3, <4>1 DEF HandleOK, Share
      <4>3. ShareValid(g)
        BY <3>2, <3>3, <4>1, <4>2, ValidShare DEF Base
      <4>4. g.dir = h.dir
        BY <3>1, <4>1, <4>2, <4>3 DEF Standing
      <4>5. g = h
        BY <3>1, <3>2, <3>3, <4>1, <4>2, <4>4 DEF Handle
      <4> QED
        BY <2>1, <4>5
    <3>4. r.desc.kind # "deleting"
      BY <3>2 DEF Managed
    <3>5. \E q \in shares' : Same(q, r)
      BY <1>1, <3>3, <3>4 DEF Moved
    <3> QED
      BY <3>2, <3>5 DEF ShareValid, ExactMatch, Share, Same
  <2>3. CASE h \notin hist.issued
    <3>1. PICK w \in Workers : Issues(w)
      BY <2>1, <2>3, StepMoves
    <3>2. h = work[w].h /\ ShareValid(work[w].h) /\ shares' = shares
      BY <2>1, <2>3, <3>1 DEF Issues, core
    <3> QED
      BY <3>2 DEF ShareValid, ExactMatch, Share
  <2> QED
    BY <2>2, <2>3
<1> QED
  BY <1>2, <1>3 DEF Standing

\* Initially no volume is handed out.
LEMMA InitStanding == Init => Standing
BY DEF Init, Standing, Held, Live, VerifiedAt, Idle

\* With one label per path and no operator, a volume keeps its directory, its
\* data and its share until its caller asks to delete it (driver.go:218).
THEOREM LiveVolumesSurvive ==
    ASSUME OneLabelPerPath, MaxReplaced = 0
    PROVE  Behaviour => []VolumesSurvive
<1>1. Base /\ Base' /\ Intact /\ Standing /\ [Next]_vars => Standing'
  BY StandingStays
<1>2. Intact /\ Standing => VolumesSurvive
  BY DEF Intact, Standing, VolumesSurvive, Held, Live
<1> QED
  BY <1>1, <1>2, InitStanding, IntactInv, BaseInv, PTL DEF Behaviour

(***************************************************************************)
(* One controller process                                                  *)
(***************************************************************************)

\* All requests are served by one process, as a Lease sees to.
SingleProcess == \A v, w \in Workers : ReplicaOf[v] = ReplicaOf[w]

\* The locks keep apart what they are for.
Exclusive ==
    \A v, w \in Workers : v # w /\ Locking(v) /\ Locking(w) =>
        /\ Path(v) # Path(w)
        /\ work[v].pc \in CreatePoints /\ work[w].pc \in CreatePoints =>
             Opts[Spec(v)].name # Opts[Spec(w)].name

\* No volume handed out stands in the way of this specification.
CheckedFor(s, protos) ==
    \A h \in hist.issued :
        /\ ShareValid(h) /\ Opts[h.spec].proto \in protos
        /\ Opts[h.spec].name = Opts[s].name \/ Opts[h.spec].path = Opts[s].path
        => h.spec = s

\* What CheckVolume has found out so far.
Checked(w) ==
    /\ work[w].pc = "listSMB" => CheckedFor(Spec(w), {"nfs"})
    /\ work[w].pc \in AfterLists => CheckedFor(Spec(w), {"nfs", "smb"})

\* Volumes whose shares are in order have names of their own.
NamesApart ==
    \A g, h \in hist.issued :
        ShareValid(g) /\ ShareValid(h) /\ Opts[g.spec].name = Opts[h.spec].name
            => g.spec = h.spec

\* The inductive invariant of one process.
OneName == Exclusive /\ (\A w \in Workers : Checked(w)) /\ NamesApart

\* A handler keeps to its specification and to its kind of request.
LEMMA PathsKept ==
    ASSUME Base, NEW w \in Workers, NEW k \in Locals, GoesTo(w, k),
           k.pc \in CreatePoints \cup DeletePoints
    PROVE  /\ Locking(w) /\ k.h.spec = Spec(w)
           /\ k.pc \in CreatePoints => work[w].pc \in CreatePoints
BY DEF GoesTo, Creates, Locking, At, Spec, AfterLists, CreatePoints, DeletePoints, ExpandPoints

\* The locks of the process stay exclusive.
LEMMA ExclusiveStays ==
    ASSUME SingleProcess, Base, Exclusive, [Next]_vars
    PROVE  Exclusive'
<1>1. CASE UNCHANGED work
  BY <1>1 DEF Exclusive, Locking, Path, Spec
<1>2. ASSUME NEW w \in Workers, NEW k \in Locals, work' = [work EXCEPT ![w] = k],
             k.pc \in CreatePoints \cup DeletePoints =>
               \A v \in Workers \ {w} : Locking(v) =>
                  /\ Path(v) # Opts[k.h.spec].path
                  /\ work[v].pc \in CreatePoints /\ k.pc \in CreatePoints =>
                       Opts[Spec(v)].name # Opts[k.h.spec].name
      PROVE  Exclusive'
  <2>1. work'[w] = k /\ \A v \in Workers \ {w} : work'[v] = work[v]
    BY <1>2 DEF Base
  <2> QED
    BY <1>2, <2>1 DEF Exclusive, Locking, Path, Spec
<1>3. ASSUME NEW w \in Workers, Goes(w) PROVE Exclusive'
  <2>1. PICK k \in Locals : work' = [work EXCEPT ![w] = k] /\ GoesTo(w, k)
    BY <1>3 DEF Goes
  <2>2. ASSUME k.pc \in CreatePoints \cup DeletePoints, NEW v \in Workers \ {w}, Locking(v)
        PROVE  /\ Path(v) # Opts[k.h.spec].path
               /\ work[v].pc \in CreatePoints /\ k.pc \in CreatePoints =>
                    Opts[Spec(v)].name # Opts[k.h.spec].name
    BY <2>1, <2>2, PathsKept DEF Exclusive, Path
  <2> QED
    BY <1>2, <2>1, <2>2
<1>4. ASSUME NEW w \in Workers, Starts(w) PROVE Exclusive'
  <2>1. PICK k \in Locals :
           /\ work' = [work EXCEPT ![w] = k]
           /\ \/ k.pc = "listNFS" /\ LocksFree(w, k.h.spec, TRUE)
              \/ k.pc \in DeletePoints /\ LocksFree(w, k.h.spec, FALSE)
              \/ k.pc \in ExpandPoints
    BY <1>4 DEF Starts
  <2>2. ASSUME k.pc \in CreatePoints \cup DeletePoints, NEW v \in Workers \ {w}, Locking(v)
        PROVE  /\ Path(v) # Opts[k.h.spec].path
               /\ work[v].pc \in CreatePoints /\ k.pc \in CreatePoints =>
                    Opts[Spec(v)].name # Opts[k.h.spec].name
    BY <2>1, <2>2 DEF SingleProcess, LocksFree, CreatePoints, DeletePoints, ExpandPoints
  <2> QED
    BY <1>2, <2>1, <2>2
<1> QED
  BY <1>1, <1>3, <1>4, StepGoes

\* The handles handed out are in order.
LEMMA HandedOut ==
    ASSUME Base, NEW h \in hist.issued
    PROVE  h \in Handle /\ HandleOK(h) /\ h.spec \in Specs
BY DEF Base, CoreOK, CoreTypes, HistOK, Handle

\* Handles handed out are in order.
HandlesOK == \A h \in hist.issued : h \in Handle /\ HandleOK(h)

\* The same after the step.
LEMMA HandedOutNext == Base' => \A h \in hist'.issued : h \in Handle /\ HandleOK(h)'
<1>1. Base => HandlesOK
  BY HandedOut DEF HandlesOK
<1>2. Base' => HandlesOK'
  BY <1>1, PTL
<1> QED
  BY <1>2 DEF HandlesOK

\* A volume handed out whose share is in order was so before the step.
LEMMA HandedOutBefore ==
    ASSUME Base, Base', [Next]_vars, NEW h \in hist'.issued, ShareValid(h)'
    PROVE  /\ ShareValid(h) /\ h \in Handle /\ HandleOK(h)
           /\ h \in hist.issued \/ \E w \in Workers : Issues(w) /\ h = work[w].h
<1>1. h \in Handle /\ HandleOK(h)'
  BY HandedOutNext
<1>2. Moved /\ (hist'.issued = hist.issued \/ \E w \in Workers : Issues(w))
  BY StepMoves
<1>3. CASE h \in hist.issued
  BY <1>1, <1>2, <1>3, HandedOut, ValidBefore
<1>4. CASE h \notin hist.issued
  <2>1. PICK w \in Workers : Issues(w)
    BY <1>2, <1>4
  <2>2. h = work[w].h /\ ShareValid(work[w].h) /\ core' = core
    BY <1>4, <2>1 DEF Issues
  <2>3. HandleOK(h)
    BY <1>1, <2>2 DEF HandleOK, Home, Share, core
  <2> QED
    BY <1>1, <2>1, <2>2, <2>3
<1> QED
  BY <1>3, <1>4

\* What CheckVolume finds out: a volume in use has a share that it looks at.
LEMMA ListedIsChecked ==
    ASSUME Base, NEW s \in Specs, NEW proto, Listed(s, proto)
    PROVE  CheckedFor(s, {proto})
<1> SUFFICES ASSUME NEW h \in hist.issued, ShareValid(h), Opts[h.spec].proto = proto,
                    Opts[h.spec].name = Opts[s].name \/ Opts[h.spec].path = Opts[s].path
             PROVE  h.spec = s
  BY DEF CheckedFor
<1>1. h \in Handle /\ HandleOK(h)
  BY HandedOut
<1>2. PICK r \in shares : r.spec = h.spec /\ r.desc = Managed(h.spec)
  BY <1>1, ValidShare DEF Base
<1>3. ManagedName(r) = {Opts[h.spec].name}
  BY <1>2 DEF ManagedName, Managed
<1>4. Related(r, s)
  BY <1>2, <1>3 DEF Related
<1>5. ExactMatch(r, s)
  BY <1>2, <1>4 DEF Listed
<1> QED
  BY <1>2, <1>5 DEF ExactMatch, Managed

\* What CheckVolume has found out stays true while no volume with this name or
\* path is handed out.
LEMMA CheckedKept ==
    ASSUME Base, Base', [Next]_vars, NEW s \in Specs, NEW protos, CheckedFor(s, protos),
           \A w \in Workers : Issues(w) => /\ Opts[Spec(w)].name # Opts[s].name
                                           /\ Opts[Spec(w)].path # Opts[s].path
    PROVE  CheckedFor(s, protos)'
<1> SUFFICES ASSUME NEW h \in hist'.issued, ShareValid(h)', Opts[h.spec].proto \in protos,
                    Opts[h.spec].name = Opts[s].name \/ Opts[h.spec].path = Opts[s].path
             PROVE  h.spec = s
  BY DEF CheckedFor
<1>1. /\ ShareValid(h)
      /\ h \in hist.issued \/ \E w \in Workers : Issues(w) /\ h = work[w].h
  BY HandedOutBefore
<1> QED
  BY <1>1 DEF CheckedFor, Spec

\* The locks of a create see to that: what it has checked stays true.
LEMMA CheckedStays ==
    ASSUME Base, Base', Exclusive, [Next]_vars, NEW w \in Workers, Checked(w)
    PROVE  Checked(w)'
<1>1. \A v \in Workers : Issues(v) =>
         /\ work'[v].pc = "idle" /\ \A u \in Workers \ {v} : work'[u] = work[u]
         /\ work[v].pc \in CreatePoints /\ Locking(v)
  BY DEF Issues, At, Idle, CreatePoints, Locking, Base
<1>2. CASE work'[w] = work[w]
  <2> SUFFICES ASSUME work[w].pc \in CreatePoints PROVE Checked(w)'
    BY <1>2 DEF Checked, AfterLists, CreatePoints
  <2>1. \A v \in Workers : Issues(v) => /\ Opts[Spec(v)].name # Opts[Spec(w)].name
                                        /\ Opts[Spec(v)].path # Opts[Spec(w)].path
    <3> SUFFICES ASSUME NEW v \in Workers, Issues(v)
                 PROVE  /\ Opts[Spec(v)].name # Opts[Spec(w)].name
                        /\ Opts[Spec(v)].path # Opts[Spec(w)].path
      OBVIOUS
    <3>1. v # w
      BY <1>1, <1>2 DEF CreatePoints
    <3>2. Locking(w)
      BY DEF Locking
    <3> QED
      BY <1>1, <3>1, <3>2 DEF Exclusive, Path
  <2>2. PICK s \in Specs : s = Spec(w)
    BY WorkType
  <2>3. ASSUME NEW protos, CheckedFor(s, protos) PROVE CheckedFor(s, protos)'
    BY <2>1, <2>2, <2>3, CheckedKept
  <2>4. Spec(w)' = s
    BY <1>2, <2>2 DEF Spec
  <2> QED
    BY <1>2, <2>2, <2>3, <2>4 DEF Checked, CheckedFor
<1>3. CASE work'[w] # work[w]
  <2>1. PICK k \in Locals : /\ work'[w] = k
                            /\ \/ GoesTo(w, k)
                               \/ k.pc \in {"listNFS"} \cup DeletePoints \cup ExpandPoints
    BY <1>3, StepGoes DEF Goes, Starts, Base
  <2> SUFFICES ASSUME k.pc = "listSMB" \/ k.pc \in AfterLists PROVE Checked(w)'
    BY <2>1 DEF Checked
  <2>2. \A v \in Workers : ~Issues(v)
    BY <1>1, <1>3, <2>1 DEF AfterLists, CreatePoints
  <2>3. PICK s \in Specs : s = Spec(w)
    BY WorkType
  <2>4. GoesTo(w, k) /\ k.pc # "idle"
    BY <2>1 DEF AfterLists, CreatePoints, DeletePoints, ExpandPoints
  <2>5. ASSUME NEW protos, CheckedFor(s, protos) PROVE CheckedFor(s, protos)'
    BY <2>2, <2>5, CheckedKept
  <2>6. k.h.spec = s
    BY <2>3, <2>4 DEF GoesTo, Creates, Spec
  <2>7. CASE k.pc = "listSMB" /\ Listed(Spec(w), "nfs")
    <3>1. CheckedFor(s, {"nfs"})'
      BY <2>3, <2>5, <2>7, ListedIsChecked
    <3> QED
      BY <2>1, <2>6, <2>7, <3>1 DEF Checked, CheckedFor, Spec, AfterLists
  <2>8. CASE At(w, "listSMB") /\ k.pc = "checkDir" /\ Listed(Spec(w), "smb")
    <3>1. CheckedFor(s, {"nfs"}) /\ CheckedFor(s, {"smb"})
      BY <2>3, <2>8, ListedIsChecked DEF Checked, At
    <3>2. CheckedFor(s, {"nfs", "smb"})
      BY <3>1 DEF CheckedFor
    <3>3. CheckedFor(s, {"nfs", "smb"})'
      BY <2>5, <3>2
    <3> QED
      BY <2>1, <2>6, <2>8, <3>3 DEF Checked, CheckedFor, Spec
  <2>9. CASE Creates(w, k)
    <3>1. CheckedFor(s, {"nfs", "smb"})
      BY <2>3, <2>9 DEF Checked, Creates
    <3>2. CheckedFor(s, {"nfs", "smb"})'
      BY <2>5, <3>1
    <3> QED
      BY <2>1, <2>6, <2>9, <3>2 DEF Checked, CheckedFor, Spec, Creates, AfterLists
  <2> QED
    BY <2>4, <2>7, <2>8, <2>9 DEF GoesTo, AfterLists, CreatePoints, DeletePoints, ExpandPoints
<1> QED
  BY <1>2, <1>3

\* So a volume that is handed out has a name of its own.
LEMMA NamesStayApart ==
    ASSUME Base, Base', OneName, [Next]_vars
    PROVE  NamesApart'
<1>1. ASSUME NEW g \in hist.issued, NEW w \in Workers, Issues(w), ShareValid(g),
             Opts[g.spec].name = Opts[Spec(w)].name
      PROVE  g.spec = Spec(w)
  <2>1. CheckedFor(Spec(w), {"nfs", "smb"})
    BY <1>1 DEF OneName, Checked, Issues, At, AfterLists, CreatePoints
  <2>2. Opts[g.spec].proto \in {"nfs", "smb"}
    BY HandedOut, OptsAssumption
  <2> QED
    BY <1>1, <2>1, <2>2 DEF CheckedFor
<1> SUFFICES ASSUME NEW g \in hist'.issued, NEW h \in hist'.issued, ShareValid(g)', ShareValid(h)',
                    Opts[g.spec].name = Opts[h.spec].name
             PROVE  g.spec = h.spec
  BY DEF NamesApart
<1>2. /\ ShareValid(g)
      /\ g \in hist.issued \/ \E w \in Workers : Issues(w) /\ g = work[w].h
  BY HandedOutBefore
<1>3. /\ ShareValid(h)
      /\ h \in hist.issued \/ \E w \in Workers : Issues(w) /\ h = work[w].h
  BY HandedOutBefore
<1>4. \A v, w \in Workers : Issues(v) /\ Issues(w) => v = w
  BY DEF Issues, At, Idle, Base
<1> QED
  BY <1>1, <1>2, <1>3, <1>4 DEF OneName, NamesApart, Spec

\* Initially there are neither handlers nor volumes.
LEMMA InitOneName == Init => OneName
BY DEF Init, OneName, Exclusive, Checked, CheckedFor, NamesApart, Locking, Idle, AfterLists,
       CreatePoints, DeletePoints

\* The three parts together are kept by every step.
LEMMA OneNameStays ==
    ASSUME SingleProcess, Base, Base', OneName, [Next]_vars
    PROVE  OneName'
<1>1. Exclusive'
  BY ExclusiveStays DEF OneName
<1>2. \A w \in Workers : Checked(w)'
  BY CheckedStays DEF OneName
<1>3. NamesApart'
  BY NamesStayApart
<1> QED
  BY <1>1, <1>2, <1>3 DEF OneName

\* In one process the locks are exclusive, what a create has checked is true
\* and volumes in use have different names (backend.go:57).
THEOREM OneNameInv ==
    ASSUME SingleProcess
    PROVE  Behaviour => []OneName
<1>1. Base /\ Base' /\ OneName /\ [Next]_vars => OneName'
  BY OneNameStays
<1> QED
  BY <1>1, InitOneName, BaseInv, PTL DEF Behaviour

\* In one process a name belongs to one usable volume at a time (backend.go:57).
THEOREM NamesAreUnique ==
    ASSUME SingleProcess
    PROVE  Behaviour => []OneVolumePerName
<1>1. Base /\ OneName => OneVolumePerName
  <2> SUFFICES ASSUME Base, OneName, NEW g \in Usable, NEW h \in Usable,
                      Opts[g.spec].name = Opts[h.spec].name
               PROVE  g = h
    BY DEF OneVolumePerName
  <2>1. /\ g \in hist.issued /\ h \in hist.issued /\ ShareValid(g) /\ ShareValid(h)
        /\ dir[Opts[g.spec].path].id = g.dir /\ dir[Opts[h.spec].path].id = h.dir
    BY DEF Usable, Live
  <2>2. g \in Handle /\ h \in Handle /\ HandleOK(g) /\ HandleOK(h)
    BY <2>1, HandedOut
  <2>3. g.spec = h.spec
    BY <2>1 DEF OneName, NamesApart
  <2>4. g.res = h.res
    <3>1. PICK q \in shares : q.id = g.res /\ q.spec = g.spec
      BY <2>1, <2>2, ValidShare DEF Base
    <3>2. PICK r \in shares : r.id = h.res /\ r.spec = h.spec
      BY <2>1, <2>2, ValidShare DEF Base
    <3> QED
      BY <2>3, <3>1, <3>2 DEF Base, CoreOK, ShareOK
  <2> QED
    BY <2>1, <2>2, <2>3, <2>4 DEF Handle
<1> QED
  BY <1>1, OneNameInv, BaseInv, PTL

(***************************************************************************)
(* Mode and quota, in one controller process                               *)
(***************************************************************************)

\* The volumes in use are configured, and so is one that is about to be.
Configured ==
    /\ \A h \in hist.issued : ShareValid(h) => ModeSet(h) /\ QuotaSet(h)
    /\ \A w \in Workers :
         /\ work[w].pc \in {"quota", "validDir", "validRes"} => ModeSet(work[w].h)
         /\ work[w].pc \in {"validDir", "validRes"} => QuotaSet(work[w].h)

\* What is configured stays so while nobody sets another mode.
LEMMA SettingsKept ==
    ASSUME Base, Base', Moved, NEW h \in Handle, HandleOK(h),
           \A w \in Workers : At(w, "chmod") /\ Path(w) = Opts[h.spec].path
                                => Opts[Spec(w)].mode = Opts[h.spec].mode
    PROVE  (ModeSet(h) => ModeSet(h)') /\ (QuotaSet(h) => QuotaSet(h)')
<1> DEFINE p == Opts[h.spec].path
<1>1. p \in Paths /\ h.dir \in Nat /\ h.dir < nextId /\ h.dir # 0 /\ nextId \in Nat
  BY DEF Paths, Handle, HandleOK, Base, CoreOK, CoreTypes
<1>2. dir[p].quota \in Nat /\ Opts[h.spec].cap \in Nat
  BY <1>1, OptsAssumption DEF Handle, Base, CoreOK, CoreTypes
<1>3. \/ /\ dir'[p].id = dir[p].id /\ dir'[p].quota >= dir[p].quota
         /\ \/ /\ dir'[p].mode = dir[p].mode
               /\ dir[p].id \in hist.stray => dir'[p].id \in hist'.stray
            \/ dir'[p].mode = Opts[h.spec].mode
            \/ dir'[p].id \in hist'.stray
      \/ dir'[p].id # h.dir
  <2>1. DirMoved(p)
    BY <1>1 DEF Moved
  <2>2. SetsMode(p, dir'[p].mode) => dir'[p].mode = Opts[h.spec].mode
    BY DEF SetsMode
  <2> QED
    BY <1>1, <2>1, <2>2 DEF DirMoved, ModeMoved, NoDir
<1>4. ModeSet(h) => ModeSet(h)'
  BY <1>3 DEF ModeSet
<1>5. CASE dir'[p].id # h.dir
  BY <1>4, <1>5 DEF QuotaSet
<1>6. CASE dir'[p].id = dir[p].id /\ dir'[p].quota >= dir[p].quota
  <2>1. dir'[p].quota \in Nat
    BY <1>1 DEF Base, CoreOK, CoreTypes
  <2>2. dir[p].quota >= Opts[h.spec].cap => dir'[p].quota >= Opts[h.spec].cap
    BY <1>2, <1>6, <2>1
  <2> QED
    BY <1>4, <1>6, <2>2 DEF QuotaSet
<1> QED
  BY <1>3, <1>5, <1>6

\* No step takes the mode or quota of a volume that is in use.
LEMMA ConfiguredStays ==
    ASSUME Base, Base', OneName, Configured, [Next]_vars
    PROVE  Configured'
<1>1. Moved
  BY StepMoves
<1>3. ASSUME NEW h \in Handle, NEW v \in Workers, h = work[v].h,
             work[v].pc \in {"quota", "validDir", "validRes"}
      PROVE  ModeSet(h)' /\ (QuotaSet(h) => QuotaSet(h)')
  <2>1. HandleOK(h)
    BY <1>3, WorkType DEF LocalOK, CreateOK, CreatePoints
  <2>2. ASSUME NEW w \in Workers, At(w, "chmod"), Path(w) = Opts[h.spec].path PROVE FALSE
    <3>1. w # v /\ Locking(w) /\ Locking(v)
      BY <1>3, <2>2 DEF At, Locking, CreatePoints
    <3> QED
      BY <1>3, <2>2, <3>1 DEF OneName, Exclusive, Path, Spec
  <2>3. ModeSet(h)
    BY <1>3 DEF Configured
  <2> QED
    BY <1>1, <2>1, <2>2, <2>3, SettingsKept
<1>4. ASSUME NEW h \in hist'.issued, ShareValid(h)' PROVE ModeSet(h)' /\ QuotaSet(h)'
  <2>1. /\ ShareValid(h) /\ h \in Handle /\ HandleOK(h)
        /\ h \in hist.issued \/ \E w \in Workers : Issues(w) /\ h = work[w].h
    BY <1>4, HandedOutBefore
  <2>2. CASE h \in hist.issued
    <3>1. ASSUME NEW w \in Workers, At(w, "chmod"), Path(w) = Opts[h.spec].path
          PROVE  Opts[Spec(w)].mode = Opts[h.spec].mode
      <4>1. CheckedFor(Spec(w), {"nfs", "smb"})
        BY <3>1 DEF OneName, Checked, At, AfterLists, CreatePoints
      <4>2. Opts[h.spec].proto \in {"nfs", "smb"}
        BY <2>1, OptsAssumption DEF Handle
      <4> QED
        BY <2>1, <2>2, <3>1, <4>1, <4>2 DEF CheckedFor, Path
    <3>2. ModeSet(h) /\ QuotaSet(h)
      BY <2>1, <2>2 DEF Configured
    <3> QED
      BY <1>1, <2>1, <3>1, <3>2, SettingsKept
  <2>3. CASE \E w \in Workers : Issues(w) /\ h = work[w].h
    <3>1. PICK w \in Workers : Issues(w) /\ h = work[w].h
      BY <2>3
    <3>2. ModeSet(h) /\ QuotaSet(h) /\ dir' = dir /\ hist'.stray = hist.stray
      BY <3>1 DEF Configured, Issues, At, core
    <3> QED
      BY <3>2 DEF ModeSet, QuotaSet
  <2> QED
    BY <2>1, <2>2, <2>3
<1>5. ASSUME NEW v \in Workers, NEW k, k = work'[v],
             k.pc \in {"quota", "validDir", "validRes"}
      PROVE  /\ ModeSet(k.h)'
             /\ k.pc \in {"validDir", "validRes"} => QuotaSet(k.h)'
  <2>1. PICK h \in Handle : h = work[v].h
    BY WorkType
  <2>2. CASE work'[v] = work[v]
    <3>1. k.h = h /\ k.pc = work[v].pc
      BY <1>5, <2>1, <2>2
    <3>2. k.pc \in {"validDir", "validRes"} => QuotaSet(h)
      BY <2>1, <3>1 DEF Configured
    <3> QED
      BY <1>3, <1>5, <2>1, <3>1, <3>2
  <2>3. CASE work'[v] # work[v]
    <3>1. \/ GoesTo(v, k)
          \/ k.pc \in {"listNFS"} \cup DeletePoints \cup ExpandPoints
      BY <1>5, <2>3, StepGoes DEF Goes, Starts, Base
    <3>2. Creates(v, k)
      BY <1>5, <3>1 DEF GoesTo, DeletePoints, ExpandPoints
    <3>3. k.h = h
      BY <1>5, <2>1, <3>2 DEF Creates, VerifiedAt
    <3>4. CASE k.pc = "quota"
      BY <3>2, <3>4 DEF Creates
    <3>5. CASE k.pc = "validDir"
      <4>1. work[v].pc = "quota" /\ QuotaSet(k.h)'
        BY <3>2, <3>5 DEF Creates
      <4> QED
        BY <1>3, <2>1, <3>3, <4>1
    <3>6. CASE k.pc = "validRes"
      <4>1. work[v].pc = "validDir"
        BY <3>2, <3>6 DEF Creates
      <4>2. QuotaSet(h)
        BY <2>1, <4>1 DEF Configured
      <4> QED
        BY <1>3, <2>1, <3>3, <4>1, <4>2
    <3> QED
      BY <1>5, <3>4, <3>5, <3>6
  <2> QED
    BY <2>2, <2>3
<1>6. /\ \A w \in Workers : work'[w].pc \in {"quota", "validDir", "validRes"}
                                => ModeSet(work[w].h)'
      /\ \A w \in Workers : work'[w].pc \in {"validDir", "validRes"} => QuotaSet(work[w].h)'
  BY <1>5 DEF ModeSet, QuotaSet
<1> QED
  BY <1>4, <1>6 DEF Configured

\* Initially there is nothing to configure.
LEMMA InitConfigured == Init => Configured
BY DEF Init, Configured, Idle

\* In one process a usable volume has the mode and at least the quota of its own
\* specification, whichever answers are lost (driver.go:134); only a PATCH that
\* nobody had an answer to and that Core applies later can leave another mode.
THEOREM VolumesAreConfigured ==
    ASSUME SingleProcess
    PROVE  Behaviour => []VolumesConfigured
<1>1. Base /\ Base' /\ OneName /\ Configured /\ [Next]_vars => Configured'
  BY ConfiguredStays
<1>2. Configured => VolumesConfigured
  BY DEF Configured, VolumesConfigured, Usable, Live, ModeSet, QuotaSet
<1> QED
  BY <1>1, <1>2, InitConfigured, OneNameInv, BaseInv, PTL DEF Behaviour

=============================================================================
