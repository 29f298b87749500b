-------------------------- MODULE CsiVolumeProofs ---------------------------
(***************************************************************************)
(* Proofs about CsiVolume: the properties that hold whatever operators do, *)
(* however many answers are lost and however many processes serve          *)
(* requests.                                                               *)
(*                                                                         *)
(* Base is the inductive invariant.  It says that Core is in order         *)
(* (CoreOK: identifiers have one meaning, a share is unclaimed or claimed  *)
(* on request, what callers were told is true), and what is known of each  *)
(* write under way (MsgOK) and of each handler at its control point        *)
(* (LocalOK).  A write may arrive long after its handler has gone, so that *)
(* what makes it harmless must be stable: a conditional DELETE is bound to *)
(* an ETag that is spent by any other change of the share (Droppable,      *)
(* Claimable), a tree-delete job to a claim on the share that stays until  *)
(* the directory is gone (ClaimedBy, Gone).  Evolves collects  *)
(* what no step undoes; from it follows once, in LocalStays and MsgStays,  *)
(* that a step of one actor keeps what the others know, and each action is *)
(* left with what it does itself.                                          *)
(***************************************************************************)
EXTENDS CsiVolume, TLAPS

\* The control points of a handler and its local variables.
Points == {"idle"} \cup CreatePoints \cup DeletePoints \cup ExpandPoints

Locals == [pc : Points, h : Handle, found : BOOLEAN, seen : Nat, etag : Nat,
           round : 1..Rounds]

Descriptions == [kind : {"managed", "deleting"}, of : Handle]

ShareType == [id : Nat, spec : Specs, desc : Descriptions, etag : Nat, drift : BOOLEAN]

\* The directory is at no path any more; identifiers are not reused.
Gone(d) == d \notin DirIds

\* The directory of a handle is at the path of its specification or nowhere.
Home(h) == \A p \in Paths : dir[p].id = h.dir => p = Opts[h.spec].path

\* A share carries the deletion claim of this handle.
ClaimedBy(h) == \E r \in shares : r.desc = Deleting(h)

\* A share whose deletion nobody has claimed.
Unclaimed(r) == r.desc = Managed(r.spec)

\* A DELETE of this share with this ETag takes nothing that is in use.
Droppable(res, etag) ==
    /\ res < nextId
    /\ \A r \in Share(res) :
         /\ etag <= r.etag
         /\ r.etag = etag =>
              \/ r.desc.kind = "deleting" /\ Gone(r.desc.of.dir)
              \/ \E h \in hist.delReq : h.res = res /\ ~Opts[h.spec].deleteData

\* A PATCH of this share with this ETag finds no claim of another handle.
Claimable(res, etag) ==
    /\ res < nextId
    /\ \A r \in Share(res) : etag <= r.etag /\ (r.etag = etag => Unclaimed(r))

\* Core and its history have their types.
CoreTypes ==
    /\ dir \in [Paths -> [id : Nat, mode : Nat, quota : Nat]]
    /\ shares \subseteq ShareType
    /\ jobs \subseteq Nat /\ aborted \subseteq Nat
    /\ nextId \in Nat \ {0}
    /\ hist \in [issued : SUBSET Handle, delReq : SUBSET Handle, deleted : SUBSET Handle,
                 destroyed : SUBSET Nat, stray : SUBSET Nat]

\* Identifiers of directories are unique, and only destroyed ones have a job.
DirOK ==
    /\ \A p \in Paths : dir[p].id < nextId /\ (dir[p].id = 0 => dir[p] = NoDir)
    /\ \A p, q \in Paths : dir[p].id = dir[q].id /\ dir[p].id # 0 => p = q
    /\ jobs \subseteq hist.destroyed /\ aborted \subseteq hist.destroyed
    /\ jobs \cap aborted = {}

\* A share whose deletion is claimed, by a handle for it.
ClaimedOnRequest(r) ==
    /\ r.desc.kind = "deleting"
    /\ r.desc = Deleting(r.desc.of)
    /\ r.desc.of \in hist.delReq /\ Opts[r.spec].deleteData
    /\ r.desc.of.res = r.id /\ r.desc.of.spec = r.spec

\* A label has one share, which is unclaimed or claimed on request.
ShareOK ==
    /\ \A r \in shares : r.id # 0 /\ r.id < nextId
    /\ \A q, r \in shares : q.id = r.id => q = r
    /\ \A q, r \in shares :
         Opts[q.spec].proto = Opts[r.spec].proto /\ Label(q.spec) = Label(r.spec) => q = r
    /\ \A r \in shares : Unclaimed(r) \/ ClaimedOnRequest(r)

\* A handle names a directory and a share that exist or are gone for good.
HandleOK(h) ==
    /\ h.dir # 0 /\ h.dir < nextId /\ h.res # 0 /\ h.res < nextId
    /\ Home(h)
    /\ \A r \in Share(h.res) : r.spec = h.spec

\* What is left of a volume whose deletion succeeded.
NothingLeft(h) == Share(h.res) = {} /\ (Opts[h.spec].deleteData => Gone(h.dir))

\* A directory that was destroyed is gone, or its share still carries the claim.
ClaimedOrGone(d) == Gone(d) \/ \E r \in shares : r.desc.kind = "deleting" /\ r.desc.of.dir = d

\* What callers have been told is true.
HistOK ==
    /\ \A h \in hist.issued : HandleOK(h)
    /\ hist.delReq \subseteq hist.issued /\ hist.deleted \subseteq hist.delReq
    /\ \A h \in hist.deleted : NothingLeft(h)
    /\ \A d \in hist.destroyed :
         /\ \E h \in hist.delReq : h.dir = d /\ Opts[h.spec].deleteData
         /\ ClaimedOrGone(d)

CoreOK == CoreTypes /\ DirOK /\ ShareOK /\ HistOK

\* What is known of a write that is under way.
MsgOK(m) ==
    /\ m.op = "tomb" => /\ m.h \in hist.delReq /\ Opts[m.h.spec].deleteData
                        /\ Claimable(m.h.res, m.etag)
    /\ m.op = "tree" => \E h \in hist.delReq :
                           /\ h.dir = m.dir /\ Opts[h.spec].deleteData
                           /\ Gone(h.dir) \/ ClaimedBy(h)
    /\ m.op = "drop" => Droppable(m.res, m.etag)

\* What a handler of CreateVolume knows at its control point.
CreateOK(k) ==
    /\ k.h.dir # 0 => k.h.dir < nextId /\ Home(k.h)
    /\ k.h.res # 0 => HandleOK(k.h)
    /\ k.pc \in {"claim", "post", "reclaim", "fix"} => k.h.dir # 0
    /\ k.pc \in {"chmod", "quota", "validDir", "validRes"} => k.h.res # 0

\* What a handler of DeleteVolume knows: the claim precedes the tree-delete, the
\* directory is gone before the share is removed.
DeleteOK(k) ==
    /\ k.h \in hist.delReq
    /\ k.pc \notin {"drop", "dropIf"} => Opts[k.h.spec].deleteData
    /\ k.pc \in {"prepare", "tomb"} => k.found \/ Gone(k.h.dir)
    /\ k.pc = "tomb" => Claimable(k.h.res, k.etag)
    /\ k.pc = "tree" => Gone(k.h.dir) \/ ClaimedBy(k.h)
    /\ k.pc = "await" => Gone(k.h.dir) \/ k.h.dir \in jobs \cup aborted
    /\ k.pc \in {"drop", "dropIf"} /\ Opts[k.h.spec].deleteData => Gone(k.h.dir)
    /\ k.pc = "dropIf" => Droppable(k.h.res, k.etag)

\* What a handler knows.
LocalOK(k) ==
    /\ k.pc \in CreatePoints => CreateOK(k)
    /\ k.pc \in DeletePoints => DeleteOK(k)

\* The inductive invariant.
Base ==
    /\ CoreOK
    /\ late \subseteq Write
    /\ work \in [Workers -> Locals]
    /\ count \in [Events -> Nat]
    /\ \A m \in late : MsgOK(m)
    /\ \A w \in Workers : LocalOK(work[w])

\* What no step undoes.
Evolves ==
    /\ nextId' >= nextId
    /\ \A p \in Paths : \/ dir'[p].id \in {dir[p].id, 0}
                        \/ dir'[p].id >= nextId
    /\ \A q \in shares' : \/ q.id >= nextId
                          \/ \E r \in shares :
                                /\ r.id = q.id /\ r.spec = q.spec
                                /\ \/ q = r
                                   \/ /\ q.etag > r.etag
                                      /\ \/ q.desc = r.desc
                                         \/ Unclaimed(r) /\ q.desc.kind = "deleting"
    /\ \A r \in shares : r.desc.kind = "deleting" =>
         (\E q \in shares' : q.desc = r.desc) \/ Gone(r.desc.of.dir)'
    /\ \A d \in jobs \cup aborted : d \in jobs' \cup aborted' \/ Gone(d)'
    /\ hist.delReq \subseteq hist'.delReq

\* The first round of a loop.
LEMMA FirstRound == 1 \in 1..Rounds
BY BoundsAssumption

\* A worker without a request has well-typed local variables.
LEMMA IdleType == Idle \in Locals
<1>1. (CHOOSE s \in Specs : TRUE) \in Specs
  BY OptsAssumption
<1> QED
  BY <1>1, FirstRound DEF Idle, Locals, Handle, Points

\* A share that carries a claim carries that of a handle for it.
LEMMA ClaimIsOf ==
    ASSUME ShareOK, HistOK, NEW r \in shares, r.desc.kind = "deleting"
    PROVE  ClaimedOnRequest(r) /\ r.desc.of \in hist.issued
<1>1. ~Unclaimed(r)
  BY DEF Unclaimed, Managed
<1>2. ClaimedOnRequest(r)
  BY <1>1 DEF ShareOK
<1> QED
  BY <1>2 DEF ClaimedOnRequest, HistOK

\* A directory that is gone stays gone: its identifier is not handed out again.
LEMMA GoneStays ==
    ASSUME CoreTypes, CoreTypes', Evolves, NEW d \in Nat, d < nextId, Gone(d)
    PROVE  Gone(d)'
<1> SUFFICES ASSUME NEW p \in Paths, dir'[p].id = d, d # 0 PROVE FALSE
  BY DEF Gone, DirIds
<1>1. dir[p].id # d
  BY DEF Gone, DirIds
<1> QED
  BY <1>1 DEF Evolves, CoreTypes

\* The claim of a deletion stays on the share until the directory is gone.
LEMMA ClaimStays ==
    ASSUME CoreTypes, CoreTypes', Evolves, NEW h \in Handle, h.dir < nextId,
           Gone(h.dir) \/ ClaimedBy(h)
    PROVE  (Gone(h.dir) \/ ClaimedBy(h))'
<1>1. h.dir \in Nat
  BY DEF Handle
<1>2. CASE Gone(h.dir)
  BY <1>1, <1>2, GoneStays
<1>3. CASE ClaimedBy(h)
  <2>1. PICK r \in shares : r.desc = Deleting(h)
    BY <1>3 DEF ClaimedBy
  <2>2. r.desc.kind = "deleting" /\ r.desc.of = h
    BY <2>1 DEF Deleting
  <2> QED
    BY <2>1, <2>2 DEF Evolves, ClaimedBy
<1> QED
  BY <1>2, <1>3

\* A handle that is in order stays so: its directory is moved to no other path
\* and its share is given to no other specification.
LEMMA HandleStays ==
    ASSUME CoreTypes, CoreTypes', Evolves, NEW h \in Handle, HandleOK(h)
    PROVE  HandleOK(h)'
<1>1. h.dir \in Nat /\ h.res \in Nat
  BY DEF Handle
<1>2. h.dir # 0 /\ h.dir < nextId' /\ h.res # 0 /\ h.res < nextId'
  BY <1>1 DEF HandleOK, Evolves, CoreTypes
<1>3. Home(h)'
  BY <1>1 DEF HandleOK, Home, Evolves, CoreTypes
<1>4. \A r \in Share(h.res)' : r.spec = h.spec
  BY <1>1 DEF HandleOK, Share, Evolves, CoreTypes
<1> QED
  BY <1>2, <1>3, <1>4 DEF HandleOK

\* What DeleteVolume has removed does not come back.
LEMMA NothingLeftStays ==
    ASSUME CoreTypes, CoreTypes', Evolves, NEW h \in Handle, HandleOK(h), NothingLeft(h)
    PROVE  NothingLeft(h)'
<1>1. h.dir \in Nat /\ h.res \in Nat
  BY DEF Handle
<1>2. Share(h.res)' = {}
  BY <1>1 DEF HandleOK, NothingLeft, Share, Evolves, CoreTypes
<1> QED
  BY <1>1, <1>2, GoneStays DEF NothingLeft, HandleOK

\* A write that is bound to an ETag finds the share as it was, or fails: every
\* change of a share gives it a later ETag.
LEMMA EtagSpent ==
    ASSUME CoreTypes, CoreTypes', Evolves, NEW res \in Nat, res < nextId, NEW etag \in Nat,
           \A r \in Share(res) : etag <= r.etag, NEW q \in Share(res)'
    PROVE  etag <= q.etag /\ (q.etag = etag => q \in Share(res))
<1>1. q \in shares' /\ q.id = res /\ q.etag \in Nat
  BY DEF Share, CoreTypes, ShareType
<1>2. PICK r \in shares : r.id = res /\ (q = r \/ q.etag > r.etag)
  BY <1>1 DEF Evolves, CoreTypes
<1>3. r \in Share(res) /\ r.etag \in Nat
  BY <1>2 DEF Share, CoreTypes, ShareType
<1>4. etag <= r.etag
  BY <1>3
<1> QED
  BY <1>1, <1>2, <1>3, <1>4

\* A conditional DELETE that was safe to send is safe whenever it arrives.
LEMMA DroppableStays ==
    ASSUME CoreTypes, CoreTypes', ShareOK, HistOK, Evolves, NEW res \in Nat, NEW etag \in Nat,
           Droppable(res, etag)
    PROVE  Droppable(res, etag)'
<1>1. res < nextId'
  BY DEF Droppable, Evolves, CoreTypes
<1>2. ASSUME NEW q \in Share(res)'
      PROVE  /\ etag <= q.etag
             /\ q.etag = etag =>
                  \/ q.desc.kind = "deleting" /\ Gone(q.desc.of.dir)'
                  \/ \E h \in hist'.delReq : h.res = res /\ ~Opts[h.spec].deleteData
  <2>1. etag <= q.etag /\ (q.etag = etag => q \in Share(res))
    BY <1>2, EtagSpent DEF Droppable
  <2>2. ASSUME q \in Share(res), q.desc.kind = "deleting", Gone(q.desc.of.dir)
        PROVE  Gone(q.desc.of.dir)'
    <3>1. q.desc.of \in hist.issued /\ HandleOK(q.desc.of)
      BY <2>2, ClaimIsOf DEF Share, HistOK
    <3>2. q.desc.of.dir \in Nat /\ q.desc.of.dir < nextId
      BY <3>1 DEF CoreTypes, HandleOK, Handle
    <3> QED
      BY <2>2, <3>2, GoneStays
  <2> QED
    BY <2>1, <2>2 DEF Droppable, Evolves
<1> QED
  BY <1>1, <1>2 DEF Droppable

\* So is a conditional PATCH that claims the deletion.
LEMMA ClaimableStays ==
    ASSUME CoreTypes, CoreTypes', Evolves, NEW res \in Nat, NEW etag \in Nat,
           Claimable(res, etag)
    PROVE  Claimable(res, etag)'
<1>1. res < nextId'
  BY DEF Claimable, Evolves, CoreTypes
<1>2. ASSUME NEW q \in Share(res)' PROVE etag <= q.etag /\ (q.etag = etag => Unclaimed(q))
  <2>1. etag <= q.etag /\ (q.etag = etag => q \in Share(res))
    BY <1>2, EtagSpent DEF Claimable
  <2> QED
    BY <2>1 DEF Claimable
<1> QED
  BY <1>1, <1>2 DEF Claimable, Unclaimed

\* The history stays in order when what a step adds to it is.
LEMMA HistGrows ==
    ASSUME CoreTypes, CoreTypes', ShareOK, HistOK, Evolves,
           \A h \in hist'.issued \ hist.issued : HandleOK(h)',
           hist.issued \subseteq hist'.issued,
           hist'.delReq \subseteq hist'.issued, hist'.deleted \subseteq hist'.delReq,
           \A h \in hist'.deleted \ hist.deleted : NothingLeft(h)',
           \A d \in hist'.destroyed \ hist.destroyed :
              /\ \E h \in hist'.delReq : h.dir = d /\ Opts[h.spec].deleteData
              /\ ClaimedOrGone(d)'
    PROVE  HistOK'
<1>1. /\ hist.issued \subseteq Handle /\ hist.delReq \subseteq Handle
      /\ hist.deleted \subseteq Handle /\ hist.destroyed \subseteq Nat
  BY DEF CoreTypes
<1>2. \A h \in hist'.issued : HandleOK(h)'
  BY <1>1, HandleStays DEF HistOK
<1>3. \A h \in hist'.deleted : NothingLeft(h)'
  BY <1>1, NothingLeftStays DEF HistOK
<1>4. ASSUME NEW d \in hist.destroyed PROVE ClaimedOrGone(d)'
  <2>1. PICK h \in hist.delReq : h.dir = d
    BY DEF HistOK
  <2>2. d \in Nat /\ d < nextId
    BY <1>1, <2>1 DEF HistOK, HandleOK
  <2>3. CASE Gone(d)
    BY <2>2, <2>3, GoneStays DEF ClaimedOrGone
  <2>4. CASE \E r \in shares : r.desc.kind = "deleting" /\ r.desc.of.dir = d
    BY <2>4 DEF Evolves, ClaimedOrGone
  <2> QED
    BY <2>3, <2>4 DEF HistOK, ClaimedOrGone
<1>5. \A d \in hist.destroyed : \E h \in hist'.delReq : h.dir = d /\ Opts[h.spec].deleteData
  BY DEF HistOK, Evolves
<1> QED
  BY <1>2, <1>3, <1>4, <1>5 DEF HistOK

\* The same for a step that tells no caller anything.
LEMMA HistStays ==
    ASSUME CoreTypes, CoreTypes', ShareOK, HistOK, Evolves,
           hist'.issued = hist.issued, hist'.delReq = hist.delReq,
           hist'.deleted = hist.deleted, hist'.destroyed = hist.destroyed
    PROVE  HistOK'
BY HistGrows DEF HistOK

\* What is known of a write under way holds until it reaches Core.
LEMMA MsgStays ==
    ASSUME CoreTypes, CoreTypes', ShareOK, HistOK, Evolves, NEW m \in Write, MsgOK(m)
    PROVE  MsgOK(m)'
<1>1. ASSUME m.op = "tomb"
      PROVE  m.h \in hist'.delReq /\ Opts[m.h.spec].deleteData /\ Claimable(m.h.res, m.etag)'
  <2>1. m.h.res \in Nat /\ m.etag \in Nat
    BY <1>1 DEF Write, Handle
  <2> QED
    BY <1>1, <2>1, ClaimableStays DEF MsgOK, Evolves
<1>2. ASSUME m.op = "tree"
      PROVE  \E h \in hist'.delReq : /\ h.dir = m.dir /\ Opts[h.spec].deleteData
                                     /\ Gone(h.dir)' \/ ClaimedBy(h)'
  <2>1. PICK h \in hist.delReq : /\ h.dir = m.dir /\ Opts[h.spec].deleteData
                                 /\ Gone(h.dir) \/ ClaimedBy(h)
    BY <1>2 DEF MsgOK
  <2>2. h \in Handle /\ h.dir < nextId
    BY DEF HistOK, HandleOK, CoreTypes
  <2>3. Gone(h.dir)' \/ ClaimedBy(h)'
    BY <2>1, <2>2, ClaimStays
  <2> QED
    BY <2>1, <2>3 DEF Evolves
<1>3. ASSUME m.op = "drop" PROVE Droppable(m.res, m.etag)'
  <2>1. m.res \in Nat /\ m.etag \in Nat
    BY <1>3 DEF Write
  <2> QED
    BY <1>3, <2>1, DroppableStays DEF MsgOK
<1> QED
  BY <1>1, <1>2, <1>3 DEF MsgOK

\* What a handler knows at a control point survives the steps of others.
LEMMA LocalStays ==
    ASSUME CoreTypes, CoreTypes', ShareOK, HistOK, Evolves, NEW k \in Locals, LocalOK(k)
    PROVE  LocalOK(k)'
<1>1. k.h \in Handle /\ k.h.dir \in Nat /\ k.h.res \in Nat /\ k.etag \in Nat
  BY DEF Locals, Handle
<1>2. ASSUME k.pc \in CreatePoints, CreateOK(k) PROVE CreateOK(k)'
  <2>1. k.h.res # 0 => HandleOK(k.h)'
    BY <1>1, <1>2, HandleStays DEF CreateOK
  <2>2. k.h.dir # 0 => k.h.dir < nextId' /\ Home(k.h)'
    BY <1>1, <1>2 DEF CreateOK, Home, Evolves, CoreTypes
  <2> QED
    BY <1>2, <2>1, <2>2 DEF CreateOK
<1>3. ASSUME k.pc \in DeletePoints, DeleteOK(k) PROVE DeleteOK(k)'
  <2>1. k.h.dir < nextId
    BY <1>3 DEF DeleteOK, HistOK, HandleOK
  <2>2. Gone(k.h.dir) => Gone(k.h.dir)'
    BY <1>1, <2>1, GoneStays
  <2>3. Gone(k.h.dir) \/ ClaimedBy(k.h) => Gone(k.h.dir)' \/ ClaimedBy(k.h)'
    BY <1>1, <2>1, ClaimStays
  <2>4. k.pc = "await" => Gone(k.h.dir)' \/ k.h.dir \in jobs' \cup aborted'
    BY <1>3, <2>2 DEF DeleteOK, Evolves
  <2>5. Droppable(k.h.res, k.etag) => Droppable(k.h.res, k.etag)'
    BY <1>1, DroppableStays
  <2>6. k.h \in hist'.delReq
    BY <1>3 DEF DeleteOK, Evolves
  <2>7. Claimable(k.h.res, k.etag) => Claimable(k.h.res, k.etag)'
    BY <1>1, ClaimableStays
  <2> QED
    BY <1>3, <2>2, <2>3, <2>4, <2>5, <2>6, <2>7 DEF DeleteOK
<1> QED
  BY <1>2, <1>3 DEF LocalOK

\* A step keeps the invariant if Core, the writes it sends and the call it
\* moves are in order.
LEMMA Frame ==
    ASSUME Base, CoreOK', Evolves, late' \subseteq Write, NEW w \in Workers,
           count' \in [Events -> Nat],
           NEW k \in Locals, work' = [work EXCEPT ![w] = k], LocalOK(k)',
           \A m \in late' \ late : MsgOK(m)'
    PROVE  Base'
<1>1. work' \in [Workers -> Locals]
  BY DEF Base
<1>2. \A m \in late' : MsgOK(m)'
  BY MsgStays DEF Base, CoreOK
<1>3. \A v \in Workers : LocalOK(work[v])'
  <2> SUFFICES ASSUME NEW v \in Workers PROVE LocalOK(work[v])'
    OBVIOUS
  <2>1. CASE v = w
    <3>1. work'[v] = k
      BY <2>1 DEF Base
    <3> QED
      BY <3>1 DEF LocalOK, CreateOK, DeleteOK
  <2>2. CASE v # w
    <3>1. work'[v] = work[v] /\ work[v] \in Locals /\ LocalOK(work[v])
      BY <2>2 DEF Base
    <3> QED
      BY <3>1, LocalStays DEF Base, CoreOK
  <2> QED
    BY <2>1, <2>2
<1> QED
  BY <1>1, <1>2, <1>3 DEF Base

\* The effects of the writes on Core.

\* Core makes a directory, in a POST that EnsureDirectory sent.
LEMMA NewDirOK ==
    ASSUME CoreOK, NEW p \in Paths, dir[p] = NoDir, NewDir(p)
    PROVE  CoreOK' /\ Evolves
<1>1. /\ dir' = [dir EXCEPT ![p] = [id |-> nextId, mode |-> 0, quota |-> 0]]
      /\ nextId' = nextId + 1 /\ shares' = shares /\ jobs' = jobs /\ aborted' = aborted
      /\ hist' = hist
  BY DEF NewDir
<1>2. CoreTypes'
  BY <1>1 DEF CoreOK, CoreTypes
<1>3. DirOK'
  BY <1>1 DEF CoreOK, CoreTypes, DirOK, NoDir
<1>4. Evolves
  BY <1>1 DEF CoreOK, CoreTypes, Evolves
<1>5. ShareOK'
  BY <1>1 DEF CoreOK, CoreTypes, ShareType, ShareOK, Unclaimed, ClaimedOnRequest
<1> QED
  BY <1>1, <1>2, <1>3, <1>4, <1>5, HistStays DEF CoreOK

\* Core sets the mode of a directory.
LEMMA ChangeModeOK ==
    ASSUME CoreOK, NEW p \in Paths, dir[p] # NoDir, NEW mode \in Nat,
           NEW stray \in SUBSET Nat,
           dir' = [dir EXCEPT ![p].mode = mode], hist' = [hist EXCEPT !.stray = stray],
           UNCHANGED <<shares, jobs, aborted, nextId>>
    PROVE  CoreOK' /\ Evolves
<1>1. \A q \in Paths : dir'[q] = IF q = p THEN [dir[q] EXCEPT !.mode = mode] ELSE dir[q]
  BY DEF CoreOK, CoreTypes
<1>0. /\ hist'.issued = hist.issued /\ hist'.delReq = hist.delReq
      /\ hist'.deleted = hist.deleted /\ hist'.destroyed = hist.destroyed
  BY DEF CoreOK, CoreTypes
<1>2. CoreTypes'
  BY <1>1 DEF CoreOK, CoreTypes
<1>3. DirOK'
  BY <1>0, <1>1 DEF CoreOK, CoreTypes, DirOK, NoDir
<1>4. Evolves
  BY <1>0, <1>1 DEF CoreOK, CoreTypes, Evolves
<1>5. ShareOK'
  BY <1>0 DEF CoreOK, CoreTypes, ShareOK, Unclaimed, ClaimedOnRequest
<1> QED
  BY <1>0, <1>2, <1>3, <1>4, <1>5, HistStays DEF CoreOK

\* Core makes an export or share, under a label that none has.
LEMMA NewShareOK ==
    ASSUME CoreOK, NEW s \in Specs, Labelled(s) = {}, NewShare(s)
    PROVE  CoreOK' /\ Evolves
<1> DEFINE new == ShareOf(s)
<1>1. /\ shares' = shares \cup {new} /\ nextId' = nextId + 1
      /\ dir' = dir /\ jobs' = jobs /\ aborted' = aborted /\ hist' = hist
  BY DEF NewShare
<1>0. new.id = nextId /\ new.spec = s /\ new.desc = Managed(s) /\ new \in ShareType
  BY DEF ShareOf, ShareType, Managed, Descriptions, Handle, CoreOK, CoreTypes
<1> HIDE DEF new
<1>2. CoreTypes'
  BY <1>0, <1>1 DEF CoreOK, CoreTypes
<1>3. DirOK'
  BY <1>1 DEF CoreOK, CoreTypes, DirOK
<1>4. Evolves
  BY <1>0, <1>1 DEF CoreOK, CoreTypes, Evolves
<1>5. ShareOK'
  <2>1. \A r \in shares : r.id < nextId /\ r.id # nextId /\ r.id \in Nat
    BY DEF CoreOK, CoreTypes, ShareType, ShareOK
  <2>2. \A r \in shares : ~(Opts[r.spec].proto = Opts[s].proto /\ Label(r.spec) = Label(s))
    BY DEF Labelled
  <2>3. Unclaimed(new)
    BY <1>0 DEF Unclaimed
  <2>4. \A r \in shares : Unclaimed(r)' \/ ClaimedOnRequest(r)'
    BY <1>1 DEF CoreOK, ShareOK, Unclaimed, ClaimedOnRequest
  <2>5. \A q, r \in shares' : q.id = r.id => q = r
    BY <1>0, <1>1, <2>1 DEF CoreOK, ShareOK
  <2>6. \A q, r \in shares' :
           Opts[q.spec].proto = Opts[r.spec].proto /\ Label(q.spec) = Label(r.spec) => q = r
    BY <1>0, <1>1, <2>2 DEF CoreOK, ShareOK
  <2>7. \A r \in shares' : r.id # 0 /\ r.id < nextId'
    BY <1>0, <1>1, <2>1 DEF CoreOK, CoreTypes, ShareOK
  <2>8. \A r \in shares' : Unclaimed(r)' \/ ClaimedOnRequest(r)'
    BY <1>1, <2>3, <2>4 DEF Unclaimed
  <2> QED
    BY <2>5, <2>6, <2>7, <2>8 DEF ShareOK
<1> QED
  BY <1>1, <1>2, <1>3, <1>4, <1>5, HistStays DEF CoreOK

\* A share is changed: its settings, or its deletion is claimed.
LEMMA ShareChangeOK ==
    ASSUME CoreOK, NEW s \in shares, NEW t \in ShareType,
           t.id = s.id, t.spec = s.spec, t.etag > s.etag,
           t.desc = s.desc \/ (Unclaimed(s) /\ ClaimedOnRequest(t)),
           shares' = (shares \ {s}) \cup {t}, UNCHANGED <<dir, jobs, aborted, nextId, hist>>
    PROVE  CoreOK' /\ Evolves
<1>1. CoreTypes'
  BY DEF CoreOK, CoreTypes
<1>2. DirOK'
  BY DEF CoreOK, CoreTypes, DirOK
<1>3. Evolves
  <2>1. \A r \in shares : r.desc.kind = "deleting" => \E q \in shares' : q.desc = r.desc
    BY DEF Unclaimed, Managed
  <2>2. \A q \in shares' : \E r \in shares :
          /\ r.id = q.id /\ r.spec = q.spec
          /\ \/ q = r
             \/ q.etag > r.etag /\ (q.desc = r.desc \/ (Unclaimed(r) /\ q.desc.kind = "deleting"))
    BY DEF ClaimedOnRequest
  <2>3. nextId' >= nextId /\ \A p \in Paths : dir'[p].id \in {dir[p].id, 0}
    BY DEF CoreOK, CoreTypes
  <2> QED
    BY <2>1, <2>2, <2>3 DEF Evolves
<1>4. ShareOK'
  <2>1. \A r \in shares' : r.id # 0 /\ r.id < nextId'
    BY DEF CoreOK, ShareOK
  <2>2. \A q, r \in shares' : q.id = r.id => q = r
    BY DEF CoreOK, ShareOK
  <2>3. \A q, r \in shares' :
           Opts[q.spec].proto = Opts[r.spec].proto /\ Label(q.spec) = Label(r.spec) => q = r
    BY DEF CoreOK, ShareOK
  <2>4. Unclaimed(t) \/ ClaimedOnRequest(t)
    BY DEF CoreOK, ShareOK, Unclaimed, ClaimedOnRequest
  <2>5. \A r \in shares' : Unclaimed(r)' \/ ClaimedOnRequest(r)'
    BY <2>4 DEF CoreOK, ShareOK, Unclaimed, ClaimedOnRequest
  <2> QED
    BY <2>1, <2>2, <2>3, <2>5 DEF ShareOK
<1> QED
  BY <1>1, <1>2, <1>3, <1>4, HistStays DEF CoreOK

\* The share whose deletion this handle claims, and one whose settings are set.
Marked(s, h) == [s EXCEPT !.desc = Deleting(h), !.etag = @ + 1]

Edited(s, d) == [s EXCEPT !.drift = d, !.etag = @ + 1]

\* The type of a share whose description and ETag are replaced, or settings and ETag.
LEMMA ShareUpdate ==
    ASSUME NEW s \in ShareType, NEW e \in Nat
    PROVE  /\ \A d \in Descriptions : [s EXCEPT !.desc = d, !.etag = e] \in ShareType
           /\ \A d \in BOOLEAN : [s EXCEPT !.drift = d, !.etag = e] \in ShareType
BY DEF ShareType

\* The share after a PATCH.
LEMMA MarkedType ==
    ASSUME NEW s \in ShareType, NEW h \in Handle
    PROVE  /\ Marked(s, h) \in ShareType
           /\ Marked(s, h).id = s.id /\ Marked(s, h).spec = s.spec
           /\ Marked(s, h).desc = Deleting(h) /\ Marked(s, h).etag > s.etag
<1>1. s.etag \in Nat /\ s.etag + 1 \in Nat
  BY DEF ShareType
<1>2. Deleting(h) \in Descriptions
  BY DEF Deleting, Descriptions
<1>3. Marked(s, h) \in ShareType
  BY Zenon, <1>1, <1>2, ShareUpdate DEF Marked
<1> QED
  BY <1>1, <1>3 DEF Marked, ShareType

LEMMA EditedType ==
    ASSUME NEW s \in ShareType, NEW d \in BOOLEAN
    PROVE  /\ Edited(s, d) \in ShareType
           /\ Edited(s, d).id = s.id /\ Edited(s, d).spec = s.spec
           /\ Edited(s, d).desc = s.desc /\ Edited(s, d).etag > s.etag
<1>1. s.etag \in Nat /\ s.etag + 1 \in Nat
  BY DEF ShareType
<1>2. Edited(s, d) \in ShareType
  BY Zenon, <1>1, ShareUpdate DEF Edited
<1> QED
  BY <1>1, <1>2 DEF Edited, ShareType

\* The PATCH that claims the deletion (backend.go:248) keeps Core in order.
LEMMA TombOK ==
    ASSUME CoreOK, NEW h \in hist.delReq, Opts[h.spec].deleteData,
           NEW s \in Share(h.res), Unclaimed(s),
           SetShares({IF r.id = h.res THEN Marked(r, h) ELSE r : r \in shares})
    PROVE  CoreOK' /\ Evolves /\ ClaimedBy(h)'
<1>1. /\ s \in shares /\ s.id = h.res /\ s \in ShareType
      /\ \A r \in shares : r.id = h.res <=> r = s
  BY DEF Share, CoreOK, CoreTypes, ShareOK
<1>2. h \in Handle /\ s.spec = h.spec
  BY DEF CoreOK, CoreTypes, HistOK, HandleOK
<1>3. PICK t \in ShareType :
         /\ t = Marked(s, h) /\ t.id = s.id /\ t.spec = s.spec
         /\ t.desc = Deleting(h) /\ t.etag > s.etag
  BY <1>1, <1>2, MarkedType
<1>4. /\ shares' = (shares \ {s}) \cup {t}
      /\ UNCHANGED <<dir, jobs, aborted, nextId, hist>>
  BY <1>1, <1>3 DEF SetShares
<1>5. ClaimedOnRequest(t)
  BY <1>1, <1>2, <1>3 DEF ClaimedOnRequest, Deleting
<1>6. CoreOK' /\ Evolves
  BY <1>1, <1>3, <1>4, <1>5, ShareChangeOK
<1> QED
  BY <1>3, <1>4, <1>6 DEF ClaimedBy

\* The PATCH that puts the settings of a share right (nfs.go:311, smb.go:332).
LEMMA FixOK ==
    ASSUME CoreOK, NEW res, NEW s \in Share(res),
           SetShares({IF r.id = res THEN Edited(r, FALSE) ELSE r : r \in shares})
    PROVE  CoreOK' /\ Evolves
<1>1. /\ s \in shares /\ s \in ShareType
      /\ \A r \in shares : r.id = res <=> r = s
  BY DEF Share, CoreOK, CoreTypes, ShareOK
<1>2. PICK t \in ShareType :
         /\ t = Edited(s, FALSE) /\ t.id = s.id /\ t.spec = s.spec
         /\ t.desc = s.desc /\ t.etag > s.etag
  BY <1>1, EditedType
<1>3. /\ shares' = (shares \ {s}) \cup {t}
      /\ UNCHANGED <<dir, jobs, aborted, nextId, hist>>
  BY <1>1, <1>2 DEF SetShares
<1> QED
  BY <1>1, <1>2, <1>3, ShareChangeOK

\* A write that Core refuses.
LEMMA NothingHappens ==
    ASSUME CoreOK, UNCHANGED <<core, hist>>
    PROVE  CoreOK' /\ Evolves
<1>1. CoreTypes'
  BY DEF CoreOK, CoreTypes, core
<1>2. DirOK'
  BY DEF CoreOK, DirOK, core
<1>3. ShareOK'
  BY DEF CoreOK, ShareOK, Unclaimed, ClaimedOnRequest, core
<1>4. Evolves
  BY DEF CoreOK, CoreTypes, Evolves, core
<1> QED
  BY <1>1, <1>2, <1>3, <1>4, HistStays DEF CoreOK

\* Core accepts a tree-delete job, for a directory that is claimed.
LEMMA TreeOK ==
    ASSUME CoreOK, NEW h \in hist.delReq, Opts[h.spec].deleteData,
           Gone(h.dir) \/ ClaimedBy(h), h.dir \notin jobs \cup aborted, h.dir \in DirIds,
           jobs' = jobs \cup {h.dir}, hist' = [hist EXCEPT !.destroyed = @ \cup {h.dir}],
           UNCHANGED <<dir, shares, aborted, nextId>>
    PROVE  CoreOK' /\ Evolves
<1>1. h \in Handle /\ h.dir \in Nat
  BY DEF CoreOK, CoreTypes, Handle
<1>2. /\ hist'.issued = hist.issued /\ hist'.delReq = hist.delReq
      /\ hist'.deleted = hist.deleted /\ hist'.destroyed = hist.destroyed \cup {h.dir}
  BY DEF CoreOK, CoreTypes
<1>3. CoreTypes'
  BY <1>1 DEF CoreOK, CoreTypes
<1>4. DirOK'
  BY <1>2 DEF CoreOK, DirOK
<1>5. ShareOK'
  BY <1>2 DEF CoreOK, ShareOK, Unclaimed, ClaimedOnRequest
<1>6. Evolves
  BY <1>2 DEF CoreOK, CoreTypes, Evolves
<1>7. ClaimedOrGone(h.dir)'
  <2>1. PICK r \in shares : r.desc = Deleting(h)
    BY DEF ClaimedBy, Gone
  <2>2. r.desc.kind = "deleting" /\ r.desc.of.dir = h.dir
    BY <2>1 DEF Deleting
  <2> QED
    BY <2>2 DEF ClaimedOrGone
<1>8. HistOK'
  BY <1>2, <1>3, <1>6, <1>7, HistGrows DEF CoreOK, HistOK
<1> QED
  BY <1>3, <1>4, <1>5, <1>8, <1>6 DEF CoreOK

\* A share is removed whose claimed directory, if any, is gone.
LEMMA DropOK ==
    ASSUME CoreOK, CoreTypes', NEW res \in Nat,
           \A r \in Share(res) : r.desc.kind = "deleting" => Gone(r.desc.of.dir),
           shares' = shares \ Share(res), UNCHANGED <<dir, jobs, aborted, nextId>>,
           hist'.delReq = hist.delReq, hist'.destroyed = hist.destroyed
    PROVE  DirOK' /\ ShareOK' /\ Evolves /\ Share(res)' = {}
<1>1. DirOK'
  BY DEF CoreOK, DirOK
<1>2. ShareOK'
  BY DEF CoreOK, ShareOK, Unclaimed, ClaimedOnRequest
<1>3. \A d : Gone(d)' <=> Gone(d)
  BY DEF Gone, DirIds
<1>4. Evolves
  BY <1>3 DEF CoreOK, CoreTypes, Evolves
<1> QED
  BY <1>1, <1>2, <1>4 DEF Share

\* A DELETE that Core accepts.
LEMMA AcceptedDrop ==
    ASSUME CoreOK, NEW res, NEW etag, Droppable(res, etag),
           \E r \in Share(res) : r.etag = etag
    PROVE  \A r \in Share(res) : r.desc.kind = "deleting" => Gone(r.desc.of.dir)
<1> SUFFICES ASSUME NEW r \in Share(res), r.desc.kind = "deleting" PROVE Gone(r.desc.of.dir)
  OBVIOUS
<1>1. r \in shares /\ \A q \in Share(res) : q = r
  BY DEF Share, CoreOK, ShareOK
<1>2. ClaimedOnRequest(r) /\ r.id = res /\ r.etag = etag
  BY <1>1, ClaimIsOf DEF CoreOK, Share
<1>3. \A h \in hist.delReq : h.res = res => h.spec = r.spec
  BY DEF CoreOK, HistOK, HandleOK
<1> QED
  BY <1>2, <1>3 DEF Droppable, ClaimedOnRequest

\* A write that reaches Core, at once or late, keeps Core in order.
LEMMA CommitOK ==
    ASSUME CoreOK, NEW m \in Write, MsgOK(m), NEW answered, Commit(m, answered)
    PROVE  CoreOK' /\ Evolves
<1>1. CASE Answer(m) # "ok"
  <2>1. UNCHANGED <<core, hist>>
    BY <1>1 DEF Commit
  <2> QED
    BY <2>1, NothingHappens
<1> SUFFICES ASSUME Answer(m) = "ok", Effect(m, answered) PROVE CoreOK' /\ Evolves
  BY <1>1 DEF Commit
<1>2. CASE m.op = "mkdir"
  <2>1. m.path \in Paths /\ dir[m.path] = NoDir /\ NewDir(m.path)
    BY <1>2 DEF Write, Answer, Effect
  <2> QED
    BY <2>1, NewDirOK
<1>3. CASE m.op = "chmod"
  <2>1. m.path \in Paths /\ m.mode \in Nat
    BY <1>3 DEF Write
  <2>2. dir[m.path] # NoDir
    BY <1>3 DEF Answer
  <2>3. PICK stray : stray = IF answered THEN hist.stray \ {dir[m.path].id}
                             ELSE hist.stray \cup {dir[m.path].id}
    OBVIOUS
  <2>4. /\ dir' = [dir EXCEPT ![m.path].mode = m.mode] /\ hist' = [hist EXCEPT !.stray = stray]
        /\ UNCHANGED <<shares, jobs, aborted, nextId>>
    BY <1>3, <2>3 DEF Effect
  <2>5. stray \in SUBSET Nat
    BY <2>1, <2>3 DEF CoreOK, CoreTypes
  <2> QED
    BY <2>1, <2>2, <2>4, <2>5, ChangeModeOK
<1>4. CASE m.op = "post"
  <2>1. m.spec \in Specs
    BY <1>4 DEF Write
  <2>2. Labelled(m.spec) = {} /\ NewShare(m.spec)
    BY <1>4 DEF Answer, Effect
  <2> QED
    BY <2>1, <2>2, NewShareOK
<1>5. CASE m.op = "tomb"
  <2>1. m.h \in hist.delReq /\ Opts[m.h.spec].deleteData /\ Claimable(m.h.res, m.etag)
    BY <1>5 DEF MsgOK
  <2>2. PICK s \in Share(m.h.res) : s.etag = m.etag /\ Unclaimed(s)
    BY <1>5, <2>1 DEF Answer, IfMatch, Claimable
  <2>3. SetShares({IF r.id = m.h.res THEN Marked(r, m.h) ELSE r : r \in shares})
    BY <1>5 DEF Effect, Marked
  <2> QED
    BY <2>1, <2>2, <2>3, TombOK
<1>6. CASE m.op = "tree"
  <2>1. PICK h \in hist.delReq : /\ h.dir = m.dir /\ Opts[h.spec].deleteData
                                 /\ Gone(h.dir) \/ ClaimedBy(h)
    BY <1>6 DEF MsgOK
  <2>2. m.dir \notin jobs \cup aborted /\ m.dir \in DirIds
    BY <1>6 DEF Answer
  <2>3. /\ jobs' = jobs \cup {m.dir} /\ hist' = [hist EXCEPT !.destroyed = @ \cup {m.dir}]
        /\ UNCHANGED <<dir, shares, aborted, nextId>>
    BY <1>6 DEF Effect
  <2> QED
    BY <2>1, <2>2, <2>3, TreeOK
<1>7. CASE m.op = "drop"
  <2>1. m.res \in Nat /\ Droppable(m.res, m.etag)
    BY <1>7 DEF Write, MsgOK
  <2>2. \E r \in Share(m.res) : r.etag = m.etag
    BY <1>7 DEF Answer, IfMatch
  <2>3. shares' = shares \ Share(m.res) /\ UNCHANGED <<dir, jobs, aborted, nextId, hist>>
    BY <1>7 DEF Effect, SetShares
  <2>4. CoreTypes'
    BY <2>3 DEF CoreOK, CoreTypes
  <2>5. DirOK' /\ ShareOK' /\ Evolves
    BY <2>1, <2>2, <2>3, <2>4, AcceptedDrop, DropOK
  <2> QED
    BY <2>3, <2>4, <2>5, HistStays DEF CoreOK
<1>8. CASE m.op = "fix"
  <2>1. PICK s : s \in Share(m.res)
    BY <1>8 DEF Answer, IfMatch
  <2>2. SetShares({IF r.id = m.res THEN Edited(r, FALSE) ELSE r : r \in shares})
    BY <1>8 DEF Effect, Edited
  <2> QED
    BY <2>1, <2>2, FixOK
<1> QED
  BY <1>2, <1>3, <1>4, <1>5, <1>6, <1>7, <1>8 DEF Write

\* What happens in Core by itself or at an operator's hands.
LEMMA JobEndOK ==
    ASSUME CoreOK, NEW d \in jobs, jobs' = jobs \ {d},
           dir' = [p \in Paths |-> IF dir[p].id = d THEN NoDir ELSE dir[p]],
           UNCHANGED <<shares, aborted, nextId, hist>>
    PROVE  CoreOK' /\ Evolves
<1>1. \A p \in Paths : dir'[p] = IF dir[p].id = d THEN NoDir ELSE dir[p]
  OBVIOUS
<1>2. d \in Nat /\ d # 0
  BY DEF CoreOK, CoreTypes, DirOK, HistOK, HandleOK
<1>3. NoDir.id = 0 /\ NoDir \in [id : Nat, mode : Nat, quota : Nat]
  BY DEF NoDir
<1>4. CoreTypes'
  BY <1>1, <1>3 DEF CoreOK, CoreTypes
<1>5. DirOK'
  BY <1>1, <1>3 DEF CoreOK, CoreTypes, DirOK
<1>6. ShareOK'
  BY DEF CoreOK, ShareOK, Unclaimed, ClaimedOnRequest
<1>7. Gone(d)'
  BY <1>1, <1>2, <1>3 DEF Gone, DirIds
<1>8. Evolves
  BY <1>1, <1>3, <1>7 DEF CoreOK, CoreTypes, Evolves
<1> QED
  BY <1>4, <1>5, <1>6, <1>8, HistStays DEF CoreOK

\* Core gives up a tree-delete job and keeps reporting it.
LEMMA JobAbortOK ==
    ASSUME CoreOK, NEW d \in jobs, jobs' = jobs \ {d}, aborted' = aborted \cup {d},
           UNCHANGED <<dir, shares, nextId, hist>>
    PROVE  CoreOK' /\ Evolves
<1>1. CoreTypes'
  BY DEF CoreOK, CoreTypes
<1>2. DirOK'
  BY DEF CoreOK, CoreTypes, DirOK
<1>3. ShareOK'
  BY DEF CoreOK, ShareOK, Unclaimed, ClaimedOnRequest
<1>4. Evolves
  BY DEF CoreOK, CoreTypes, Evolves
<1> QED
  BY <1>1, <1>2, <1>3, <1>4, HistStays DEF CoreOK

\* An operator puts another directory at a path.
LEMMA ReplaceOK ==
    ASSUME CoreOK, NEW p \in Paths, nextId' = nextId + 1,
           dir' = [dir EXCEPT ![p] = [id |-> nextId, mode |-> 0, quota |-> 0]],
           UNCHANGED <<shares, jobs, aborted, hist>>
    PROVE  CoreOK' /\ Evolves
<1>1. CoreTypes'
  BY DEF CoreOK, CoreTypes
<1>2. DirOK'
  BY DEF CoreOK, CoreTypes, DirOK, NoDir
<1>3. Evolves
  BY DEF CoreOK, CoreTypes, Evolves
<1>4. ShareOK'
  BY DEF CoreOK, CoreTypes, ShareType, ShareOK, Unclaimed, ClaimedOnRequest
<1> QED
  BY <1>1, <1>2, <1>3, <1>4, HistStays DEF CoreOK

\* The quota of a directory is raised.
LEMMA GrowOK ==
    ASSUME CoreOK, NEW d \in DirIds, NEW cap \in Nat,
           dir' = [p \in Paths |-> IF dir[p].id = d /\ dir[p].quota < cap
                                   THEN [dir[p] EXCEPT !.quota = cap] ELSE dir[p]],
           UNCHANGED <<shares, jobs, aborted, nextId, hist>>
    PROVE  CoreOK' /\ Evolves
<1>1. \A p \in Paths : /\ dir'[p] \in [id : Nat, mode : Nat, quota : Nat]
                       /\ dir'[p].id = dir[p].id
                       /\ dir[p].id = 0 => dir'[p] = dir[p]
  BY DEF CoreOK, CoreTypes, DirIds
<1>2. CoreTypes'
  BY <1>1 DEF CoreOK, CoreTypes
<1>3. DirOK'
  BY <1>1 DEF CoreOK, CoreTypes, DirOK
<1>4. ShareOK'
  BY DEF CoreOK, ShareOK, Unclaimed, ClaimedOnRequest
<1>5. Evolves
  BY <1>1 DEF CoreOK, CoreTypes, Evolves
<1> QED
  BY <1>2, <1>3, <1>4, <1>5, HistStays DEF CoreOK

\* A step of the world moves no call.
LEMMA WorldStep ==
    ASSUME Base, CoreOK', Evolves, late' \subseteq late, UNCHANGED work,
           count' \in [Events -> Nat]
    PROVE  Base'
<1>1. \A m \in late' : MsgOK(m)'
  BY MsgStays DEF Base, CoreOK
<1>2. ASSUME NEW v \in Workers PROVE LocalOK(work[v])'
  <2>1. work'[v] = work[v] /\ work[v] \in Locals /\ LocalOK(work[v])
    BY DEF Base
  <2> QED
    BY <2>1, LocalStays DEF Base, CoreOK
<1> QED
  BY <1>1, <1>2 DEF Base

\* The counters of the bounded events stay natural numbers.
LEMMA CountType ==
    ASSUME Base, NEW e \in Events, count' = [count EXCEPT ![e] = @ + 1]
    PROVE  count' \in [Events -> Nat]
BY DEF Base

\* Base survives late writes, tree-delete jobs and operators.
LEMMA WorldOK == ASSUME Base, External PROVE Base'
<1>1. CASE LateWrite
  <2>1. PICK m \in late : Commit(m, FALSE) /\ late' = late \ {m} /\ UNCHANGED <<work, count>>
    BY <1>1 DEF LateWrite
  <2>2. m \in Write /\ MsgOK(m)
    BY DEF Base
  <2>3. CoreOK' /\ Evolves
    BY <2>1, <2>2, CommitOK DEF Base
  <2>4. count' \in [Events -> Nat]
    BY <2>1 DEF Base
  <2> QED
    BY <2>1, <2>3, <2>4, WorldStep
<1>2. CASE JobEnds
  <2>1. PICK d \in jobs :
           /\ jobs' = jobs \ {d}
           /\ dir' = [p \in Paths |-> IF dir[p].id = d THEN NoDir ELSE dir[p]]
           /\ UNCHANGED <<shares, aborted, nextId, late, work, count, hist>>
    BY <1>2 DEF JobEnds
  <2>2. CoreOK' /\ Evolves
    BY <2>1, JobEndOK DEF Base
  <2>3. count' \in [Events -> Nat]
    BY <2>1 DEF Base
  <2> QED
    BY <2>1, <2>2, <2>3, WorldStep
<1>3. CASE JobAborts
  <2>1. PICK d \in jobs :
           /\ count' = [count EXCEPT !["aborted"] = @ + 1]
           /\ jobs' = jobs \ {d} /\ aborted' = aborted \cup {d}
           /\ UNCHANGED <<dir, shares, nextId, late, work, hist>>
    BY <1>3 DEF JobAborts
  <2>2. CoreOK' /\ Evolves
    BY <2>1, JobAbortOK DEF Base
  <2> QED
    BY <2>1, <2>2, CountType, WorldStep DEF Events
<1>4. CASE OperatorReplaces
  <2>1. PICK p \in Paths :
           /\ count' = [count EXCEPT !["replaced"] = @ + 1]
           /\ dir' = [dir EXCEPT ![p] = [id |-> nextId, mode |-> 0, quota |-> 0]]
           /\ nextId' = nextId + 1
           /\ UNCHANGED <<shares, jobs, aborted, late, work, hist>>
    BY <1>4 DEF OperatorReplaces
  <2>2. CoreOK' /\ Evolves
    BY <2>1, ReplaceOK DEF Base
  <2> QED
    BY <2>1, <2>2, CountType, WorldStep DEF Events
<1>5. CASE OperatorEdits
  <2>1. PICK r \in shares :
           /\ count' = [count EXCEPT !["edited"] = @ + 1]
           /\ shares' = (shares \ {r}) \cup {Edited(r, TRUE)}
           /\ UNCHANGED <<dir, jobs, aborted, nextId, late, work, hist>>
    BY <1>5 DEF OperatorEdits, Edited
  <2>2. r \in ShareType
    BY DEF Base, CoreOK, CoreTypes
  <2>3. PICK t \in ShareType :
           /\ t = Edited(r, TRUE) /\ t.id = r.id /\ t.spec = r.spec
           /\ t.desc = r.desc /\ t.etag > r.etag
    BY <2>2, EditedType
  <2>4. CoreOK' /\ Evolves
    BY <2>1, <2>3, ShareChangeOK DEF Base
  <2> QED
    BY <2>1, <2>4, CountType, WorldStep DEF Events
<1> QED
  BY <1>1, <1>2, <1>3, <1>4, <1>5 DEF External

\* Steps of a handler.

\* Base survives a read after which the handler is in order.
LEMMA ReadOK ==
    ASSUME Base, NEW w \in Workers, NEW k \in Locals, Read(w, k), LocalOK(k)
    PROVE  Base'
<1>1. CoreOK' /\ Evolves
  BY NothingHappens DEF Base, Read
<1>2. LocalOK(k)'
  BY <1>1, LocalStays DEF Base, CoreOK
<1>3. late' = late /\ count' = count /\ work' = [work EXCEPT ![w] = k]
  BY DEF Read
<1> QED
  BY <1>1, <1>2, <1>3, Frame DEF Base

\* Base survives a handler that returns an error.
LEMMA ReadIdle ==
    ASSUME Base, NEW w \in Workers, Read(w, Idle)
    PROVE  Base'
<1>1. LocalOK(Idle)
  BY DEF LocalOK, Idle, CreatePoints, DeletePoints
<1> QED
  BY <1>1, IdleType, ReadOK

\* A write that is answered, and one whose answer is lost.
LEMMA AnsweredOK ==
    ASSUME Base, NEW w \in Workers, NEW m \in Write, MsgOK(m), Commit(m, TRUE),
           NEW k \in Locals, work' = [work EXCEPT ![w] = k], LocalOK(k)',
           UNCHANGED <<late, count>>
    PROVE  Base'
<1>1. CoreOK' /\ Evolves
  BY CommitOK DEF Base
<1> QED
  BY <1>1, Frame DEF Base

\* The same for a write whose answer is lost.
LEMMA LostOK ==
    ASSUME Base, NEW w \in Workers, NEW m \in Write, MsgOK(m),
           NEW k \in Locals, work' = [work EXCEPT ![w] = k], LocalOK(k),
           late' = late \cup {m}, count' = [count EXCEPT !["lost"] = @ + 1],
           UNCHANGED <<core, hist>>
    PROVE  Base'
<1>1. CoreOK' /\ Evolves
  BY NothingHappens DEF Base
<1>2. LocalOK(k)' /\ MsgOK(m)'
  BY <1>1, LocalStays, MsgStays DEF Base, CoreOK
<1>3. count' \in [Events -> Nat]
  BY CountType DEF Events
<1>4. late' \subseteq Write /\ \A n \in late' \ late : MsgOK(n)'
  BY <1>2 DEF Base
<1> QED
  BY <1>1, <1>2, <1>3, <1>4, Frame

\* The local variables of a call that goes on to another control point.
LEMMA GoType ==
    ASSUME Base, NEW w \in Workers, NEW p \in Points
    PROVE  /\ Go(w, p) \in Locals
           /\ Go(w, p).pc = p /\ Go(w, p).h = work[w].h /\ Go(w, p).found = work[w].found
           /\ Go(w, p).seen = work[w].seen /\ Go(w, p).etag = work[w].etag
           /\ Go(w, p).round = work[w].round
BY DEF Base, Locals, Go

\* The parts of the local variables of a handler.
LEMMA WorkType ==
    ASSUME Base, NEW w \in Workers
    PROVE  /\ work[w] \in Locals /\ LocalOK(work[w])
           /\ work[w].h \in Handle /\ Spec(w) \in Specs /\ Path(w) \in Paths
           /\ work[w].h.dir \in Nat /\ work[w].h.res \in Nat
           /\ work[w].seen \in Nat /\ work[w].etag \in Nat /\ work[w].found \in BOOLEAN
           /\ work[w].round \in 1..Rounds
<1>1. work[w] \in Locals /\ LocalOK(work[w])
  BY DEF Base
<1>2. work[w].h \in Handle /\ work[w].h.spec \in Specs
  BY <1>1 DEF Locals, Handle
<1> QED
  BY <1>1, <1>2 DEF Locals, Handle, Spec, Path, Paths

\* Base survives the start of a request, with its locks.
LEMMA StartOK ==
    ASSUME Base, NEW w \in Workers, StartCreate(w) \/ StartExpand(w) \/ StartDelete(w)
    PROVE  Base'
<1>1. ASSUME NEW p \in Points, NEW h \in Handle, StartRequest(w, p, h),
             CoreOK', Evolves,
             \A k \in Locals : k.pc = p /\ k.h = h => LocalOK(k)'
      PROVE  Base'
  <2>1. [Idle EXCEPT !.pc = p, !.h = h] \in Locals
    BY IdleType DEF Locals
  <2>2. PICK k \in Locals : k = [Idle EXCEPT !.pc = p, !.h = h]
    BY <2>1
  <2>3. k.pc = p /\ k.h = h
    BY <2>2, IdleType DEF Locals
  <2>4. /\ work' = [work EXCEPT ![w] = k] /\ late' = late
        /\ count' = [count EXCEPT !["requests"] = @ + 1]
    BY <1>1, <2>2 DEF StartRequest
  <2>5. count' \in [Events -> Nat]
    BY <2>4, CountType DEF Events
  <2>6. late' \subseteq Write
    BY <2>4 DEF Base
  <2> QED
    BY <1>1, <2>3, <2>4, <2>5, <2>6, Frame
<1>2. CASE StartCreate(w)
  <2>1. PICK s \in Specs : /\ StartRequest(w, "listNFS", [spec |-> s, dir |-> 0, res |-> 0])
                           /\ UNCHANGED hist
    BY <1>2 DEF StartCreate
  <2>2. [spec |-> s, dir |-> 0, res |-> 0] \in Handle /\ "listNFS" \in Points
    BY DEF Handle, Points, CreatePoints
  <2>3. CoreOK' /\ Evolves
    BY <2>1, NothingHappens DEF Base, StartRequest
  <2>4. \A k \in Locals : k.pc = "listNFS" /\ k.h = [spec |-> s, dir |-> 0, res |-> 0]
                            => LocalOK(k)'
    BY DEF LocalOK, CreateOK, CreatePoints, DeletePoints
  <2> QED
    BY <1>1, <2>1, <2>2, <2>3, <2>4
<1>3. CASE StartExpand(w)
  <2>1. PICK h \in hist.issued : StartRequest(w, "xValidDir", h) /\ UNCHANGED hist
    BY <1>3 DEF StartExpand
  <2>2. h \in Handle /\ "xValidDir" \in Points
    BY DEF Points, ExpandPoints, Base, CoreOK, CoreTypes
  <2>3. CoreOK' /\ Evolves
    BY <2>1, NothingHappens DEF Base, StartRequest
  <2>4. \A k \in Locals : k.pc = "xValidDir" /\ k.h = h => LocalOK(k)'
    BY DEF LocalOK, CreatePoints, DeletePoints
  <2> QED
    BY <1>1, <2>1, <2>2, <2>3, <2>4
<1>4. CASE StartDelete(w)
  <2> DEFINE pt(h) == IF Opts[h.spec].deleteData THEN "attrs" ELSE "drop"
  <2>1. PICK h \in hist.issued : /\ StartRequest(w, pt(h), h)
                                 /\ hist' = [hist EXCEPT !.delReq = @ \cup {h}]
    BY <1>4 DEF StartDelete
  <2>2. h \in Handle /\ pt(h) \in Points
    BY DEF Points, DeletePoints, Base, CoreOK, CoreTypes
  <2>3. /\ hist'.issued = hist.issued /\ hist'.delReq = hist.delReq \cup {h}
        /\ hist'.deleted = hist.deleted /\ hist'.destroyed = hist.destroyed
        /\ UNCHANGED core
    BY <2>1 DEF Base, CoreOK, CoreTypes, StartRequest
  <2>4. CoreOK' /\ Evolves
    <3>1. CoreTypes'
      BY <2>1, <2>2, <2>3 DEF Base, CoreOK, CoreTypes, core
    <3>2. DirOK'
      BY <2>3 DEF Base, CoreOK, DirOK, core
    <3>3. ShareOK'
      BY <2>3 DEF Base, CoreOK, ShareOK, Unclaimed, ClaimedOnRequest, core
    <3>4. Evolves
      BY <2>3 DEF Base, CoreOK, CoreTypes, Evolves, core
    <3>5. HistOK'
      <4>1. hist'.delReq \subseteq hist'.issued /\ hist'.deleted \subseteq hist'.delReq
        BY <2>3 DEF Base, CoreOK, HistOK
      <4> QED
        BY <2>3, <3>1, <3>4, <4>1, HistGrows DEF Base, CoreOK
    <3> QED
      BY <3>1, <3>2, <3>3, <3>4, <3>5 DEF CoreOK
  <2>5. \A k \in Locals : k.pc = pt(h) /\ k.h = h => LocalOK(k)'
    BY <2>3 DEF LocalOK, DeleteOK, CreatePoints, DeletePoints
  <2> HIDE DEF pt
  <2> QED
    BY <1>1, <2>1, <2>2, <2>4, <2>5
<1> QED
  BY <1>2, <1>3, <1>4

\* The first reads of a create.
LEMMA ListOK ==
    ASSUME Base, NEW w \in Workers, ListNFS(w) \/ ListSMB(w) \/ CheckDir(w)
    PROVE  Base'
<1>1. ASSUME NEW found \in BOOLEAN, NEW pc \in {"listNFS", "listSMB", "checkDir"}, At(w, pc),
             NEW p \in {"listSMB", "checkDir", "getDir"},
             Read(w, [Go(w, p) EXCEPT !.found = found])
      PROVE  Base'
  <2>1. Go(w, p) \in Locals /\ Go(w, p).pc = p /\ Go(w, p).h = work[w].h
    BY GoType DEF Points, CreatePoints
  <2>2. PICK k \in Locals : k = [Go(w, p) EXCEPT !.found = found]
    BY <2>1 DEF Locals
  <2>3. k.pc = p /\ k.h = work[w].h
    BY <2>1, <2>2 DEF Locals
  <2>4. CreateOK(work[w])
    BY <1>1, WorkType DEF At, LocalOK, CreatePoints
  <2>5. LocalOK(k)
    BY <2>3, <2>4 DEF LocalOK, CreateOK, CreatePoints, DeletePoints
  <2> QED
    BY <1>1, <2>2, <2>5, ReadOK
<1>2. ASSUME NEW pc \in {"listNFS", "listSMB"}, NEW proto,
             NEW p \in {"listSMB", "checkDir"}, ListShares(w, pc, proto, p)
      PROVE  Base'
  <2>1. CASE Read(w, Idle)
    BY <2>1, ReadIdle
  <2> DEFINE related == {r \in shares : Opts[r.spec].proto = proto /\ Related(r, Spec(w))}
  <2>2. CASE Read(w, [Go(w, p) EXCEPT !.found = @ \/ related # {}])
    <3>1. PICK f \in BOOLEAN : f = (Go(w, p).found \/ related # {})
      BY Zenon
    <3>2. Read(w, [Go(w, p) EXCEPT !.found = f])
      BY Zenon, <2>2, <3>1
    <3> QED
      BY <1>2, <1>1, <3>2 DEF ListShares
  <2> QED
    BY <1>2, <2>1, <2>2 DEF ListShares
<1>3. CASE ListNFS(w)
  BY <1>2, <1>3 DEF ListNFS
<1>4. CASE ListSMB(w)
  BY <1>2, <1>4 DEF ListSMB
<1>5. CASE CheckDir(w)
  <2>1. CASE Read(w, Idle)
    BY <2>1, ReadIdle
  <2>2. CASE Read(w, Go(w, "getDir"))
    <3>1. PICK k \in Locals : k = Go(w, "getDir") /\ k.pc = "getDir" /\ k.h = work[w].h
      BY GoType DEF Points, CreatePoints
    <3>2. CreateOK(work[w])
      BY <1>5, WorkType DEF CheckDir, At, LocalOK, CreatePoints
    <3>3. LocalOK(k)
      BY <3>1, <3>2 DEF LocalOK, CreateOK, CreatePoints, DeletePoints
    <3> QED
      BY <2>2, <3>1, <3>3, ReadOK
  <2> QED
    BY <1>5, <2>1, <2>2 DEF CheckDir
<1> QED
  BY <1>3, <1>4, <1>5

\* What a handler that has learnt of a directory goes on with.
LEMMA DirSeenCases ==
    ASSUME Base, NEW w \in Workers, NEW id \in Nat, NEW mode \in Nat
    PROVE  \E k \in Locals :
             /\ k = DirSeen(w, id, mode)
             /\ \/ /\ k.pc = "claim" /\ work[w].h.res = 0
                   /\ k.h.dir = id /\ k.h.spec = Spec(w) /\ k.h.res = 0
                \/ /\ k.pc = "chmod" /\ work[w].h.res # 0
                   /\ k.h = work[w].h /\ k.seen = id
                \/ /\ k.pc = "quota" /\ work[w].h.res # 0
                   /\ k.h = work[w].h /\ id = work[w].h.dir /\ mode = Opts[Spec(w)].mode
                \/ k = Idle
<1>1. CASE ~Claimed(w)
  <2>1. Go(w, "claim") \in Locals /\ Go(w, "claim").h = work[w].h /\ Go(w, "claim").pc = "claim"
    BY GoType DEF Points, CreatePoints
  <2>2. PICK k \in Locals : k = [Go(w, "claim") EXCEPT !.h.dir = id]
    BY <2>1 DEF Locals, Handle
  <2>3. k.pc = "claim" /\ k.h.dir = id /\ k.h.spec = Spec(w) /\ k.h.res = work[w].h.res
    BY <2>1, <2>2, WorkType DEF Locals, Handle, Spec
  <2> QED
    BY <1>1, <2>2, <2>3 DEF DirSeen, Claimed
<1>2. CASE Claimed(w) /\ mode # Opts[Spec(w)].mode
  <2>1. Go(w, "chmod") \in Locals /\ Go(w, "chmod").h = work[w].h /\ Go(w, "chmod").pc = "chmod"
    BY GoType DEF Points, CreatePoints
  <2>2. PICK k \in Locals : k = [Go(w, "chmod") EXCEPT !.seen = id]
    BY <2>1 DEF Locals
  <2>3. k.pc = "chmod" /\ k.h = work[w].h /\ k.seen = id
    BY <2>1, <2>2 DEF Locals
  <2> QED
    BY <1>2, <2>2, <2>3 DEF DirSeen, Claimed
<1>3. CASE Claimed(w) /\ mode = Opts[Spec(w)].mode /\ id = work[w].h.dir
  <2>1. Go(w, "quota") \in Locals /\ Go(w, "quota").h = work[w].h /\ Go(w, "quota").pc = "quota"
    BY GoType DEF Points, CreatePoints
  <2> QED
    BY <1>3, <2>1 DEF DirSeen, Claimed
<1>4. CASE Claimed(w) /\ mode = Opts[Spec(w)].mode /\ id # work[w].h.dir
  BY <1>4, IdleType DEF DirSeen
<1> QED
  BY <1>1, <1>2, <1>3, <1>4

\* The directory that a read finds at the path of the request.
LEMMA FoundAt ==
    ASSUME Base, NEW w \in Workers, dir[Path(w)] # NoDir
    PROVE  /\ dir[Path(w)].id \in Nat /\ dir[Path(w)].mode \in Nat
           /\ dir[Path(w)].id # 0 /\ dir[Path(w)].id < nextId
           /\ \A p \in Paths : dir[p].id = dir[Path(w)].id => p = Path(w)
BY WorkType DEF Base, CoreOK, CoreTypes, DirOK

\* The two reads of the directory.
LEMMA GetDirOK ==
    ASSUME Base, NEW w \in Workers, GetDir(w) \/ RegetDir(w)
    PROVE  Base'
<1>1. CreateOK(work[w])
  BY WorkType DEF GetDir, RegetDir, At, LocalOK, CreatePoints
<1>2. CASE Read(w, Idle)
  BY <1>2, ReadIdle
<1>3. CASE Read(w, Go(w, "mkdir"))
  <2>1. PICK k \in Locals : k = Go(w, "mkdir") /\ k.pc = "mkdir" /\ k.h = work[w].h
    BY GoType DEF Points, CreatePoints
  <2>2. LocalOK(k)
    BY <1>1, <2>1 DEF LocalOK, CreateOK, CreatePoints, DeletePoints
  <2> QED
    BY <1>3, <2>1, <2>2, ReadOK
<1>4. CASE dir[Path(w)] # NoDir /\ Read(w, DirSeen(w, dir[Path(w)].id, dir[Path(w)].mode))
  <2> DEFINE id == dir[Path(w)].id
             mode == dir[Path(w)].mode
  <2>1. /\ id \in Nat /\ mode \in Nat /\ id # 0 /\ id < nextId
        /\ \A p \in Paths : dir[p].id = id => p = Path(w)
    BY <1>4, FoundAt
  <2> HIDE DEF id, mode
  <2>2. PICK k \in Locals :
             /\ k = DirSeen(w, id, mode)
             /\ \/ /\ k.pc = "claim" /\ work[w].h.res = 0
                   /\ k.h.dir = id /\ k.h.spec = Spec(w) /\ k.h.res = 0
                \/ /\ k.pc = "chmod" /\ work[w].h.res # 0
                   /\ k.h = work[w].h /\ k.seen = id
                \/ /\ k.pc = "quota" /\ work[w].h.res # 0
                   /\ k.h = work[w].h /\ id = work[w].h.dir /\ mode = Opts[Spec(w)].mode
                \/ k = Idle
    BY <2>1, DirSeenCases
  <2>3. LocalOK(k)
    <3>1. CASE k.pc = "claim" /\ k.h.dir = id /\ k.h.spec = Spec(w) /\ k.h.res = 0
      BY <2>1, <3>1 DEF LocalOK, CreateOK, Home, Path, CreatePoints, DeletePoints
    <3>2. CASE k.pc \in {"chmod", "quota"} /\ k.h = work[w].h /\ work[w].h.res # 0
      BY <1>1, <3>2 DEF LocalOK, CreateOK, CreatePoints, DeletePoints
    <3>3. CASE k = Idle
      BY <3>3 DEF LocalOK, Idle, CreatePoints, DeletePoints
    <3> QED
      BY <2>2, <3>1, <3>2, <3>3
  <2>4. Read(w, k)
    BY <1>4, <2>2 DEF id, mode
  <2> QED
    BY <2>3, <2>4, ReadOK
<1> QED
  BY <1>2, <1>3, <1>4 DEF GetDir, RegetDir

\* A handler that reads Core and keeps its local variables.
LEMMA GoOn ==
    ASSUME Base, NEW w \in Workers, NEW p \in Points, Read(w, Go(w, p)),
           \A k \in Locals : /\ k.pc = p /\ k.h = work[w].h /\ k.found = work[w].found
                             /\ k.seen = work[w].seen /\ k.etag = work[w].etag
                             => LocalOK(k)
    PROVE  Base'
<1>1. Go(w, p) \in Locals /\ LocalOK(Go(w, p))
  BY GoType
<1> QED
  BY <1>1, ReadOK

\* A handler that writes to Core.
LEMMA SendOK ==
    ASSUME Base, NEW w \in Workers, NEW m \in Write, MsgOK(m), NEW after, Send(w, m, after),
           after["lost"] \in Locals, LocalOK(after["lost"]),
           after[Answer(m)] \in Locals,
           \A k \in Locals : k = after[Answer(m)] /\ Commit(m, TRUE) => LocalOK(k)'
    PROVE  Base'
<1>1. CASE /\ Commit(m, TRUE) /\ work' = [work EXCEPT ![w] = after[Answer(m)]]
           /\ UNCHANGED <<late, count>>
  <2>1. PICK k \in Locals : k = after[Answer(m)]
    OBVIOUS
  <2>2. LocalOK(k)'
    BY <1>1, <2>1
  <2> QED
    BY <1>1, <2>1, <2>2, AnsweredOK
<1>2. CASE /\ count' = [count EXCEPT !["lost"] = @ + 1] /\ late' = late \cup {m}
           /\ work' = [work EXCEPT ![w] = after["lost"]]
           /\ UNCHANGED <<core, hist>>
  BY <1>2, LostOK
<1> QED
  BY <1>1, <1>2 DEF Send

\* A create makes the directory, and reads it again when that fails.
LEMMA MakeDirOK ==
    ASSUME Base, NEW w \in Workers, MakeDir(w)
    PROVE  Base'
<1> DEFINE m == [op |-> "mkdir", path |-> Path(w)]
           after == [a \in Answers |-> IF a = "ok" THEN DirSeen(w, nextId, 0)
                                       ELSE Go(w, "regetDir")]
<1>1. /\ m \in Write /\ MsgOK(m) /\ Answer(m) \in {"ok", "exists"}
      /\ Answer(m) = "ok" => dir[Path(w)] = NoDir
  BY WorkType DEF Write, MsgOK, Answer
<1>2. Send(w, m, after) /\ CreateOK(work[w])
  BY WorkType DEF MakeDir, At, LocalOK, CreatePoints
<1>3. /\ after["ok"] = DirSeen(w, nextId, 0) /\ after["exists"] = Go(w, "regetDir")
      /\ after["lost"] = Go(w, "regetDir")
  BY DEF Answers
<1>4. Commit(m, TRUE) /\ Answer(m) = "ok" => NewDir(Path(w))
  BY DEF Commit, Effect
<1> HIDE DEF m, after
<1>5. Go(w, "regetDir") \in Locals /\ LocalOK(Go(w, "regetDir"))
  <2>1. /\ Go(w, "regetDir") \in Locals /\ Go(w, "regetDir").pc = "regetDir"
        /\ Go(w, "regetDir").h = work[w].h
    BY GoType DEF Points, CreatePoints
  <2> QED
    BY <1>2, <2>1 DEF LocalOK, CreateOK, CreatePoints, DeletePoints
<1>6. PICK d \in Locals :
             /\ d = DirSeen(w, nextId, 0)
             /\ \/ /\ d.pc = "claim" /\ work[w].h.res = 0
                   /\ d.h.dir = nextId /\ d.h.spec = Spec(w) /\ d.h.res = 0
                \/ /\ d.pc = "chmod" /\ work[w].h.res # 0
                   /\ d.h = work[w].h /\ d.seen = nextId
                \/ /\ d.pc = "quota" /\ work[w].h.res # 0 /\ d.h = work[w].h
                \/ d = Idle
  BY DirSeenCases DEF Base, CoreOK, CoreTypes
<1>7. ASSUME Commit(m, TRUE), NEW k \in Locals, k = after[Answer(m)] PROVE LocalOK(k)'
  <2>1. CoreOK' /\ Evolves
    BY <1>1, <1>7, CommitOK DEF Base
  <2>2. CASE Answer(m) = "exists"
    <3>1. LocalOK(k)
      BY <1>3, <1>5, <1>7, <2>2
    <3> QED
      BY <2>1, <3>1, LocalStays DEF Base, CoreOK
  <2>3. CASE Answer(m) = "ok"
    <3>1. k = d
      BY <1>3, <1>6, <1>7, <2>3
    <3>2. CASE k.pc = "claim" /\ k.h.dir = nextId /\ k.h.spec = Spec(w) /\ k.h.res = 0
      <4>1. /\ dir' = [dir EXCEPT ![Path(w)] = [id |-> nextId, mode |-> 0, quota |-> 0]]
            /\ nextId' = nextId + 1
        BY <1>4, <1>7, <2>3 DEF NewDir
      <4>2. \A p \in Paths : dir'[p].id = nextId => p = Path(w)
        BY <4>1 DEF Base, CoreOK, CoreTypes, DirOK
      <4>3. Home(k.h)' /\ k.h.dir # 0 /\ k.h.dir < nextId'
        BY <3>2, <4>1, <4>2 DEF Home, Path, Base, CoreOK, CoreTypes
      <4> QED
        BY <3>2, <4>3 DEF LocalOK, CreateOK, CreatePoints, DeletePoints
    <3>3. CASE k.pc \in {"chmod", "quota"} /\ k.h = work[w].h /\ work[w].h.res # 0
      <4>1. LocalOK(k)
        BY <1>2, <3>3 DEF LocalOK, CreateOK, CreatePoints, DeletePoints
      <4> QED
        BY <2>1, <4>1, LocalStays DEF Base, CoreOK
    <3>4. CASE k = Idle
      BY <3>4 DEF LocalOK, Idle, CreatePoints, DeletePoints
    <3> QED
      BY <1>6, <3>1, <3>2, <3>3, <3>4
  <2> QED
    BY <1>1, <2>2, <2>3
<1>8. after[Answer(m)] \in Locals
  BY <1>1, <1>3, <1>5, <1>6
<1> QED
  BY <1>1, <1>2, <1>3, <1>5, <1>7, <1>8, SendOK

\* A create sets the mode, and stays where it is when the answer is lost.
LEMMA ChangeModeStep ==
    ASSUME Base, NEW w \in Workers, ChangeMode(w)
    PROVE  Base'
<1> DEFINE m == [op |-> "chmod", path |-> Path(w), mode |-> Opts[Spec(w)].mode]
           after == [a \in Answers |->
                CASE a = "ok" -> IF work[w].seen = work[w].h.dir
                                 THEN [Go(w, "quota") EXCEPT !.seen = 0] ELSE Idle
                  [] a = "lost" -> work[w]
                  [] OTHER -> Idle]
<1>1. m \in Write /\ MsgOK(m) /\ Answer(m) \in {"ok", "missing"}
  BY WorkType, OptsAssumption DEF Write, MsgOK, Answer
<1>2. Send(w, m, after) /\ CreateOK(work[w]) /\ work[w].pc = "chmod"
  BY WorkType DEF ChangeMode, At, LocalOK, CreatePoints
<1>3. /\ after["ok"] = IF work[w].seen = work[w].h.dir
                       THEN [Go(w, "quota") EXCEPT !.seen = 0] ELSE Idle
      /\ after["missing"] = Idle /\ after["lost"] = work[w]
  BY DEF Answers
<1> HIDE DEF m, after
<1>4. Idle \in Locals /\ LocalOK(Idle)
  BY IdleType DEF LocalOK, Idle, CreatePoints, DeletePoints
<1>5. PICK q \in Locals : q = [Go(w, "quota") EXCEPT !.seen = 0] /\ LocalOK(q)
  <2>1. /\ Go(w, "quota") \in Locals /\ Go(w, "quota").pc = "quota"
        /\ Go(w, "quota").h = work[w].h
    BY GoType DEF Points, CreatePoints
  <2>2. PICK q \in Locals : q = [Go(w, "quota") EXCEPT !.seen = 0]
    BY <2>1 DEF Locals
  <2>3. q.pc = "quota" /\ q.h = work[w].h
    BY <2>1, <2>2 DEF Locals
  <2>4. LocalOK(q)
    BY <1>2, <2>3 DEF LocalOK, CreateOK, CreatePoints, DeletePoints
  <2> QED
    BY <2>2, <2>4
<1>6. after[Answer(m)] \in Locals /\ LocalOK(after[Answer(m)])
  BY <1>1, <1>3, <1>4, <1>5
<1>7. ASSUME Commit(m, TRUE), NEW k \in Locals, k = after[Answer(m)] PROVE LocalOK(k)'
  <2>1. CoreOK' /\ Evolves
    BY <1>1, <1>7, CommitOK DEF Base
  <2>2. LocalOK(k)
    BY <1>6, <1>7
  <2> QED
    BY <2>1, <2>2, LocalStays DEF Base, CoreOK
<1> QED
  BY <1>1, <1>2, <1>3, <1>6, <1>7, SendOK, WorkType

\* A create that has found a share with its label.
LEMMA ClaimSeenOK ==
    ASSUME Base, NEW w \in Workers, CreateOK(work[w]), work[w].h.dir # 0,
           NEW r \in Labelled(Spec(w)), Read(w, ClaimSeen(w, r))
    PROVE  Base'
<1>1. CASE r.desc = Managed(Spec(w)) /\ Opts[r.spec].path = Path(w)
  <2>1. /\ r \in shares /\ r.id \in Nat /\ r.id # 0 /\ r.id < nextId
        /\ \A q \in shares : q.id = r.id => q = r
    BY DEF Labelled, Base, CoreOK, CoreTypes, ShareType, ShareOK
  <2>2. r.spec = Spec(w)
    <3>1. Unclaimed(r)
      BY <1>1, <2>1 DEF Base, CoreOK, ShareOK, ClaimedOnRequest, Managed
    <3> QED
      BY <1>1, <3>1 DEF Unclaimed, Managed
  <2>3. \A p \in {"getDir", "fix"} :
           Go(w, p) \in Locals /\ Go(w, p).pc = p /\ Go(w, p).h = work[w].h
    BY GoType DEF Points, CreatePoints
  <2>4. PICK k \in Locals :
           /\ k.pc \in {"getDir", "fix"} /\ k.h.dir = work[w].h.dir
           /\ k.h.spec = Spec(w) /\ k.h.res = r.id
           /\ k = IF r.drift THEN [Go(w, "fix") EXCEPT !.h.res = r.id, !.etag = r.etag]
                  ELSE [Go(w, "getDir") EXCEPT !.h.res = r.id, !.round = 1]
    <3>1. r.etag \in Nat
      BY <2>1 DEF Base, CoreOK, CoreTypes, ShareType
    <3>2. PICK f \in Locals : f = [Go(w, "fix") EXCEPT !.h.res = r.id, !.etag = r.etag]
      BY <2>1, <2>3, <3>1 DEF Locals, Handle
    <3>3. PICK g \in Locals : g = [Go(w, "getDir") EXCEPT !.h.res = r.id, !.round = 1]
      BY <2>1, <2>3, FirstRound DEF Locals, Handle
    <3>4. f.pc = "fix" /\ f.h.dir = work[w].h.dir /\ f.h.spec = Spec(w) /\ f.h.res = r.id
      BY <2>3, <3>2, WorkType DEF Locals, Handle, Spec
    <3>5. g.pc = "getDir" /\ g.h.dir = work[w].h.dir /\ g.h.spec = Spec(w) /\ g.h.res = r.id
      BY <2>3, <3>3, WorkType DEF Locals, Handle, Spec
    <3> QED
      BY <3>2, <3>3, <3>4, <3>5
  <2>6. Home(k.h) /\ k.h.dir < nextId
    BY <2>4 DEF CreateOK, Home, Spec
  <2>7. HandleOK(k.h)
    BY <2>1, <2>2, <2>4, <2>6 DEF HandleOK, Share
  <2>8. LocalOK(k)
    BY <2>4, <2>6, <2>7 DEF LocalOK, CreateOK, CreatePoints, DeletePoints
  <2>9. Read(w, k)
    BY <1>1, <2>4 DEF ClaimSeen
  <2> QED
    BY <2>8, <2>9, ReadOK
<1>2. CASE ~(r.desc = Managed(Spec(w)) /\ Opts[r.spec].path = Path(w))
  BY <1>2, ReadIdle DEF ClaimSeen
<1> QED
  BY <1>1, <1>2

\* The two reads by which a create looks for the share that owns the path.
LEMMA ClaimOK ==
    ASSUME Base, NEW w \in Workers, Claim(w) \/ Reclaim(w)
    PROVE  Base'
<1>1. CreateOK(work[w]) /\ work[w].h.dir # 0
  BY WorkType DEF Claim, Reclaim, At, LocalOK, CreateOK, CreatePoints
<1>2. CASE Read(w, Go(w, "post"))
  <2>1. \A k \in Locals : k.pc = "post" /\ k.h = work[w].h => LocalOK(k)
    BY <1>1 DEF LocalOK, CreateOK, CreatePoints, DeletePoints
  <2> QED
    BY <1>2, <2>1, GoOn DEF Points, CreatePoints
<1>3. CASE Read(w, Idle)
  BY <1>3, ReadIdle
<1>4. CASE \E r \in Labelled(Spec(w)) : Read(w, ClaimSeen(w, r))
  BY <1>1, <1>4, ClaimSeenOK
<1> QED
  BY <1>2, <1>3, <1>4 DEF Claim, Reclaim

\* A create posts its share.
LEMMA PostShareOK ==
    ASSUME Base, NEW w \in Workers, PostShare(w)
    PROVE  Base'
<1> DEFINE m == [op |-> "post", spec |-> Spec(w)]
           after == [a \in Answers |->
                CASE a = "ok" -> [Go(w, "getDir") EXCEPT !.h.res = nextId]
                  [] a \in {"exists", "lost"} -> Go(w, "reclaim")
                  [] OTHER -> Idle]
<1>1. /\ m \in Write /\ MsgOK(m) /\ Answer(m) \in {"ok", "exists", "missing"}
      /\ Commit(m, TRUE) /\ Answer(m) = "ok" => NewShare(Spec(w))
  BY WorkType DEF Write, MsgOK, Answer, Commit, Effect
<1>2. Send(w, m, after) /\ CreateOK(work[w]) /\ work[w].h.dir # 0
  BY WorkType DEF PostShare, At, LocalOK, CreateOK, CreatePoints
<1>3. /\ after["ok"] = [Go(w, "getDir") EXCEPT !.h.res = nextId]
      /\ after["exists"] = Go(w, "reclaim") /\ after["lost"] = Go(w, "reclaim")
      /\ after["missing"] = Idle
  BY DEF Answers
<1> HIDE DEF m, after
<1>4. Idle \in Locals /\ LocalOK(Idle)
  BY IdleType DEF LocalOK, Idle, CreatePoints, DeletePoints
<1>5. Go(w, "reclaim") \in Locals /\ LocalOK(Go(w, "reclaim"))
  <2>1. /\ Go(w, "reclaim") \in Locals /\ Go(w, "reclaim").pc = "reclaim"
        /\ Go(w, "reclaim").h = work[w].h
    BY GoType DEF Points, CreatePoints
  <2> QED
    BY <1>2, <2>1 DEF LocalOK, CreateOK, CreatePoints, DeletePoints
<1>6. PICK d \in Locals : /\ d = [Go(w, "getDir") EXCEPT !.h.res = nextId]
                          /\ d.pc = "getDir" /\ d.h.dir = work[w].h.dir
                          /\ d.h.spec = Spec(w) /\ d.h.res = nextId
  <2>1. /\ Go(w, "getDir") \in Locals /\ Go(w, "getDir").pc = "getDir"
        /\ Go(w, "getDir").h = work[w].h
    BY GoType DEF Points, CreatePoints
  <2>2. PICK d \in Locals : d = [Go(w, "getDir") EXCEPT !.h.res = nextId]
    BY <2>1 DEF Locals, Handle, Base, CoreOK, CoreTypes
  <2>3. d.pc = "getDir" /\ d.h.dir = work[w].h.dir /\ d.h.spec = Spec(w) /\ d.h.res = nextId
    BY <2>1, <2>2, WorkType DEF Locals, Handle, Spec
  <2> QED
    BY <2>2, <2>3
<1>7. ASSUME Commit(m, TRUE), NEW k \in Locals, k = after[Answer(m)] PROVE LocalOK(k)'
  <2>1. CoreOK' /\ Evolves
    BY <1>1, <1>7, CommitOK DEF Base
  <2>2. CASE Answer(m) \in {"exists", "missing"}
    <3>1. LocalOK(k)
      BY <1>3, <1>4, <1>5, <1>7, <2>2
    <3> QED
      BY <2>1, <3>1, LocalStays DEF Base, CoreOK
  <2>3. CASE Answer(m) = "ok"
    <3>1. k = d
      BY <1>3, <1>6, <1>7, <2>3
    <3>2. shares' = shares \cup {ShareOf(Spec(w))}
          /\ nextId' = nextId + 1 /\ dir' = dir
      BY <1>1, <1>7, <2>3 DEF NewShare
    <3>3. k.h.dir < nextId /\ k.h.dir # 0 /\ Home(k.h)
      BY <1>2, <1>6, <3>1 DEF CreateOK, Home, Spec
    <3>0. nextId \in Nat \ {0} /\ k.h.dir \in Nat
      BY WorkType, <1>6, <3>1 DEF Base, CoreOK, CoreTypes
    <3>4. Home(k.h)' /\ k.h.dir < nextId' /\ k.h.res < nextId' /\ k.h.res # 0
      <4>1. Home(k.h)'
        BY <3>2, <3>3 DEF Home
      <4> QED
        BY <1>6, <3>0, <3>1, <3>2, <3>3, <4>1
    <3>5. \A r \in Share(k.h.res)' : r.spec = k.h.spec
      <4>1. \A r \in shares : r.id # nextId
        BY <3>0 DEF Base, CoreOK, CoreTypes, ShareType, ShareOK
      <4> QED
        BY <1>6, <3>1, <3>2, <4>1 DEF Share, ShareOf
    <3>6. HandleOK(k.h)'
      BY <3>3, <3>4, <3>5 DEF HandleOK
    <3> QED
      BY <1>6, <3>1, <3>3, <3>4, <3>6 DEF LocalOK, CreateOK, CreatePoints, DeletePoints
  <2> QED
    BY <1>1, <2>2, <2>3
<1>8. after[Answer(m)] \in Locals
  BY <1>1, <1>3, <1>4, <1>5, <1>6
<1> QED
  BY <1>1, <1>2, <1>3, <1>5, <1>7, <1>8, SendOK

\* After a 412 a handler reads again, or gives up.
LEMMA RetryIs ==
    ASSUME Base, NEW w \in Workers, NEW p \in Points
    PROVE  \E k \in Locals : /\ k = Retry(w, p)
                              /\ \/ k.pc = p /\ k.h = work[w].h /\ k.found = work[w].found
                                 \/ k = Idle
<1>1. CASE work[w].round < Rounds
  <2>1. /\ Go(w, p) \in Locals /\ Go(w, p).pc = p /\ Go(w, p).h = work[w].h
        /\ Go(w, p).found = work[w].found /\ Go(w, p).round = work[w].round
    BY GoType
  <2>2. work[w].round + 1 \in 1..Rounds
    BY <1>1, WorkType, BoundsAssumption
  <2>3. PICK k \in Locals : k = [Go(w, p) EXCEPT !.etag = 0, !.round = @ + 1]
    BY <2>1, <2>2 DEF Locals
  <2>4. k.pc = p /\ k.h = work[w].h /\ k.found = work[w].found
    BY <2>1, <2>3 DEF Locals
  <2> QED
    BY <1>1, <2>3, <2>4 DEF Retry
<1>2. CASE ~(work[w].round < Rounds)
  BY <1>2, IdleType DEF Retry
<1> QED
  BY <1>1, <1>2

\* A create puts the settings of its share right.
LEMMA FixShareOK ==
    ASSUME Base, NEW w \in Workers, FixShare(w)
    PROVE  Base'
<1> DEFINE m == [op |-> "fix", res |-> work[w].h.res, etag |-> work[w].etag]
           after == [a \in Answers |->
                CASE a = "ok" -> [Go(w, "getDir") EXCEPT !.etag = 0, !.round = 1]
                  [] a = "stale" -> [Retry(w, "reclaim") EXCEPT !.h.res = 0]
                  [] a = "lost" -> work[w]
                  [] OTHER -> Idle]
<1>1. m \in Write /\ MsgOK(m) /\ Answer(m) \in {"ok", "stale", "missing"}
  BY WorkType DEF Write, MsgOK, Answer, IfMatch
<1>2. Send(w, m, after) /\ CreateOK(work[w]) /\ work[w].h.dir # 0
  BY WorkType DEF FixShare, At, LocalOK, CreateOK, CreatePoints
<1>3. /\ after["ok"] = [Go(w, "getDir") EXCEPT !.etag = 0, !.round = 1]
      /\ after["stale"] = [Retry(w, "reclaim") EXCEPT !.h.res = 0]
      /\ after["lost"] = work[w] /\ after["missing"] = Idle
  BY DEF Answers
<1> HIDE DEF m, after
<1>4. Idle \in Locals /\ LocalOK(Idle) /\ Idle.pc = "idle"
  BY IdleType DEF LocalOK, Idle, CreatePoints, DeletePoints
<1>5. PICK g \in Locals :
         g = [Go(w, "getDir") EXCEPT !.etag = 0, !.round = 1] /\ LocalOK(g)
  <2>1. /\ Go(w, "getDir") \in Locals /\ Go(w, "getDir").pc = "getDir"
        /\ Go(w, "getDir").h = work[w].h
    BY GoType DEF Points, CreatePoints
  <2>2. PICK g \in Locals : g = [Go(w, "getDir") EXCEPT !.etag = 0, !.round = 1]
    BY <2>1, FirstRound DEF Locals
  <2>3. g.pc = "getDir" /\ g.h = work[w].h
    BY <2>1, <2>2 DEF Locals
  <2>4. LocalOK(g)
    BY <1>2, <2>3 DEF LocalOK, CreateOK, CreatePoints, DeletePoints
  <2> QED
    BY <2>2, <2>4
<1>6. PICK c \in Locals : c = [Retry(w, "reclaim") EXCEPT !.h.res = 0] /\ LocalOK(c)
  <2>1. PICK k \in Locals : /\ k = Retry(w, "reclaim")
                            /\ (k.pc = "reclaim" /\ k.h = work[w].h) \/ k = Idle
    BY RetryIs DEF Points, CreatePoints
  <2>2. PICK c \in Locals : c = [k EXCEPT !.h.res = 0]
    BY DEF Locals, Handle
  <2>3. c.pc = k.pc /\ c.h.dir = k.h.dir /\ c.h.spec = k.h.spec /\ c.h.res = 0
    BY <2>2 DEF Locals, Handle
  <2>4. LocalOK(c)
    <3>1. CASE k.pc = "reclaim" /\ k.h = work[w].h
      BY <1>2, <2>3, <3>1 DEF LocalOK, CreateOK, Home, CreatePoints, DeletePoints
    <3>2. CASE k = Idle
      BY <1>4, <2>3, <3>2 DEF LocalOK, CreatePoints, DeletePoints
    <3> QED
      BY <2>1, <3>1, <3>2
  <2> QED
    BY <2>1, <2>2, <2>4
<1>7. after[Answer(m)] \in Locals /\ LocalOK(after[Answer(m)])
  BY <1>1, <1>3, <1>4, <1>5, <1>6
<1>8. ASSUME Commit(m, TRUE), NEW k \in Locals, k = after[Answer(m)] PROVE LocalOK(k)'
  <2>1. CoreOK' /\ Evolves
    BY <1>1, <1>8, CommitOK DEF Base
  <2>2. LocalOK(k)
    BY <1>7, <1>8
  <2> QED
    BY <2>1, <2>2, LocalStays DEF Base, CoreOK
<1> QED
  BY <1>1, <1>2, <1>3, <1>7, <1>8, SendOK, WorkType

\* A quota that is raised leaves everything else as it is.
LEMMA GrowQuotaOK ==
    ASSUME Base, NEW w \in Workers, NEW cap \in Nat, NEW k \in Locals, LocalOK(k),
           GrowQuota(w, cap, k)
    PROVE  Base'
<1>1. CASE work[w].h.dir \notin DirIds
  BY <1>1, ReadIdle DEF GrowQuota
<1>2. CASE work[w].h.dir \in DirIds
  <2>1. /\ dir' = [p \in Paths |->
                      IF dir[p].id = work[w].h.dir /\ dir[p].quota < cap
                      THEN [dir[p] EXCEPT !.quota = cap] ELSE dir[p]]
        /\ work' = [work EXCEPT ![w] = k]
        /\ UNCHANGED <<shares, jobs, aborted, nextId, late, count, hist>>
    BY <1>2 DEF GrowQuota
  <2>2. CoreOK' /\ Evolves
    BY <1>2, <2>1, GrowOK DEF Base
  <2>3. LocalOK(k)'
    BY <2>2, LocalStays DEF Base, CoreOK
  <2>4. count' = count /\ late' = late
    BY <2>1
  <2> QED
    BY <2>1, <2>2, <2>3, <2>4, Frame DEF Base
<1> QED
  BY <1>1, <1>2

\* The quota of a create and the one of an expansion.
LEMMA QuotaOK ==
    ASSUME Base, NEW w \in Workers, EnsureQuota(w) \/ ExpandQuota(w)
    PROVE  Base'
<1>1. CASE EnsureQuota(w)
  <2>1. CreateOK(work[w]) /\ work[w].h.res # 0
    BY <1>1, WorkType DEF EnsureQuota, At, LocalOK, CreateOK, CreatePoints
  <2>2. \A k \in Locals : k.pc = "validDir" /\ k.h = work[w].h => LocalOK(k)
    BY <2>1 DEF LocalOK, CreateOK, CreatePoints, DeletePoints
  <2>3. Go(w, "validDir") \in Locals /\ LocalOK(Go(w, "validDir"))
    BY <2>2, GoType DEF Points, CreatePoints
  <2>4. CASE Read(w, Go(w, "validDir"))
    BY <2>3, <2>4, ReadOK
  <2>5. CASE GrowQuota(w, Opts[Spec(w)].cap, Go(w, "validDir"))
    <3>1. Opts[Spec(w)].cap \in Nat
      BY WorkType, OptsAssumption
    <3> QED
      BY <2>3, <2>5, <3>1, GrowQuotaOK
  <2> QED
    BY <1>1, <2>4, <2>5 DEF EnsureQuota
<1>2. CASE ExpandQuota(w)
  <2>1. Idle \in Locals /\ LocalOK(Idle)
    BY IdleType DEF LocalOK, Idle, CreatePoints, DeletePoints
  <2>2. GrowQuota(w, ExpandTo, Idle) /\ ExpandTo \in Nat
    BY <1>2, BoundsAssumption DEF ExpandQuota
  <2> QED
    BY <2>1, <2>2, GrowQuotaOK
<1> QED
  BY <1>1, <1>2

\* ValidateVolume, for a create and for an expansion.
LEMMA ValidOK ==
    ASSUME Base, NEW w \in Workers, ValidDir(w) \/ ValidRes(w) \/ ExpandValidRes(w)
    PROVE  Base'
<1>1. CASE Read(w, Idle)
  BY <1>1, ReadIdle
<1>2. CASE At(w, "validDir") /\ Read(w, Go(w, "validRes"))
  <2>1. CreateOK(work[w]) /\ work[w].h.res # 0
    BY <1>2, WorkType DEF At, LocalOK, CreateOK, CreatePoints
  <2>2. \A k \in Locals : k.pc = "validRes" /\ k.h = work[w].h => LocalOK(k)
    BY <2>1 DEF LocalOK, CreateOK, CreatePoints, DeletePoints
  <2> QED
    BY <1>2, <2>2, GoOn DEF Points, CreatePoints
<1>3. CASE \E p \in {"xValidRes", "xQuota"} : Read(w, Go(w, p))
  <2>1. PICK p \in {"xValidRes", "xQuota"} : Read(w, Go(w, p))
    BY <1>3
  <2>2. p \in Points /\ p \notin CreatePoints \cup DeletePoints
    BY DEF Points, CreatePoints, DeletePoints, ExpandPoints
  <2>3. \A k \in Locals : k.pc = p => LocalOK(k)
    BY <2>2 DEF LocalOK
  <2> QED
    BY <2>1, <2>2, <2>3, GoOn
<1>4. CASE ValidDir(w)
  <2>1. PICK p \in {<<"validDir", "validRes">>, <<"xValidDir", "xValidRes">>} :
             At(w, p[1]) /\ (Read(w, Go(w, p[2])) \/ Read(w, Idle))
    BY <1>4 DEF ValidDir
  <2> QED
    BY <1>1, <1>2, <1>3, <2>1
<1>5. CASE ExpandValidRes(w)
  <2>1. Read(w, Go(w, "xQuota")) \/ Read(w, Idle)
    BY <1>5 DEF ExpandValidRes
  <2> QED
    BY <1>1, <1>3, <2>1
<1>6. CASE ValidRes(w)
  <2>1. /\ work' = [work EXCEPT ![w] = Idle] /\ UNCHANGED <<core, late, count>>
        /\ hist' = IF ShareValid(work[w].h)
                   THEN [hist EXCEPT !.issued = @ \cup {work[w].h}] ELSE hist
    BY <1>6 DEF ValidRes
  <2>2. HandleOK(work[w].h) /\ work[w].h \in Handle
    BY <1>6, WorkType DEF ValidRes, At, LocalOK, CreateOK, CreatePoints
  <2>3. /\ hist.issued \subseteq hist'.issued /\ hist'.issued \subseteq hist.issued \cup {work[w].h}
        /\ hist'.delReq = hist.delReq /\ hist'.deleted = hist.deleted
        /\ hist'.destroyed = hist.destroyed
        /\ hist' \in [issued : SUBSET Handle, delReq : SUBSET Handle, deleted : SUBSET Handle,
                      destroyed : SUBSET Nat, stray : SUBSET Nat]
    BY <2>1, <2>2 DEF Base, CoreOK, CoreTypes
  <2>4. CoreTypes'
    BY <2>1, <2>3 DEF Base, CoreOK, CoreTypes, core
  <2>5. DirOK' /\ Evolves
    BY <2>1, <2>3 DEF Base, CoreOK, CoreTypes, DirOK, Evolves, core
  <2>6. ShareOK'
    BY <2>1, <2>3 DEF Base, CoreOK, ShareOK, Unclaimed, ClaimedOnRequest, core
  <2>8. \A h \in Handle : h = work[w].h => HandleOK(h)'
    <3>1. \A h \in Handle : HandleOK(h) => HandleOK(h)'
      BY <2>4, <2>5, HandleStays DEF Base, CoreOK
    <3> QED
      BY <2>2, <3>1
  <2>9. HistOK'
    <3>1. \A h \in hist'.issued \ hist.issued : HandleOK(h)'
      BY <2>2, <2>3, <2>8
    <3>2. hist'.delReq \subseteq hist'.issued /\ hist'.deleted \subseteq hist'.delReq
      BY <2>3 DEF Base, CoreOK, HistOK
    <3>3. hist'.deleted \ hist.deleted = {} /\ hist'.destroyed \ hist.destroyed = {}
      BY <2>3
    <3> QED
      BY <2>3, <2>4, <2>5, <3>1, <3>2, <3>3, HistGrows DEF Base, CoreOK
  <2>10. LocalOK(Idle)' /\ Idle \in Locals
    BY IdleType DEF LocalOK, Idle, CreatePoints, DeletePoints
  <2>11. late' = late /\ count' = count
    BY <2>1
  <2> QED
    BY <2>1, <2>4, <2>5, <2>6, <2>9, <2>10, <2>11, Frame DEF Base, CoreOK
<1> QED
  BY <1>4, <1>5, <1>6

\* A deletion that is under way, and what its handle is.
LEMMA DeletingType ==
    ASSUME Base, NEW w \in Workers, NEW p \in DeletePoints, At(w, p)
    PROVE  /\ DeleteOK(work[w]) /\ work[w].h \in hist.delReq /\ HandleOK(work[w].h)
           /\ work[w].pc = p
<1>1. DeleteOK(work[w]) /\ work[w].pc = p
  BY WorkType DEF At, LocalOK
<1> QED
  BY <1>1 DEF DeleteOK, Base, CoreOK, HistOK

\* A deletion reports success.
LEMMA DeletedOK ==
    ASSUME Base, NEW w \in Workers, Deleted(w), work[w].h \in hist.delReq,
           NothingLeft(work[w].h)
    PROVE  Base'
<1>1. work[w].h \in Handle
  BY WorkType
<1>2. /\ work' = [work EXCEPT ![w] = Idle] /\ UNCHANGED <<core, late, count>>
      /\ hist' = [hist EXCEPT !.deleted = @ \cup {work[w].h}]
  BY DEF Deleted
<1>3. /\ hist'.issued = hist.issued /\ hist'.delReq = hist.delReq
      /\ hist'.deleted = hist.deleted \cup {work[w].h} /\ hist'.destroyed = hist.destroyed
      /\ hist' \in [issued : SUBSET Handle, delReq : SUBSET Handle, deleted : SUBSET Handle,
                    destroyed : SUBSET Nat, stray : SUBSET Nat]
  BY <1>1, <1>2 DEF Base, CoreOK, CoreTypes
<1>4. CoreTypes'
  BY <1>2, <1>3 DEF Base, CoreOK, CoreTypes, core
<1>5. DirOK' /\ Evolves
  BY <1>2, <1>3 DEF Base, CoreOK, CoreTypes, DirOK, Evolves, core
<1>6. ShareOK'
  BY <1>2, <1>3 DEF Base, CoreOK, ShareOK, Unclaimed, ClaimedOnRequest, core
<1>7. \A h \in Handle : h = work[w].h => NothingLeft(h)'
  BY <1>2 DEF NothingLeft, Share, Gone, DirIds, core
<1>8. HistOK'
  <2>1. \A h \in hist'.deleted \ hist.deleted : NothingLeft(h)'
    BY <1>1, <1>3, <1>7
  <2>2. hist'.delReq \subseteq hist'.issued /\ hist'.deleted \subseteq hist'.delReq
    BY <1>3 DEF Base, CoreOK, HistOK
  <2> QED
    BY <1>3, <1>4, <1>5, <2>1, <2>2, HistGrows DEF Base, CoreOK
<1>9. LocalOK(Idle)' /\ Idle \in Locals
  BY IdleType DEF LocalOK, Idle, CreatePoints, DeletePoints
<1>10. late' = late /\ count' = count
  BY <1>2
<1> QED
  BY <1>2, <1>4, <1>5, <1>6, <1>8, <1>9, <1>10, Frame DEF Base, CoreOK

\* The directory at the path is that of the handle, or it is gone.
LEMMA GetAttrsOK ==
    ASSUME Base, NEW w \in Workers, GetAttrs(w)
    PROVE  Base'
<1>1. DeleteOK(work[w]) /\ HandleOK(work[w].h) /\ Opts[work[w].h.spec].deleteData
  BY DeletingType DEF GetAttrs, DeletePoints, DeleteOK
<1>2. CASE Read(w, Idle)
  BY <1>2, ReadIdle
<1>3. CASE Read(w, [Go(w, "prepare") EXCEPT !.found = dir[Path(w)] # NoDir])
  <2>1. PICK f \in BOOLEAN : f = (dir[Path(w)] # NoDir)
    BY Zenon
  <2>2. /\ Go(w, "prepare") \in Locals /\ Go(w, "prepare").pc = "prepare"
        /\ Go(w, "prepare").h = work[w].h
    BY GoType DEF Points, DeletePoints
  <2>3. PICK k \in Locals : k = [Go(w, "prepare") EXCEPT !.found = f]
    BY <2>2 DEF Locals
  <2>4. k.pc = "prepare" /\ k.h = work[w].h /\ k.found = f
    BY <2>2, <2>3 DEF Locals
  <2>5. dir[Path(w)] # NoDir \/ Gone(work[w].h.dir)
    BY <1>1 DEF HandleOK, Home, Gone, DirIds, NoDir, Path, Spec
  <2>6. f = TRUE \/ Gone(work[w].h.dir)
    BY Zenon, <2>1, <2>5
  <2>7. LocalOK(k)
    BY <1>1, <2>4, <2>6 DEF LocalOK, DeleteOK, CreatePoints, DeletePoints
  <2>8. Read(w, k)
    BY Zenon, <1>3, <2>1, <2>3
  <2> QED
    BY <2>7, <2>8, ReadOK
<1> QED
  BY <1>2, <1>3 DEF GetAttrs

\* What follows once the claim is there.
LEMMA ClaimHeldType ==
    ASSUME Base, NEW w \in Workers
    PROVE  /\ ClaimHeld(w) \in Locals /\ ClaimHeld(w).h = work[w].h
           /\ ClaimHeld(w).pc = IF work[w].found THEN "tree" ELSE "drop"
<1>1. (IF work[w].found THEN "tree" ELSE "drop") \in Points
  BY DEF Points, DeletePoints
<1>2. PICK p \in Points : p = IF work[w].found THEN "tree" ELSE "drop"
  BY <1>1
<1>3. Go(w, p) \in Locals /\ Go(w, p).pc = p /\ Go(w, p).h = work[w].h
  BY GoType
<1>4. PICK k \in Locals : k = [Go(w, p) EXCEPT !.etag = 0, !.round = 1]
  BY <1>3, FirstRound DEF Locals
<1>5. k.pc = p /\ k.h = work[w].h
  BY <1>3, <1>4 DEF Locals
<1>6. k = ClaimHeld(w)
  BY <1>2, <1>4 DEF ClaimHeld
<1> QED
  BY <1>2, <1>5, <1>6

\* PrepareVolumeDeletion reads the share and goes on, or reports success.
LEMMA PrepareOK ==
    ASSUME Base, NEW w \in Workers, Prepare(w)
    PROVE  Base'
<1>1. /\ DeleteOK(work[w]) /\ HandleOK(work[w].h) /\ Opts[work[w].h.spec].deleteData
      /\ work[w].h \in hist.delReq /\ (work[w].found \/ Gone(work[w].h.dir))
  BY DeletingType DEF Prepare, DeletePoints, DeleteOK
<1>2. CASE Read(w, Idle)
  BY <1>2, ReadIdle
<1>3. CASE Share(work[w].h.res) = {} /\ ~work[w].found /\ Deleted(w)
  <2>1. NothingLeft(work[w].h)
    BY <1>1, <1>3 DEF NothingLeft
  <2> QED
    BY <1>1, <1>3, <2>1, DeletedOK
<1>4. CASE \E r \in Share(work[w].h.res) :
              r.desc = Deleting(work[w].h) /\ Read(w, ClaimHeld(w))
  <2>1. ClaimedBy(work[w].h)
    BY <1>4 DEF ClaimedBy, Share
  <2>2. PICK k \in Locals : /\ k = ClaimHeld(w) /\ k.h = work[w].h
                            /\ k.pc = IF work[w].found THEN "tree" ELSE "drop"
    BY ClaimHeldType
  <2>3. LocalOK(k)
    BY <1>1, <2>1, <2>2 DEF LocalOK, DeleteOK, CreatePoints, DeletePoints
  <2> QED
    BY <1>4, <2>2, <2>3, ReadOK
<1>5. CASE \E r \in Share(work[w].h.res) :
              r.desc = Managed(Spec(w)) /\ Read(w, [Go(w, "tomb") EXCEPT !.etag = r.etag])
  <2>1. PICK r \in Share(work[w].h.res) :
              r.desc = Managed(Spec(w)) /\ Read(w, [Go(w, "tomb") EXCEPT !.etag = r.etag])
    BY <1>5
  <2>2. r.etag \in Nat /\ Claimable(work[w].h.res, r.etag)
    <3>1. /\ r \in shares /\ r.id = work[w].h.res /\ \A q \in Share(work[w].h.res) : q = r
          /\ r.etag \in Nat /\ r.spec = Spec(w)
      BY <1>1 DEF Share, Base, CoreOK, CoreTypes, ShareType, ShareOK, HandleOK, Spec
    <3> QED
      BY <1>1, <2>1, <3>1 DEF Claimable, Unclaimed, HandleOK
  <2>3. /\ Go(w, "tomb") \in Locals /\ Go(w, "tomb").pc = "tomb"
        /\ Go(w, "tomb").h = work[w].h /\ Go(w, "tomb").found = work[w].found
    BY GoType DEF Points, DeletePoints
  <2>4. PICK k \in Locals : k = [Go(w, "tomb") EXCEPT !.etag = r.etag]
    BY <2>2, <2>3 DEF Locals
  <2>5. k.pc = "tomb" /\ k.h = work[w].h /\ k.found = work[w].found /\ k.etag = r.etag
    BY <2>3, <2>4 DEF Locals
  <2>6. LocalOK(k)
    BY <1>1, <2>2, <2>5 DEF LocalOK, DeleteOK, CreatePoints, DeletePoints
  <2>7. Read(w, k)
    BY <2>1, <2>4
  <2> QED
    BY <2>6, <2>7, ReadOK
<1> QED
  BY <1>2, <1>3, <1>4, <1>5 DEF Prepare

\* The PATCH that claims the deletion.
LEMMA TombstoneOK ==
    ASSUME Base, NEW w \in Workers, Tombstone(w)
    PROVE  Base'
<1> DEFINE m == [op |-> "tomb", h |-> work[w].h, etag |-> work[w].etag]
           after == [a \in Answers |->
                CASE a = "ok" -> ClaimHeld(w)
                  [] a = "stale" -> Retry(w, "prepare")
                  [] a = "lost" -> work[w]
                  [] OTHER -> Idle]
<1>1. /\ DeleteOK(work[w]) /\ HandleOK(work[w].h) /\ Opts[work[w].h.spec].deleteData
      /\ work[w].h \in hist.delReq /\ (work[w].found \/ Gone(work[w].h.dir))
      /\ Claimable(work[w].h.res, work[w].etag)
  BY DeletingType DEF Tombstone, DeletePoints, DeleteOK
<1>2. /\ m \in Write /\ MsgOK(m) /\ Answer(m) \in {"ok", "stale", "missing"}
      /\ Answer(m) = "ok" => \E s \in Share(work[w].h.res) : Unclaimed(s)
  BY <1>1, WorkType DEF Write, MsgOK, Answer, IfMatch, Claimable
<1>3. Commit(m, TRUE) /\ Answer(m) = "ok" =>
         SetShares({IF r.id = work[w].h.res THEN Marked(r, work[w].h) ELSE r : r \in shares})
  BY DEF Commit, Effect, Marked
<1>4. Send(w, m, after)
  BY DEF Tombstone
<1>5. /\ after["ok"] = ClaimHeld(w) /\ after["stale"] = Retry(w, "prepare")
      /\ after["lost"] = work[w] /\ after["missing"] = Idle
  BY DEF Answers
<1> HIDE DEF m, after
<1>6. Idle \in Locals /\ LocalOK(Idle)
  BY IdleType DEF LocalOK, Idle, CreatePoints, DeletePoints
<1>7. PICK p \in Locals : p = Retry(w, "prepare") /\ LocalOK(p)
  <2>1. PICK p \in Locals :
           /\ p = Retry(w, "prepare")
           /\ \/ p.pc = "prepare" /\ p.h = work[w].h /\ p.found = work[w].found
              \/ p = Idle
    BY RetryIs DEF Points, DeletePoints
  <2>2. ASSUME p.pc = "prepare", p.h = work[w].h, p.found = work[w].found PROVE LocalOK(p)
    BY <1>1, <2>2 DEF LocalOK, DeleteOK, CreatePoints, DeletePoints
  <2> QED
    BY <1>6, <2>1, <2>2
<1>8. PICK c \in Locals : /\ c = ClaimHeld(w) /\ c.h = work[w].h
                          /\ c.pc = IF work[w].found THEN "tree" ELSE "drop"
  BY ClaimHeldType
<1>9. ASSUME Commit(m, TRUE), NEW k \in Locals, k = after[Answer(m)] PROVE LocalOK(k)'
  <2>1. CoreOK' /\ Evolves
    BY <1>2, <1>9, CommitOK DEF Base
  <2>2. CASE Answer(m) \in {"stale", "missing"}
    <3>1. LocalOK(k)
      BY <1>5, <1>6, <1>7, <1>9, <2>2
    <3> QED
      BY <2>1, <3>1, LocalStays DEF Base, CoreOK
  <2>3. CASE Answer(m) = "ok"
    <3>1. k = c
      BY <1>5, <1>8, <1>9, <2>3
    <3>2. \A h \in hist.delReq : h = work[w].h => ClaimedBy(h)' /\ hist'.delReq = hist.delReq
      <4>1. PICK h \in hist.delReq : h = work[w].h
        BY <1>1
      <4>2. ClaimedBy(h)'
        BY <1>1, <1>2, <1>3, <1>9, <2>3, <4>1, TombOK DEF Base
      <4>3. hist' = hist
        BY <1>3, <1>9, <2>3 DEF SetShares
      <4> QED
        BY <4>1, <4>2, <4>3
    <3>3. ClaimedBy(k.h)' /\ k.h \in hist'.delReq /\ Opts[k.h.spec].deleteData
      BY <1>1, <1>8, <3>1, <3>2
    <3>4. Gone(k.h.dir) => Gone(k.h.dir)'
      <4>1. k.h.dir \in Nat /\ k.h.dir < nextId
        BY <1>1, <1>8, <3>1, WorkType DEF HandleOK
      <4> QED
        BY <2>1, <4>1, GoneStays DEF Base, CoreOK
    <3>5. k.pc = "tree" \/ (k.pc = "drop" /\ Gone(k.h.dir))
      BY <1>1, <1>8, <3>1
    <3> QED
      BY <3>3, <3>4, <3>5 DEF LocalOK, DeleteOK, CreatePoints, DeletePoints
  <2> QED
    BY <1>2, <2>2, <2>3
<1>10. after[Answer(m)] \in Locals
  BY <1>2, <1>5, <1>6, <1>7, <1>8
<1> QED
  BY <1>2, <1>4, <1>5, <1>9, <1>10, SendOK, WorkType

\* A deletion submits its tree-delete job, or joins it.
LEMMA TreeDeleteOK ==
    ASSUME Base, NEW w \in Workers, TreeDelete(w)
    PROVE  Base'
<1> DEFINE m == [op |-> "tree", dir |-> work[w].h.dir]
           after == [a \in Answers |->
                CASE a \in {"ok", "exists"} -> Go(w, "await")
                  [] a = "missing" -> Go(w, "drop")
                  [] OTHER -> Go(w, "treeReget")]
<1>1. /\ DeleteOK(work[w]) /\ HandleOK(work[w].h) /\ Opts[work[w].h.spec].deleteData
      /\ work[w].h \in hist.delReq /\ (Gone(work[w].h.dir) \/ ClaimedBy(work[w].h))
  BY DeletingType DEF TreeDelete, DeletePoints, DeleteOK
<1>2. /\ m \in Write /\ MsgOK(m) /\ Answer(m) \in {"ok", "exists", "missing"}
      /\ Answer(m) = "missing" => Gone(work[w].h.dir)
      /\ Answer(m) = "exists" => work[w].h.dir \in jobs \cup aborted
      /\ Commit(m, TRUE) /\ Answer(m) = "ok" => work[w].h.dir \in jobs'
  BY <1>1, WorkType DEF Write, MsgOK, Answer, Gone, Commit, Effect
<1>3. Send(w, m, after)
  BY DEF TreeDelete
<1>4. /\ after["ok"] = Go(w, "await") /\ after["exists"] = Go(w, "await")
      /\ after["missing"] = Go(w, "drop") /\ after["lost"] = Go(w, "treeReget")
  BY DEF Answers
<1> HIDE DEF m, after
<1>5. \A p \in {"await", "drop", "treeReget"} :
         Go(w, p) \in Locals /\ Go(w, p).pc = p /\ Go(w, p).h = work[w].h
  BY GoType DEF Points, DeletePoints
<1>6. LocalOK(Go(w, "treeReget"))
  BY <1>1, <1>5 DEF LocalOK, DeleteOK, CreatePoints, DeletePoints
<1>7. ASSUME Commit(m, TRUE), NEW k \in Locals, k = after[Answer(m)] PROVE LocalOK(k)'
  <2>1. CoreOK' /\ Evolves
    BY <1>2, <1>7, CommitOK DEF Base
  <2>2. k.h = work[w].h /\ k.h \in hist'.delReq /\ Opts[k.h.spec].deleteData
    BY <1>1, <1>2, <1>4, <1>5, <1>7, <2>1 DEF Evolves
  <2>3. CASE Answer(m) \in {"exists", "missing"}
    <3>1. LocalOK(k)
      BY <1>1, <1>2, <1>4, <1>5, <1>7, <2>3 DEF LocalOK, DeleteOK, CreatePoints, DeletePoints
    <3> QED
      BY <2>1, <3>1, LocalStays DEF Base, CoreOK
  <2>4. CASE Answer(m) = "ok"
    <3>1. k.pc = "await"
      BY <1>4, <1>5, <1>7, <2>4
    <3>2. k.h.dir \in jobs' \cup aborted'
      BY <1>2, <1>7, <2>2, <2>4
    <3> QED
      BY <2>2, <3>1, <3>2 DEF LocalOK, DeleteOK, CreatePoints, DeletePoints
  <2> QED
    BY <1>2, <2>3, <2>4
<1>8. after[Answer(m)] \in Locals
  BY <1>2, <1>4, <1>5
<1> QED
  BY <1>2, <1>3, <1>4, <1>5, <1>6, <1>7, <1>8, SendOK

\* A deletion waits for its job.
LEMMA AwaitOK ==
    ASSUME Base, NEW w \in Workers, TreeReget(w) \/ Await(w)
    PROVE  Base'
<1>1. /\ DeleteOK(work[w]) /\ Opts[work[w].h.spec].deleteData /\ work[w].h \in hist.delReq
      /\ Await(w) => Gone(work[w].h.dir) \/ work[w].h.dir \in jobs \cup aborted
  BY DeletingType DEF TreeReget, Await, DeletePoints, DeleteOK
<1>2. CASE Read(w, Idle)
  BY <1>2, ReadIdle
<1>3. CASE work[w].h.dir \in jobs \cup aborted /\ Read(w, Go(w, "await"))
  <2>1. \A k \in Locals : k.pc = "await" /\ k.h = work[w].h => LocalOK(k)
    BY <1>1, <1>3 DEF LocalOK, DeleteOK, CreatePoints, DeletePoints
  <2> QED
    BY <1>3, <2>1, GoOn DEF Points, DeletePoints
<1>4. CASE Gone(work[w].h.dir) /\ Read(w, Go(w, "drop"))
  <2>1. \A k \in Locals : k.pc = "drop" /\ k.h = work[w].h => LocalOK(k)
    BY <1>1, <1>4 DEF LocalOK, DeleteOK, CreatePoints, DeletePoints
  <2> QED
    BY <1>4, <2>1, GoOn DEF Points, DeletePoints
<1> QED
  BY <1>1, <1>2, <1>3, <1>4 DEF TreeReget, Await

\* A deletion reads the share it is about to remove.
LEMMA DropReadOK ==
    ASSUME Base, NEW w \in Workers, Drop(w)
    PROVE  Base'
<1> DEFINE h == work[w].h
           expected == IF Opts[h.spec].deleteData THEN Deleting(h) ELSE Managed(h.spec)
<1>1. /\ DeleteOK(work[w]) /\ h \in hist.delReq /\ h \in Handle
      /\ Opts[h.spec].deleteData => Gone(h.dir)
  BY DeletingType, WorkType DEF Drop, DeletePoints, DeleteOK
<1>2. CASE Read(w, Idle)
  BY <1>2, ReadIdle
<1>3. CASE Share(h.res) = {} /\ Deleted(w)
  <2>1. NothingLeft(h)
    BY <1>1, <1>3 DEF NothingLeft
  <2> QED
    BY <1>1, <1>3, <2>1, DeletedOK
<1>4. CASE \E r \in Share(h.res) :
              r.desc = expected /\ Read(w, [Go(w, "dropIf") EXCEPT !.etag = r.etag])
  <2>1. PICK r \in Share(h.res) :
              r.desc = expected /\ Read(w, [Go(w, "dropIf") EXCEPT !.etag = r.etag])
    BY <1>4
  <2>2. /\ r \in shares /\ r.id = h.res /\ \A q \in Share(h.res) : q = r
        /\ r.etag \in Nat
    BY DEF Share, Base, CoreOK, CoreTypes, ShareType, ShareOK
  <2>3. Droppable(h.res, r.etag)
    <3>0. h.res < nextId
      BY <1>1 DEF Base, CoreOK, HistOK, HandleOK
    <3>1. CASE Opts[h.spec].deleteData
      <4>1. r.desc.kind = "deleting" /\ r.desc.of = h
        BY <2>1, <3>1 DEF Deleting
      <4> QED
        BY <1>1, <2>2, <3>0, <3>1, <4>1 DEF Droppable
    <3>2. CASE ~Opts[h.spec].deleteData
      BY <1>1, <2>2, <3>0, <3>2 DEF Droppable
    <3> QED
      BY <3>1, <3>2
  <2>4. /\ Go(w, "dropIf") \in Locals /\ Go(w, "dropIf").pc = "dropIf"
        /\ Go(w, "dropIf").h = h
    BY GoType DEF Points, DeletePoints
  <2>5. PICK k \in Locals : k = [Go(w, "dropIf") EXCEPT !.etag = r.etag]
    BY <2>2, <2>4 DEF Locals
  <2>6. k.pc = "dropIf" /\ k.h = h /\ k.etag = r.etag
    BY <2>4, <2>5 DEF Locals
  <2>7. LocalOK(k)
    BY <1>1, <2>3, <2>6 DEF LocalOK, DeleteOK, CreatePoints, DeletePoints
  <2> QED
    BY <2>1, <2>5, <2>7, ReadOK
<1> QED
  BY <1>2, <1>3, <1>4 DEF Drop

\* The conditional DELETE of the share.
LEMMA DropIfMatchOK ==
    ASSUME Base, NEW w \in Workers, DropIfMatch(w)
    PROVE  Base'
<1> DEFINE m == [op |-> "drop", res |-> work[w].h.res, etag |-> work[w].etag]
<1>1. /\ DeleteOK(work[w]) /\ work[w].h \in hist.delReq /\ work[w].h \in Handle
      /\ Opts[work[w].h.spec].deleteData => Gone(work[w].h.dir)
      /\ Droppable(work[w].h.res, work[w].etag)
      /\ work[w].h.res \in Nat /\ work[w].etag \in Nat
  BY DeletingType, WorkType DEF DropIfMatch, DeletePoints, DeleteOK
<1>2. /\ m \in Write /\ MsgOK(m) /\ m.res = work[w].h.res
      /\ Answer(m) = "ok" => \E r \in Share(work[w].h.res) : r.etag = work[w].etag
      /\ Answer(m) = "missing" => Share(work[w].h.res) = {}
  BY <1>1 DEF Write, MsgOK, Answer, IfMatch
<1>3. \/ /\ Answer(m) \in {"ok", "missing"}
         /\ shares' = shares \ Share(m.res)
         /\ hist' = [hist EXCEPT !.deleted = @ \cup {work[w].h}]
         /\ work' = [work EXCEPT ![w] = Idle]
         /\ UNCHANGED <<dir, jobs, aborted, nextId, late, count>>
      \/ Read(w, Retry(w, "drop"))
      \/ /\ count' = [count EXCEPT !["lost"] = @ + 1]
         /\ late' = late \cup {m}
         /\ work' = [work EXCEPT ![w] = Idle]
         /\ UNCHANGED <<core, hist>>
  BY Zenon DEF DropIfMatch
<1> HIDE DEF m
<1>4. Idle \in Locals /\ LocalOK(Idle) /\ LocalOK(Idle)'
  BY IdleType DEF LocalOK, Idle, CreatePoints, DeletePoints
<1>5. CASE /\ Answer(m) \in {"ok", "missing"}
           /\ shares' = shares \ Share(m.res)
           /\ hist' = [hist EXCEPT !.deleted = @ \cup {work[w].h}]
           /\ work' = [work EXCEPT ![w] = Idle]
           /\ UNCHANGED <<dir, jobs, aborted, nextId, late, count>>
  <2>1. /\ hist'.issued = hist.issued /\ hist'.delReq = hist.delReq
        /\ hist'.deleted = hist.deleted \cup {work[w].h}
        /\ hist'.destroyed = hist.destroyed
        /\ hist' \in [issued : SUBSET Handle, delReq : SUBSET Handle,
                      deleted : SUBSET Handle, destroyed : SUBSET Nat, stray : SUBSET Nat]
    BY <1>1, <1>5 DEF Base, CoreOK, CoreTypes
  <2>2. CoreTypes'
    BY <1>5, <2>1 DEF Base, CoreOK, CoreTypes
  <2>3. \A r \in Share(work[w].h.res) : r.desc.kind = "deleting" => Gone(r.desc.of.dir)
    <3>1. CASE Answer(m) = "missing"
      BY <1>2, <3>1
    <3>2. CASE Answer(m) = "ok"
      BY <1>1, <1>2, <3>2, AcceptedDrop DEF Base
    <3> QED
      BY <1>5, <3>1, <3>2
  <2>4. DirOK' /\ ShareOK' /\ Evolves
    BY <1>1, <1>2, <1>5, <2>1, <2>2, <2>3, DropOK DEF Base
  <2>5. \A h \in Handle : h = work[w].h => NothingLeft(h)'
    BY <1>1, <1>2, <1>5 DEF NothingLeft, Share, Gone, DirIds
  <2>6. HistOK'
    <3>1. \A h \in hist'.deleted \ hist.deleted : NothingLeft(h)'
      BY <1>1, <2>1, <2>5
    <3>2. hist'.delReq \subseteq hist'.issued /\ hist'.deleted \subseteq hist'.delReq
      BY <1>1, <2>1 DEF Base, CoreOK, HistOK
    <3> QED
      BY <2>1, <2>2, <2>4, <3>1, <3>2, HistGrows DEF Base, CoreOK
  <2>7. late' = late /\ count' = count
    BY <1>5
  <2> QED
    BY <1>4, <1>5, <2>2, <2>4, <2>6, <2>7, Frame DEF Base, CoreOK
<1>6. CASE Read(w, Retry(w, "drop"))
  <2>1. PICK k \in Locals : /\ k = Retry(w, "drop")
                            /\ (k.pc = "drop" /\ k.h = work[w].h) \/ k = Idle
    BY RetryIs DEF Points, DeletePoints
  <2>2. ASSUME k.pc = "drop", k.h = work[w].h PROVE LocalOK(k)
    BY <1>1, <2>2 DEF LocalOK, DeleteOK, CreatePoints, DeletePoints
  <2> QED
    BY <1>4, <1>6, <2>1, <2>2, ReadOK
<1>7. CASE /\ count' = [count EXCEPT !["lost"] = @ + 1]
           /\ late' = late \cup {m}
           /\ work' = [work EXCEPT ![w] = Idle]
           /\ UNCHANGED <<core, hist>>
  BY <1>2, <1>4, <1>7, LostOK
<1> QED
  BY <1>3, <1>5, <1>6, <1>7

\* The initial state satisfies Base.
LEMMA InitBase == Init => Base
<1> SUFFICES ASSUME Init PROVE Base
  OBVIOUS
<1>1. \A p \in Paths : dir[p] = NoDir
  BY DEF Init
<1>2. CoreTypes
  BY DEF Init, CoreTypes, NoDir
<1>3. DirOK /\ ShareOK /\ HistOK
  BY <1>1 DEF Init, DirOK, ShareOK, HistOK, NoDir
<1>4. work \in [Workers -> Locals] /\ \A w \in Workers : work[w] = Idle
  BY IdleType DEF Init
<1>5. \A w \in Workers : LocalOK(work[w])
  BY <1>4 DEF LocalOK, Idle, CreatePoints, DeletePoints
<1> QED
  BY <1>2, <1>3, <1>4, <1>5 DEF Init, Base, CoreOK

\* Every step keeps Base.
LEMMA NextBase == Base /\ [Next]_vars => Base'
<1> SUFFICES ASSUME Base, [Next]_vars PROVE Base'
  OBVIOUS
<1>1. CASE UNCHANGED vars
  <2>1. CoreOK' /\ Evolves
    BY <1>1, NothingHappens DEF Base, vars
  <2> QED
    BY <1>1, <2>1, WorldStep DEF Base, vars
<1>2. CASE External
  BY <1>2, WorldOK
<1>3. ASSUME NEW w \in Workers,
             StartCreate(w) \/ StartExpand(w) \/ StartDelete(w) \/ Advance(w) \/ RequestFails(w)
      PROVE  Base'
  <2>1. CASE StartCreate(w) \/ StartExpand(w) \/ StartDelete(w)
    BY <2>1, StartOK
  <2>2. CASE CreateStep(w)
    BY <2>2, ListOK, GetDirOK, MakeDirOK, ChangeModeStep, ClaimOK, PostShareOK, FixShareOK, QuotaOK,
       ValidOK
       DEF CreateStep
  <2>3. CASE ExpandStep(w)
    BY <2>3, ValidOK, QuotaOK DEF ExpandStep
  <2>4. CASE DeleteStep(w)
    BY <2>4, GetAttrsOK, PrepareOK, TombstoneOK, TreeDeleteOK, AwaitOK, DropReadOK, DropIfMatchOK
       DEF DeleteStep
  <2>5. CASE RequestFails(w)
    BY <2>5, ReadIdle DEF RequestFails
  <2> QED
    BY <1>3, <2>1, <2>2, <2>3, <2>4, <2>5 DEF Advance
<1> QED
  BY <1>1, <1>2, <1>3 DEF Next

\* Base is an invariant, whatever operators, losses and processes do: Core and
\* its history stay in order (driver.go:218, backend.go:248), each write under
\* way is harmless, each handler knows what its control point says.
THEOREM BaseInv == Behaviour => []Base
BY InitBase, NextBase, PTL DEF Behaviour

\* Base contains the type invariant.
LEMMA BaseType == Base => TypeOK
<1> SUFFICES ASSUME Base PROVE TypeOK
  OBVIOUS
<1>1. /\ \A p \in Paths : /\ dir[p].id \in 0..(nextId - 1)
                          /\ dir[p].mode \in Nat /\ dir[p].quota \in Nat
      /\ DOMAIN dir = Paths
  BY DEF Base, CoreOK, CoreTypes, DirOK
<1>2. /\ \A r \in shares : /\ r.id \in 1..(nextId - 1)
                           /\ r.spec \in Specs /\ r.etag \in Nat /\ r.drift \in BOOLEAN
                           /\ r.desc.kind \in {"managed", "deleting"}
      /\ \A q, r \in shares : q.id = r.id => q = r
  BY DEF Base, CoreOK, CoreTypes, ShareType, ShareOK, Descriptions
<1>3. hist.destroyed \subseteq 1..(nextId - 1)
  <2> SUFFICES ASSUME NEW d \in hist.destroyed PROVE d \in 1..(nextId - 1)
    OBVIOUS
  <2>1. PICK h \in hist.issued : h.dir = d
    BY DEF Base, CoreOK, HistOK
  <2>2. h.dir # 0 /\ h.dir < nextId /\ d \in Nat /\ nextId \in Nat
    BY <2>1 DEF Base, CoreOK, CoreTypes, HistOK, HandleOK
  <2> QED
    BY <2>1, <2>2
<1>4. /\ jobs \subseteq 1..(nextId - 1) /\ aborted \subseteq 1..(nextId - 1)
      /\ jobs \cap aborted = {}
  BY <1>3 DEF Base, CoreOK, DirOK
<1>5. \A w \in Workers :
         /\ work[w].pc \in {"idle"} \cup CreatePoints \cup DeletePoints \cup ExpandPoints
         /\ work[w].h \in Handle
         /\ work[w].found \in BOOLEAN /\ work[w].seen \in Nat /\ work[w].etag \in Nat
         /\ work[w].round \in 1..Rounds
  BY DEF Base, Locals, Points
<1> QED
  BY <1>1, <1>2, <1>4, <1>5 DEF TypeOK, Base

\* Every variable keeps its type; identifiers of shares are not shared and no
\* job runs after it was aborted (the state CreateVolume and DeleteVolume keep).
THEOREM Typing == Behaviour => []TypeOK
BY BaseInv, BaseType, PTL

\* Data is destroyed only for a handle that names this directory by ID and was
\* created with deleteData, even when operators replace directories while
\* DeleteVolume runs (driver.go:263).
THEOREM DestroyedForItsHandle == Behaviour => []DestroyedOnRequest
<1>1. Base => DestroyedOnRequest
  BY DEF Base, CoreOK, HistOK, DestroyedOnRequest
<1> QED
  BY <1>1, BaseInv, PTL

\* When DeleteVolume has reported success nothing of the volume is left or comes
\* back, through no late write and no other process (driver.go:266).
THEOREM DeletedLeavesNothing == Behaviour => []DeletedIsGone
<1>1. Base => DeletedIsGone
  BY DEF Base, CoreOK, HistOK, NothingLeft, Gone, DeletedIsGone
<1> QED
  BY <1>1, BaseInv, PTL

=============================================================================
