--------------------------- MODULE CosiAccessProofs ---------------------------
(***************************************************************************)
(* Proofs about CosiAccess, for any number of workers, processes, accesses *)
(* and modes, any limits of keys and attempts, any requests and faults.    *)
(*                                                                         *)
(* Base(o) is the inductive invariant of types and of who owns what.  The  *)
(* parameter o maps each user ID to the access Core made the user for; it  *)
(* is no variable of the model, the proofs extend it whenever Core hands   *)
(* out an ID (NextOwner).  With it can be said of a write under way, which *)
(* names a number only, whose it is (MsgOK), and of a handler what its     *)
(* local variables are about (LocalOK).  A policy or ACL that was read is  *)
(* what Core has as long as the ETag is the same (PolicyRead, AclRead).    *)
(* Evolves collects what no step undoes; from it follows once that a step  *)
(* of one actor keeps what the others know.                                *)
(*                                                                         *)
(* Kept is the inductive invariant of what calls achieve.  A call that     *)
(* started undisturbed acts Alone for its access: no other handler, and of *)
(* the writes still under way only such as its own progress expects; so    *)
(* what it has achieved (Granted, Revoked) stays.  When it has returned,   *)
(* GivenOK and GoneOK say what must remain true of handlers and writes of  *)
(* the same access that come later.  Other accesses are Kindly: they       *)
(* change nothing of it (CommitElsewhere), so each is argued by itself,    *)
(* but for a policy written without ETag.  Unblind says whom that cannot   *)
(* touch: when a grant wrote the policy and no such write of another       *)
(* access was under way, none can come later, since a policy that has an   *)
(* ETag is never read without it (NoBlind, NoBlindStays).                  *)
(***************************************************************************)
EXTENDS CosiAccess, FiniteSetTheorems, TLAPS

\* Control points, local variables, and what callers were told.
Points == {"idle"} \cup GrantPoints \cup RevokePoints \cup CleanPoints

Locals == [pc : Points, access : Accesses, id : Nat, mode : Modes, key : Nat,
           todo : SUBSET Nat, etag : Nat, stmts : [Accesses -> Grant],
           entries : SUBSET Grant, try : Nat, own : BOOLEAN, pol : BOOLEAN,
           dir : BOOLEAN, left : BOOLEAN, calm : BOOLEAN, blind : BOOLEAN]

Accounts == [access : Accesses, id : Nat]

Grants == [access : Accesses, id : Nat, mode : Modes, key : Nat, calm : BOOLEAN,
           blind : BOOLEAN]

\* The variables of Core and the history have their types.
CoreTypes ==
    /\ next \in [user : Nat \ {0}, key : Nat \ {0}]
    /\ users \in [Accesses -> Nat]
    /\ keys \subseteq [id : Nat, owner : Nat]
    /\ bucket \in [open : BOOLEAN, root : {0, 1}]
    /\ policy \in [stmts : [Accesses -> Grant], etag : Nat]
    /\ acl \in [entries : SUBSET Grant, etag : Nat \ {0}]
    /\ hist \in [accounts : SUBSET Accounts, given : SUBSET Grants,
                 revoked : SUBSET Accounts, removed : SUBSET Nat]

\* The access that a user ID was made for.
Owners == [Nat -> Accesses]

\* A user that Core made for this access.
UserOf(o, id, a) == id # 0 /\ id < next.user /\ o[id] = a

\* Numbers of Core have been handed out, and each has one meaning.
CoreOK(o) ==
    /\ \A a \in Accesses : users[a] # 0 => UserOf(o, users[a], a)
    /\ \A k \in keys : k.id # 0 /\ k.id < next.key /\ k.owner # 0 /\ k.owner < next.user
    /\ \A j, k \in keys : j.id = k.id => j = k
    /\ IsFiniteSet(keys) /\ \A id \in Nat : Cardinality(KeysOf(id)) <= KeyLimit
    /\ bucket.open => bucket.root = 1
    /\ policy.etag = 0 => policy.stmts = NoStatements
    /\ \A e \in acl.entries : e.id # 0 /\ e.id < next.user
    /\ \A r \in hist.accounts : UserOf(o, r.id, r.access)
    /\ \A r \in hist.revoked : UserOf(o, r.id, r.access)
    /\ \A g \in hist.given : UserOf(o, g.id, g.access) /\ g.key < next.key

\* The keys with this ID belong to the user, or to a user of the access.
KeyOf(t, id) == \A k \in keys : k.id = t => k.owner = id

KeyFor(o, t, a) == \A k \in keys : k.id = t => o[k.owner] = a

\* A policy read with this ETag is the policy, unless Core has a newer one; read
\* without ETag it is empty.
PolicyRead(etag, stmts) ==
    /\ etag <= policy.etag
    /\ etag = 0 => stmts = NoStatements
    /\ etag = policy.etag => stmts = policy.stmts

AclRead(etag, entries) ==
    /\ etag # 0 /\ etag <= acl.etag
    /\ etag = acl.etag => entries = acl.entries

\* A policy, an ACL that is to replace the one with this ETag differs from it in
\* what it says of the access only; without ETag it says nothing of others.
PolicyFor(o, m) ==
    /\ m.etag <= policy.etag
    /\ m.etag = 0 => \A b \in Accesses \ {m.access} : m.stmts[b] = Nobody
    /\ m.etag = policy.etag =>
         \A b \in Accesses \ {m.access} : m.stmts[b] = policy.stmts[b]

AclFor(o, m) ==
    /\ m.etag # 0 /\ m.etag <= acl.etag
    /\ m.etag = acl.etag =>
         /\ \A e \in m.entries : e.id # 0 /\ e.id < next.user
         /\ \A e \in m.entries \cup acl.entries :
              o[e.id] # m.access => (e \in m.entries <=> e \in acl.entries)

\* What is known of a write under way, however late it arrives.
MsgOK(o, m) ==
    /\ m.op \in {"user", "key", "dropUser", "dropKey", "policy", "acl"} /\ m.access \in Accesses
    /\ m.op \in {"key", "dropUser"} =>
         m.id \in Nat /\ (m.id # 0 => UserOf(o, m.id, m.access))
    /\ m.op = "dropKey" => m.id \in Nat /\ m.id < next.key /\ KeyFor(o, m.id, m.access)
    /\ m.op = "policy" => m.stmts \in [Accesses -> Grant] /\ m.etag \in Nat /\ PolicyFor(o, m)
    /\ m.op = "acl" => m.entries \subseteq Grant /\ m.etag \in Nat /\ AclFor(o, m)

\* Control points at which the user, the key it was given, is known; at which keys
\* are deleted; at which the policy, the ACL that was read is going to be written.
UserPoints == {"gList", "gDrop", "gKey", "gPolicy", "gPutPolicy", "gAcl", "gPutAcl", "gDone",
               "cList", "cDrop", "cOwn"}

KeyPoints == {"gPolicy", "gPutPolicy", "gAcl", "gPutAcl", "gDone", "cOwn"}

DropPoints == {"gDrop", "rDrop", "cDrop"}

PutPolicyPoints == {"gPutPolicy", "rPutPolicy"}

PutAclPoints == {"gPutAcl", "rPutAcl"}

\* What is known of the handler with these local variables.
LocalOK(o, k) ==
    /\ k.left => k.pc \in CleanPoints
    /\ k.id < next.user /\ k.key < next.key
    /\ k.id # 0 => UserOf(o, k.id, k.access)
    /\ k.pc \in UserPoints => k.id # 0
    /\ k.pc \in KeyPoints => KeyOf(k.key, k.id)
    /\ k.pc \in DropPoints => k.todo # {} /\ \A t \in k.todo : t < next.key /\ KeyOf(t, k.id)
    /\ k.pc \in PutPolicyPoints => PolicyRead(k.etag, k.stmts)
    /\ k.pc \in PutAclPoints => AclRead(k.etag, k.entries)
    /\ k.pc \in {"gPolicy", "rPolicy"} \cup PutPolicyPoints => k.try \in 1..PolicyAttempts
    /\ k.pc \in {"gAcl", "rAcl"} \cup PutAclPoints => k.try \in 1..AclAttempts
    /\ k.pc \notin {"gPolicy", "rPolicy", "gAcl", "rAcl"} \cup PutPolicyPoints \cup PutAclPoints =>
         k.try = 1

\* The inductive invariant of the types, and of who owns what.
Base(o) ==
    /\ CoreTypes
    /\ CoreOK(o)
    /\ \A m \in late : MsgOK(o, m)
    /\ work \in [Workers -> Locals] /\ \A w \in Workers : LocalOK(o, work[w])

\* A write that Core would accept now, and change the policy, the ACL by it.
PolicyLive(m) == m.op = "policy" /\ bucket.open /\ m.etag \in {0, policy.etag}

AclLive(m) == m.op = "acl" /\ bucket.root # 0 /\ m.etag = acl.etag

Busy(w, a) == work[w].pc # "idle" /\ work[w].access = a

\* Nothing else acts for the access of a call that started undisturbed, but what
\* the call itself has sent.
Exact(k) == {[id |-> k.id, mode |-> k.mode]}

\* Control points at which a grant, a revoke may have sent a policy whose answer
\* was lost.
GrantSent == {"gPolicy", "gPutPolicy", "gAcl", "gPutAcl", "gDone"}

RevokeSent == {"rPolicy", "rPutPolicy", "rAcl", "rPutAcl", "rDelUser", "rDone"}

\* A live policy of the access is one the call has sent: it says what the call
\* wants.  One with an ETag is that of the attempt under way.
PolicyMine(k, m) ==
    PolicyLive(m) =>
      /\ k.pc \in GrantSent \cup RevokeSent
      /\ k.pc \in GrantSent => m.stmts[k.access] = [id |-> k.id, mode |-> k.mode]
      /\ k.pc \in RevokeSent /\ k.id # 0 => m.stmts[k.access].id # k.id
      /\ m.etag # 0 => k.pc \in PutPolicyPoints /\ k.etag = policy.etag

Alone(w, k) ==
    /\ \A v \in Workers \ {w} : ~Busy(v, k.access)
    /\ \A m \in late : m.access = k.access =>
         /\ m.op \notin {"key", "dropUser"}
         /\ PolicyMine(k, m)
         /\ AclLive(m) =>
              /\ k.pc \in PutAclPoints /\ k.etag = acl.etag
              /\ k.pc = "gPutAcl" => EntriesOf(k.id, m.entries) = Exact(k)
              /\ k.pc = "rPutAcl" => EntriesOf(k.id, m.entries) = {}
         /\ m.op = "dropKey" /\ k.pc \in KeyPoints => m.id # k.key

\* What a grant has achieved.
Granted(k) ==
    /\ k.pc \in UserPoints /\ k.id \notin hist.removed => users[k.access] = k.id
    /\ k.pc \in KeyPoints => [id |-> k.key, owner |-> k.id] \in keys
    /\ k.pc \in {"gAcl", "gPutAcl", "gDone"} /\ ~k.blind =>
         policy.stmts[k.access] = [id |-> k.id, mode |-> k.mode]
    /\ k.pc = "gDone" => EntriesOf(k.id, acl.entries) = Exact(k)

NoStatement(a, id) == bucket.open => policy.stmts[a].id # id

NoEntries(a, id) ==
    bucket.root # 0 /\ (RootOf[a] # 0 \/ bucket.open) => EntriesOf(id, acl.entries) = {}

\* What a revoke has achieved.
Revoked(k) ==
    /\ k.pc = "rDrop" => {j.id : j \in KeysOf(k.id)} \subseteq k.todo
    /\ k.pc \in RevokePoints \ {"rUser", "rList", "rDrop"} => KeysOf(k.id) = {}
    /\ k.pc \in RevokePoints \ {"rUser"} => k.own \/ users[k.access] # k.id
    /\ k.pc = "rDone" => users[k.access] # k.id
    /\ k.pc \in RevokePoints \ {"rUser"} /\ RootOf[k.access] = 0 => k.own
    /\ k.pc = "rAttrs" => RootOf[k.access] # 0 /\ (bucket.open => k.pol)
    /\ k.pc \in {"rAcl", "rPutAcl", "rDelUser", "rDone"} => NoStatement(k.access, k.id)
    /\ k.pc \in {"rPolicy", "rPutPolicy"} => k.dir \/ NoEntries(k.access, k.id)
    /\ k.pc \in {"rDelUser", "rDone"} => NoEntries(k.access, k.id)

\* An undisturbed call.
CalmOK(w, k) ==
    k.calm =>
      /\ k.pc \in GrantPoints => Alone(w, k) /\ Granted(k)
      /\ k.pc \in RevokePoints => Alone(w, k) /\ (k.id # 0 => Revoked(k))

\* A write that names the user of the revoke nowhere.
MsgGone(m, r) ==
    /\ PolicyLive(m) => m.stmts[r.access].id # r.id
    /\ AclLive(m) /\ (RootOf[r.access] # 0 \/ bucket.open) =>
         EntriesOf(r.id, m.entries) = {}

\* What a revoke that returned leaves.
GoneOK(r) ==
    /\ users[r.access] # r.id
    /\ KeysOf(r.id) = {}
    /\ NoStatement(r.access, r.id) /\ NoEntries(r.access, r.id)
    /\ \A w \in Workers : work[w].pc \in GrantPoints => work[w].id # r.id
    /\ \A m \in late : m.access = r.access => MsgGone(m, r)

\* A write that takes nothing of what the grant has given.
MsgGiven(m, g) ==
    /\ m.op = "dropUser" => m.id # g.id
    /\ m.op = "dropKey" => m.id # g.key
    /\ PolicyLive(m) => m.stmts[g.access] = [id |-> g.id, mode |-> g.mode]
    /\ AclLive(m) => EntriesOf(g.id, m.entries) = Exact(g)

\* A later call of the access is a revoke of another user, and writes a policy
\* only under its ETag.
GivenBusy(w, g) ==
    /\ work[w].pc \in RevokePoints /\ RootOf[g.access] # 0 /\ work[w].id # g.id
    /\ bucket.open /\ work[w].pc = "rPutPolicy" => work[w].etag # 0

\* What a grant that returned has given.
GivenOK(g) ==
    /\ g.id \notin hist.removed => users[g.access] = g.id
    /\ [id |-> g.key, owner |-> g.id] \in keys
    /\ policy.stmts[g.access] = [id |-> g.id, mode |-> g.mode]
    /\ EntriesOf(g.id, acl.entries) = Exact(g)
    /\ \A w \in Workers : Busy(w, g.access) => GivenBusy(w, g)
    /\ \A m \in late : m.access = g.access => MsgGiven(m, g)

Kept ==
    /\ \A w \in Workers : CalmOK(w, work[w])
    /\ \A r \in hist.revoked : GoneOK(r)
    /\ \A g \in hist.given : g.calm /\ ~g.blind => GivenOK(g)

\* The part of the invariant that is about Core and the history alone.
World(o) == CoreTypes /\ CoreOK(o)

\* The two owner maps differ on users that Core has not made yet.
Agree(o, p) == \A id \in Nat : id < next.user => p[id] = o[id]

\* What no step undoes.
Evolves ==
    /\ next'.user >= next.user /\ next'.key >= next.key
    /\ policy'.etag > policy.etag \/ (policy'.etag = policy.etag /\ policy'.stmts = policy.stmts)
    /\ acl'.etag > acl.etag \/ (acl'.etag = acl.etag /\ acl'.entries = acl.entries)
    /\ bucket'.open => bucket.open
    /\ bucket.root = 0 => bucket'.root = 0
    /\ \A k \in keys' : k \in keys \/ k.id >= next.key
    /\ \A a \in Accesses : users'[a] \in {users[a], 0} \/ users'[a] >= next.user

\* A user that Core made remains one.
LEMMA UserStays ==
    ASSUME CoreTypes, CoreTypes', Evolves, NEW o, NEW p, Agree(o, p), NEW id \in Nat, NEW a,
           UserOf(o, id, a)
    PROVE  UserOf(p, id, a)'
<1>1. next.user \in Nat /\ next'.user \in Nat /\ next'.user >= next.user
  BY DEF CoreTypes, Evolves
<1> QED
  BY <1>1 DEF UserOf, Agree

\* A key ID that was handed out keeps its meaning.
LEMMA KeyStays ==
    ASSUME CoreTypes, CoreTypes', Evolves, NEW t \in Nat, t < next.key, NEW id, KeyOf(t, id)
    PROVE  KeyOf(t, id)'
<1>1. next.key \in Nat /\ \A k \in keys' : k.id \in Nat /\ (k \in keys \/ k.id >= next.key)
  BY DEF CoreTypes, Evolves
<1>2. \A k \in keys' : k.id = t => k \in keys
  BY <1>1
<1> QED
  BY <1>2 DEF KeyOf

\* A key that is for users of an access stays so: Core hands out key IDs once.
LEMMA KeyForStays ==
    ASSUME NEW o, NEW p, World(o), CoreTypes', Evolves, Agree(o, p), NEW t \in Nat, t < next.key,
           NEW a, KeyFor(o, t, a)
    PROVE  KeyFor(p, t, a)'
<1>1. next.key \in Nat /\ \A k \in keys' : k.id \in Nat /\ (k \in keys \/ k.id >= next.key)
  BY DEF World, CoreTypes, Evolves
<1>2. \A k \in keys' : k.id = t => k \in keys
  BY <1>1
<1>3. \A k \in keys : k.owner \in Nat /\ k.owner < next.user
  BY DEF World, CoreTypes, CoreOK
<1> QED
  BY <1>2, <1>3 DEF KeyFor, Agree

\* What was read of the policy, the ACL is current or older.
LEMMA PolicyReadStays ==
    ASSUME CoreTypes, CoreTypes', Evolves, NEW etag \in Nat, NEW stmts, PolicyRead(etag, stmts)
    PROVE  PolicyRead(etag, stmts)'
<1>1. /\ policy.etag \in Nat /\ policy'.etag \in Nat /\ (bucket'.open => bucket.open)
      /\ policy'.etag > policy.etag \/ (policy'.etag = policy.etag /\ policy'.stmts = policy.stmts)
  BY DEF CoreTypes, Evolves
<1> QED
  BY <1>1 DEF PolicyRead

\* An ACL that was read stays what it is while its ETag is the current one.
LEMMA AclReadStays ==
    ASSUME CoreTypes, CoreTypes', Evolves, NEW etag \in Nat, NEW entries, AclRead(etag, entries)
    PROVE  AclRead(etag, entries)'
<1>1. /\ acl.etag \in Nat /\ acl'.etag \in Nat
      /\ acl'.etag > acl.etag \/ (acl'.etag = acl.etag /\ acl'.entries = acl.entries)
  BY DEF CoreTypes, Evolves
<1> QED
  BY <1>1 DEF AclRead

\* What is true of a write on its way stays so.
LEMMA MsgStays ==
    ASSUME NEW o \in Owners, NEW p \in Owners, World(o), CoreTypes', Evolves, Agree(o, p), NEW m,
           MsgOK(o, m)
    PROVE  MsgOK(p, m)'
<1>0. CoreTypes /\ next.user \in Nat /\ next'.user \in Nat /\ next.key \in Nat
      /\ next'.key \in Nat /\ next'.user >= next.user /\ next'.key >= next.key
  BY DEF World, CoreTypes, Evolves
<1>1. m.op \in {"user", "key", "dropUser", "dropKey", "policy", "acl"} /\ m.access \in Accesses
  BY DEF MsgOK
<1>2. m.op \in {"key", "dropUser"} =>
         m.id \in Nat /\ (m.id # 0 => UserOf(p, m.id, m.access)')
  BY <1>0, UserStays DEF MsgOK
<1>3. m.op = "dropKey" => m.id \in Nat /\ m.id < next'.key /\ KeyFor(p, m.id, m.access)'
  <2>1. m.op = "dropKey" => m.id \in Nat /\ m.id < next.key /\ KeyFor(o, m.id, m.access)
    BY DEF MsgOK
  <2>2. m.op = "dropKey" => KeyFor(p, m.id, m.access)'
    BY <1>0, <2>1, KeyForStays
  <2> QED
    BY <1>0, <2>1, <2>2
<1>4. m.op = "policy" => m.stmts \in [Accesses -> Grant] /\ m.etag \in Nat /\ PolicyFor(p, m)'
  <2> SUFFICES ASSUME m.op = "policy"
               PROVE  m.stmts \in [Accesses -> Grant] /\ m.etag \in Nat /\ PolicyFor(p, m)'
    OBVIOUS
  <2>1. m.stmts \in [Accesses -> Grant] /\ m.etag \in Nat /\ PolicyFor(o, m)
    BY DEF MsgOK
  <2>2. /\ policy.etag \in Nat /\ policy'.etag \in Nat /\ (bucket'.open => bucket.open)
        /\ policy'.etag > policy.etag \/ (policy'.etag = policy.etag /\ policy'.stmts = policy.stmts)
    BY <1>0 DEF CoreTypes, Evolves
  <2> QED
    BY <2>1, <2>2 DEF PolicyFor
<1>5. m.op = "acl" => m.entries \subseteq Grant /\ m.etag \in Nat /\ AclFor(p, m)'
  <2> SUFFICES ASSUME m.op = "acl"
               PROVE  m.entries \subseteq Grant /\ m.etag \in Nat /\ AclFor(p, m)'
    OBVIOUS
  <2>1. m.entries \subseteq Grant /\ m.etag \in Nat /\ AclFor(o, m)
    BY DEF MsgOK
  <2>2. /\ acl.etag \in Nat /\ acl'.etag \in Nat /\ acl.entries \subseteq Grant
        /\ acl'.etag > acl.etag \/ (acl'.etag = acl.etag /\ acl'.entries = acl.entries)
        /\ \A e \in acl.entries : e.id < next.user
    BY <1>0 DEF CoreTypes, Evolves, World, CoreOK
  <2>3. \A e \in m.entries \cup acl.entries : e.id \in Nat
    BY <2>1, <2>2 DEF Grant
  <2>4. m.etag # 0 /\ m.etag <= acl'.etag
    BY <2>1, <2>2 DEF AclFor
  <2>5. ASSUME m.etag = acl'.etag
        PROVE  /\ \A e \in m.entries : e.id # 0 /\ e.id < next'.user
               /\ \A e \in m.entries \cup acl'.entries :
                    p[e.id] # m.access => (e \in m.entries <=> e \in acl'.entries)
    <3>1. m.etag = acl.etag /\ acl'.entries = acl.entries
      BY <2>1, <2>2, <2>5 DEF AclFor
    <3>2. /\ \A e \in m.entries : e.id # 0 /\ e.id < next.user
          /\ \A e \in m.entries \cup acl.entries :
               o[e.id] # m.access => (e \in m.entries <=> e \in acl.entries)
      BY <2>1, <3>1 DEF AclFor
    <3>3. \A e \in m.entries \cup acl.entries : p[e.id] = o[e.id]
      BY <2>2, <2>3, <3>2 DEF Agree
    <3> QED
      BY <1>0, <2>3, <3>1, <3>2, <3>3
  <2> QED
    BY <2>1, <2>4, <2>5 DEF AclFor
<1> QED
  BY <1>1, <1>2, <1>3, <1>4, <1>5 DEF MsgOK

\* What is true of a worker's local variables stays so.
LEMMA LocalStays ==
    ASSUME NEW o \in Owners, NEW p \in Owners, World(o), CoreTypes', Evolves, Agree(o, p),
           NEW k \in Locals, LocalOK(o, k)
    PROVE  LocalOK(p, k)'
<1>0. CoreTypes /\ next.user \in Nat /\ next'.user \in Nat /\ next.key \in Nat
      /\ next'.key \in Nat /\ next'.user >= next.user /\ next'.key >= next.key
      /\ k.id \in Nat /\ k.key \in Nat /\ k.todo \subseteq Nat /\ k.etag \in Nat
  BY DEF World, CoreTypes, Evolves, Locals
<1>1. k.id < next'.user /\ k.key < next'.key
  BY <1>0 DEF LocalOK
<1>2. k.id # 0 => UserOf(p, k.id, k.access)'
  BY <1>0, UserStays DEF LocalOK
<1>3. k.pc \in KeyPoints => KeyOf(k.key, k.id)'
  BY <1>0, KeyStays DEF LocalOK
<1>4. k.pc \in DropPoints => k.todo # {} /\ \A t \in k.todo : t < next'.key /\ KeyOf(t, k.id)'
  <2> SUFFICES ASSUME k.pc \in DropPoints
               PROVE  k.todo # {} /\ \A t \in k.todo : t < next'.key /\ KeyOf(t, k.id)'
    OBVIOUS
  <2>1. k.todo # {} /\ \A t \in k.todo : t \in Nat /\ t < next.key /\ KeyOf(t, k.id)
    BY <1>0 DEF LocalOK
  <2>2. ASSUME NEW t \in k.todo PROVE t < next'.key /\ KeyOf(t, k.id)'
    BY <1>0, <2>1, KeyStays
  <2> QED
    BY <2>1, <2>2
<1>5. k.pc \in PutPolicyPoints => PolicyRead(k.etag, k.stmts)'
  BY <1>0, PolicyReadStays DEF LocalOK
<1>6. k.pc \in PutAclPoints => AclRead(k.etag, k.entries)'
  BY <1>0, AclReadStays DEF LocalOK
<1> QED
  BY <1>1, <1>2, <1>3, <1>4, <1>5, <1>6 DEF LocalOK

\* The keys of Core, where IDs are not reused and a user has few.
KeysOK ==
    /\ \A k \in keys : k.id # 0 /\ k.id < next.key /\ k.owner # 0 /\ k.owner < next.user
    /\ \A j, k \in keys : j.id = k.id => j = k
    /\ IsFiniteSet(keys) /\ \A id \in Nat : Cardinality(KeysOf(id)) <= KeyLimit

\* Who owns what stays so if what is new is owned.
LEMMA CoreFrom ==
    ASSUME NEW o \in Owners, NEW p \in Owners, World(o), CoreTypes', Evolves, Agree(o, p),
           UNCHANGED hist, KeysOK',
           \A a \in Accesses : users'[a] # 0 => users'[a] = users[a] \/ UserOf(p, users[a], a)',
           \A e \in acl'.entries : e \in acl.entries \/ (e.id # 0 /\ e.id < next'.user),
           bucket' = bucket
    PROVE  World(p)'
<1>0. CoreTypes /\ CoreOK(o) /\ next.user \in Nat /\ next'.user \in Nat /\ next.key \in Nat
      /\ next'.key \in Nat /\ next'.user >= next.user /\ next'.key >= next.key
  BY DEF World, CoreTypes, Evolves
<1>1. ASSUME NEW a \in Accesses, users'[a] # 0 PROVE UserOf(p, users[a], a)'
  <2>1. CASE users'[a] = users[a]
    <3>1. PICK id \in Nat : id = users[a] /\ id = users'[a]
      BY <1>0, <2>1 DEF CoreTypes
    <3>2. UserOf(o, id, a)
      BY <1>0, <1>1, <3>1 DEF CoreOK
    <3>3. UserOf(p, id, a)'
      BY <1>0, <3>2, UserStays
    <3> QED
      BY <3>1, <3>3 DEF UserOf
  <2> QED
    BY <1>1, <2>1
<1>2. \A e \in acl'.entries : e.id # 0 /\ e.id < next'.user
  BY <1>0 DEF CoreOK, CoreTypes, Grant
<1>3. /\ hist'.accounts = hist.accounts /\ hist'.revoked = hist.revoked
      /\ hist'.given = hist.given
      /\ hist.accounts \subseteq Accounts /\ hist.revoked \subseteq Accounts
      /\ hist.given \subseteq Grants
  BY <1>0 DEF CoreTypes
<1>4. \A r \in hist'.accounts : UserOf(p, r.id, r.access)'
  BY <1>0, <1>3, UserStays DEF CoreOK, Accounts
<1>5. \A r \in hist'.revoked : UserOf(p, r.id, r.access)'
  BY <1>0, <1>3, UserStays DEF CoreOK, Accounts
<1>6. \A g \in hist'.given : UserOf(p, g.id, g.access)' /\ g.key < next'.key
  BY <1>0, <1>3, UserStays DEF CoreOK, Grants
<1>7. /\ bucket'.open => bucket'.root = 1
      /\ policy'.etag = 0 => policy'.stmts = NoStatements
  BY <1>0 DEF CoreOK, CoreTypes, Evolves
<1> QED
  BY <1>1, <1>2, <1>4, <1>5, <1>6, <1>7 DEF World, CoreOK, KeysOK

\* Keys that are not touched, or go, are in order.
LEMMA KeysGo ==
    ASSUME NEW o, World(o), keys' \subseteq keys, next'.key \in Nat, next'.user \in Nat,
           next'.key >= next.key, next'.user >= next.user
    PROVE  KeysOK'
<1>1. /\ IsFiniteSet(keys) /\ keys \subseteq [id : Nat, owner : Nat] /\ KeyLimit \in Nat
      /\ next.user \in Nat /\ next.key \in Nat
      /\ \A k \in keys : k.id # 0 /\ k.id < next.key /\ k.owner # 0 /\ k.owner < next.user
      /\ \A j, k \in keys : j.id = k.id => j = k
  BY AccessAssumption DEF World, CoreTypes, CoreOK
<1>2. IsFiniteSet(keys')
  BY <1>1, FS_Subset
<1>3. ASSUME NEW id \in Nat PROVE Cardinality(KeysOf(id)') <= KeyLimit
  <2>1. KeysOf(id)' \subseteq KeysOf(id) /\ KeysOf(id) \subseteq keys
    BY DEF KeysOf
  <2>2. IsFiniteSet(KeysOf(id))
    BY <1>1, <2>1, FS_Subset
  <2>3. /\ IsFiniteSet(KeysOf(id)') /\ Cardinality(KeysOf(id)') <= Cardinality(KeysOf(id))
    BY <2>1, <2>2, FS_Subset
  <2>4. Cardinality(KeysOf(id)) \in Nat /\ Cardinality(KeysOf(id)') \in Nat
    BY <2>2, <2>3, FS_CardinalityType
  <2>5. Cardinality(KeysOf(id)) <= KeyLimit
    BY DEF World, CoreOK
  <2> QED
    BY <1>1, <2>3, <2>4, <2>5
<1>4. \A k \in keys' : k.id # 0 /\ k.id < next'.key /\ k.owner # 0 /\ k.owner < next'.user
  BY <1>1
<1>5. \A j, k \in keys' : j.id = k.id => j = k
  BY <1>1
<1> QED
  BY <1>2, <1>3, <1>4, <1>5 DEF KeysOK

\* A POST of a user that Core accepts.
LEMMA UserCommits ==
    ASSUME NEW o \in Owners, NEW p \in Owners, World(o), Agree(o, p), UNCHANGED hist,
           NEW m, MsgOK(o, m), p[next.user] = m.access, m.op = "user", Answer(m) = "ok", Effect(m)
    PROVE  World(p)' /\ Evolves
<1>1. /\ users' = [users EXCEPT ![m.access] = next.user]
      /\ next' = [next EXCEPT !.user = @ + 1]
      /\ keys' = keys /\ bucket' = bucket /\ policy' = policy /\ acl' = acl
  BY DEF Effect
<1>2. m.access \in Accesses /\ CoreTypes /\ next.user \in Nat \ {0} /\ next.key \in Nat \ {0}
  BY DEF MsgOK, World, CoreTypes
<1>3. next' \in [user : Nat \ {0}, key : Nat \ {0}] /\ next'.user = next.user + 1
      /\ next'.key = next.key
  BY <1>1, <1>2 DEF CoreTypes
<1>4. /\ users' \in [Accesses -> Nat] /\ users'[m.access] = next.user
      /\ \A a \in Accesses \ {m.access} : users'[a] = users[a]
  BY <1>1, <1>2 DEF CoreTypes
<1>5. CoreTypes'
  BY <1>1, <1>2, <1>3, <1>4 DEF CoreTypes
<1>6. Evolves
  BY <1>1, <1>2, <1>3, <1>4 DEF Evolves
<1>7. KeysOK'
  BY <1>1, <1>2, <1>3, KeysGo
<1>8. ASSUME NEW a \in Accesses, users'[a] # 0
      PROVE  users'[a] = users[a] \/ UserOf(p, users[a], a)'
  BY <1>2, <1>3, <1>4 DEF UserOf
<1>9. \A e \in acl'.entries : e \in acl.entries \/ (e.id # 0 /\ e.id < next'.user)
  BY <1>1
<1> QED
  BY <1>1, <1>5, <1>6, <1>7, <1>8, <1>9, CoreFrom

\* A DELETE of a user that Core accepts.
LEMMA DropUserCommits ==
    ASSUME NEW o \in Owners, NEW p \in Owners, World(o), Agree(o, p), UNCHANGED hist,
           NEW m, m.op = "dropUser", Effect(m)
    PROVE  World(p)' /\ Evolves
<1>1. /\ users' = [a \in Accesses |-> IF users[a] = m.id THEN 0 ELSE users[a]]
      /\ keys' = keys /\ bucket' = bucket /\ policy' = policy /\ acl' = acl /\ next' = next
  BY DEF Effect
<1>2. CoreTypes /\ next.user \in Nat \ {0} /\ next.key \in Nat \ {0}
  BY DEF World, CoreTypes
<1>4. users' \in [Accesses -> Nat] /\ \A a \in Accesses : users'[a] \in {users[a], 0}
  BY <1>1, <1>2 DEF CoreTypes
<1>5. CoreTypes'
  BY <1>1, <1>2, <1>4 DEF CoreTypes
<1>6. Evolves
  BY <1>1, <1>2, <1>4 DEF Evolves
<1>7. KeysOK'
  BY <1>1, <1>2, KeysGo
<1>8. \A a \in Accesses : users'[a] # 0 => users'[a] = users[a] \/ UserOf(p, users[a], a)'
  BY <1>4
<1>9. \A e \in acl'.entries : e \in acl.entries \/ (e.id # 0 /\ e.id < next'.user)
  BY <1>1
<1> QED
  BY <1>1, <1>5, <1>6, <1>7, <1>8, <1>9, CoreFrom

\* A POST of a key that Core accepts.
LEMMA KeyCommits ==
    ASSUME NEW o \in Owners, NEW p \in Owners, World(o), Agree(o, p), UNCHANGED hist,
           NEW m, MsgOK(o, m), m.op = "key", Answer(m) = "ok", Effect(m)
    PROVE  World(p)' /\ Evolves
<1>1. /\ keys' = keys \cup {[id |-> next.key, owner |-> m.id]}
      /\ next' = [next EXCEPT !.key = @ + 1]
      /\ users' = users /\ bucket' = bucket /\ policy' = policy /\ acl' = acl
  BY DEF Effect
<1>2. CoreTypes /\ next.user \in Nat \ {0} /\ next.key \in Nat \ {0} /\ m.id \in Nat
      /\ KeyLimit \in Nat
  BY AccessAssumption DEF MsgOK, World, CoreTypes
<1>3. next' \in [user : Nat \ {0}, key : Nat \ {0}] /\ next'.key = next.key + 1
      /\ next'.user = next.user
  BY <1>1, <1>2 DEF CoreTypes
<1>4. m.id \in Live /\ ~(Cardinality(KeysOf(m.id)) >= KeyLimit)
  BY DEF Answer
<1>5. m.id # 0 /\ m.id < next.user
  BY <1>4 DEF Live, World, CoreOK, UserOf
<1>6. PICK new \in [id : Nat, owner : Nat] :
        keys' = keys \cup {new} /\ new.id = next.key /\ new.owner = m.id
  <2>1. PICK new : new = [id |-> next.key, owner |-> m.id]
    OBVIOUS
  <2>2. new \in [id : Nat, owner : Nat] /\ new.id = next.key /\ new.owner = m.id
    BY <1>2, <2>1
  <2>3. keys' = keys \cup {new}
    BY <1>1, <2>1, Zenon
  <2> QED
    BY <2>2, <2>3
<1>7. CoreTypes'
  BY <1>1, <1>2, <1>3, <1>6 DEF CoreTypes
<1>8. Evolves
  BY <1>1, <1>2, <1>3, <1>6 DEF Evolves, CoreTypes
<1>9. KeysOK'
  <2>0. /\ \A k \in keys : k.id # 0 /\ k.id < next.key /\ k.owner # 0 /\ k.owner < next.user
        /\ \A j, k \in keys : j.id = k.id => j = k
        /\ IsFiniteSet(keys) /\ keys \subseteq [id : Nat, owner : Nat]
    BY <1>2 DEF World, CoreOK, CoreTypes
  <2>1. \A k \in keys' : k.id # 0 /\ k.id < next'.key /\ k.owner # 0 /\ k.owner < next'.user
    BY <1>2, <1>3, <1>5, <1>6, <2>0
  <2>2. \A j, k \in keys' : j.id = k.id => j = k
    BY <1>2, <1>6, <2>0
  <2>3. IsFiniteSet(keys')
    BY <1>6, <2>0, FS_AddElement
  <2>4. ASSUME NEW id \in Nat PROVE Cardinality(KeysOf(id)') <= KeyLimit
    <3>1. IsFiniteSet(KeysOf(id)) /\ Cardinality(KeysOf(id)) \in Nat
      <4>1. KeysOf(id) \subseteq keys
        BY DEF KeysOf
      <4> QED
        BY <2>0, <4>1, FS_Subset, FS_CardinalityType
    <3>2. CASE id = m.id
      <4>1. KeysOf(id)' = KeysOf(id) \cup {new} /\ new \notin KeysOf(id)
        BY <1>2, <1>6, <2>0, <3>2 DEF KeysOf
      <4>2. Cardinality(KeysOf(id)') = Cardinality(KeysOf(id)) + 1
        BY <3>1, <4>1, FS_AddElement
      <4> QED
        BY <1>2, <1>4, <3>1, <3>2, <4>2
    <3>3. CASE id # m.id
      <4>1. KeysOf(id)' = KeysOf(id)
        BY <1>6, <3>3 DEF KeysOf
      <4> QED
        BY <4>1 DEF World, CoreOK
    <3> QED
      BY <3>2, <3>3
  <2> QED
    BY <2>1, <2>2, <2>3, <2>4 DEF KeysOK
<1>10. \A a \in Accesses : users'[a] # 0 => users'[a] = users[a] \/ UserOf(p, users[a], a)'
  BY <1>1
<1>11. \A e \in acl'.entries : e \in acl.entries \/ (e.id # 0 /\ e.id < next'.user)
  BY <1>1
<1> QED
  BY <1>1, <1>7, <1>8, <1>9, <1>10, <1>11, CoreFrom

\* A DELETE of a key that Core accepts.
LEMMA DropKeyCommits ==
    ASSUME NEW o \in Owners, NEW p \in Owners, World(o), Agree(o, p), UNCHANGED hist,
           NEW m, m.op = "dropKey", Effect(m)
    PROVE  World(p)' /\ Evolves
<1>1. /\ keys' = {k \in keys : k.id # m.id}
      /\ users' = users /\ bucket' = bucket /\ policy' = policy /\ acl' = acl /\ next' = next
  BY DEF Effect
<1>2. CoreTypes /\ next.user \in Nat \ {0} /\ next.key \in Nat \ {0}
  BY DEF World, CoreTypes
<1>3. keys' \subseteq keys
  BY <1>1
<1>5. CoreTypes'
  BY <1>1, <1>2, <1>3 DEF CoreTypes
<1>6. Evolves
  BY <1>1, <1>2, <1>3 DEF Evolves
<1>7. KeysOK'
  BY <1>1, <1>2, <1>3, KeysGo
<1>8. \A a \in Accesses : users'[a] # 0 => users'[a] = users[a] \/ UserOf(p, users[a], a)'
  BY <1>1
<1>9. \A e \in acl'.entries : e \in acl.entries \/ (e.id # 0 /\ e.id < next'.user)
  BY <1>1
<1> QED
  BY <1>1, <1>5, <1>6, <1>7, <1>8, <1>9, CoreFrom

\* A PUT of a policy that Core accepts.
LEMMA PolicyCommits ==
    ASSUME NEW o \in Owners, NEW p \in Owners, World(o), Agree(o, p), UNCHANGED hist,
           NEW m, MsgOK(o, m), m.op = "policy", Effect(m)
    PROVE  World(p)' /\ Evolves
<1>1. /\ policy' = [stmts |-> m.stmts, etag |-> policy.etag + 1]
      /\ users' = users /\ bucket' = bucket /\ keys' = keys /\ acl' = acl /\ next' = next
  BY DEF Effect
<1>2. CoreTypes /\ next.user \in Nat \ {0} /\ next.key \in Nat \ {0} /\ policy.etag \in Nat
      /\ m.stmts \in [Accesses -> Grant]
  BY DEF World, CoreTypes, MsgOK
<1>3. policy' \in [stmts : [Accesses -> Grant], etag : Nat] /\ policy'.etag > policy.etag
  BY <1>1, <1>2
<1>5. CoreTypes'
  BY <1>1, <1>2, <1>3 DEF CoreTypes
<1>6. Evolves
  BY <1>1, <1>2, <1>3 DEF Evolves
<1>7. KeysOK'
  BY <1>1, <1>2, KeysGo
<1>8. \A a \in Accesses : users'[a] # 0 => users'[a] = users[a] \/ UserOf(p, users[a], a)'
  BY <1>1
<1>9. \A e \in acl'.entries : e \in acl.entries \/ (e.id # 0 /\ e.id < next'.user)
  BY <1>1
<1> QED
  BY <1>1, <1>5, <1>6, <1>7, <1>8, <1>9, CoreFrom

\* A PUT of an ACL that Core accepts.
LEMMA AclCommits ==
    ASSUME NEW o \in Owners, NEW p \in Owners, World(o), Agree(o, p), UNCHANGED hist,
           NEW m, MsgOK(o, m), m.op = "acl", Answer(m) = "ok", Effect(m)
    PROVE  World(p)' /\ Evolves
<1>1. /\ acl' = [entries |-> m.entries, etag |-> acl.etag + 1]
      /\ users' = users /\ bucket' = bucket /\ keys' = keys /\ policy' = policy /\ next' = next
  BY DEF Effect
<1>2. CoreTypes /\ next.user \in Nat \ {0} /\ next.key \in Nat \ {0} /\ acl.etag \in Nat \ {0}
      /\ m.entries \subseteq Grant
  BY DEF World, CoreTypes, MsgOK
<1>3. acl' \in [entries : SUBSET Grant, etag : Nat \ {0}] /\ acl'.etag > acl.etag
      /\ acl'.entries = m.entries
  BY <1>1, <1>2
<1>4. m.etag = acl.etag
  BY DEF Answer
<1>5. CoreTypes'
  BY <1>1, <1>2, <1>3 DEF CoreTypes
<1>6. Evolves
  BY <1>1, <1>2, <1>3 DEF Evolves
<1>7. KeysOK'
  BY <1>1, <1>2, KeysGo
<1>8. \A a \in Accesses : users'[a] # 0 => users'[a] = users[a] \/ UserOf(p, users[a], a)'
  BY <1>1
<1>9. \A e \in acl'.entries : e \in acl.entries \/ (e.id # 0 /\ e.id < next'.user)
  BY <1>1, <1>3, <1>4 DEF MsgOK, AclFor
<1> QED
  BY <1>1, <1>5, <1>6, <1>7, <1>8, <1>9, CoreFrom

\* What Core is does not change by itself.
LEMMA NothingChanges ==
    ASSUME NEW o \in Owners, NEW p \in Owners, World(o), Agree(o, p), UNCHANGED <<core, hist>>
    PROVE  World(p)' /\ Evolves
<1>1. /\ users' = users /\ bucket' = bucket /\ keys' = keys /\ policy' = policy /\ acl' = acl
      /\ next' = next /\ hist' = hist
  BY DEF core
<1>2. CoreTypes /\ next.user \in Nat \ {0} /\ next.key \in Nat \ {0}
  BY DEF World, CoreTypes
<1>5. CoreTypes'
  BY <1>1, <1>2 DEF CoreTypes
<1>6. Evolves
  BY <1>1, <1>2 DEF Evolves, CoreTypes
<1>7. KeysOK'
  BY <1>1, <1>2, KeysGo
<1>8. \A a \in Accesses : users'[a] # 0 => users'[a] = users[a] \/ UserOf(p, users[a], a)'
  BY <1>1
<1>9. \A e \in acl'.entries : e \in acl.entries \/ (e.id # 0 /\ e.id < next'.user)
  BY <1>1
<1> QED
  BY <1>1, <1>5, <1>6, <1>7, <1>8, <1>9, CoreFrom

\* A write that reaches Core.
LEMMA CommitOK ==
    ASSUME NEW o \in Owners, NEW p \in Owners, World(o), Agree(o, p), UNCHANGED hist,
           NEW m, MsgOK(o, m), p[next.user] = m.access, Commit(m)
    PROVE  World(p)' /\ Evolves
<1>1. CASE Answer(m) # "ok"
  BY <1>1, NothingChanges DEF Commit
<1>2. CASE Answer(m) = "ok"
  <2>1. Effect(m)
    BY <1>2 DEF Commit
  <2>2. m.op \in {"user", "key", "dropUser", "dropKey", "policy", "acl"}
    BY DEF MsgOK
  <2> QED
    BY <1>2, <2>1, <2>2, UserCommits, DropUserCommits, KeyCommits, DropKeyCommits,
       PolicyCommits, AclCommits
<1> QED
  BY <1>1, <1>2

\* What the handler puts into the policy, the ACL.
StatementsToPut(w) ==
    IF At(w, "gPutPolicy")
    THEN [work[w].stmts EXCEPT ![work[w].access] = [id |-> work[w].id, mode |-> work[w].mode]]
    ELSE WithoutStatement(w)

EntriesToPut(w) ==
    (work[w].entries \ EntriesOf(work[w].id, work[w].entries))
      \cup (IF At(w, "gPutAcl") THEN Exact(work[w]) ELSE {})

\* A write that the handler may send at its control point.
Sends(w, m) ==
    /\ m.access = work[w].access
    /\ \/ At(w, "gUser") /\ m.op = "user"
       \/ At(w, "gKey") /\ m.op = "key" /\ m.id = work[w].id
       \/ work[w].pc \in DropPoints /\ m.op = "dropKey" /\ m.id \in work[w].todo
       \/ At(w, "cOwn") /\ m.op = "dropKey" /\ m.id = work[w].key
       \/ At(w, "rDelUser") /\ m.op = "dropUser" /\ m.id = work[w].id
       \/ work[w].pc \in PutPolicyPoints /\ m.op = "policy"
            /\ m.etag = work[w].etag /\ m.stmts = StatementsToPut(w)
       \/ work[w].pc \in PutAclPoints /\ m.op = "acl"
            /\ m.etag = work[w].etag /\ m.entries = EntriesToPut(w)

\* A mode, and a statement or entry without a user, is well-typed.
LEMMA NobodyType == Nobody \in Grant /\ NoStatements \in [Accesses -> Grant] /\ Nobody.id = 0
<1>1. PICK a \in Accesses : TRUE
  BY AccessAssumption
<1>2. \E m \in Modes : TRUE
  BY <1>1, AccessAssumption DEF Modes
<1>3. (CHOOSE m \in Modes : TRUE) \in Modes
  BY <1>2
<1> QED
  BY <1>3 DEF Nobody, Grant, NoStatements

\* A worker without a call has well-typed local variables.
LEMMA IdleType ==
    /\ Idle \in Locals /\ Idle.pc = "idle" /\ Idle.id = 0 /\ Idle.key = 0 /\ Idle.try = 1
    /\ ~Idle.left
<1>1. \E a \in Accesses : TRUE
  BY AccessAssumption
<1>2. \E m \in Modes : TRUE
  BY <1>1, AccessAssumption DEF Modes
<1>3. (CHOOSE a \in Accesses : TRUE) \in Accesses /\ (CHOOSE m \in Modes : TRUE) \in Modes
  BY <1>1, <1>2
<1> QED
  BY <1>3, NobodyType DEF Idle, Locals, Points

\* What a handler sends is about its own access only.
LEMMA SendsOK ==
    ASSUME NEW o \in Owners, Base(o), NEW w \in Workers, NEW m, Sends(w, m)
    PROVE  MsgOK(o, m)
<1>0. PICK k \in Locals : k = work[w]
  BY DEF Base
<1>1. /\ LocalOK(o, k) /\ CoreTypes /\ CoreOK(o) /\ m.access = k.access
      /\ k.access \in Accesses /\ k.id \in Nat /\ k.key \in Nat /\ k.todo \subseteq Nat
      /\ k.etag \in Nat /\ k.stmts \in [Accesses -> Grant] /\ k.entries \subseteq Grant
      /\ k.mode \in Modes
  BY <1>0 DEF Base, Sends, Locals
<1>2. CASE At(w, "gUser") /\ m.op = "user"
  BY <1>1, <1>2 DEF MsgOK
<1>3. CASE At(w, "gKey") /\ m.op = "key" /\ m.id = work[w].id
  BY <1>0, <1>1, <1>3 DEF MsgOK, LocalOK
<1>4. CASE At(w, "rDelUser") /\ m.op = "dropUser" /\ m.id = work[w].id
  BY <1>0, <1>1, <1>4 DEF MsgOK, LocalOK
<1>5. ASSUME NEW t \in Nat, KeyOf(t, k.id), k.id # 0 \/ KeyOf(t, 0)
      PROVE  KeyFor(o, t, k.access)
  <2>1. CASE k.id # 0
    BY <1>1, <1>5, <2>1 DEF KeyFor, KeyOf, LocalOK, UserOf
  <2>2. CASE k.id = 0
    BY <1>1, <1>5, <2>2 DEF KeyFor, KeyOf, CoreOK
  <2> QED
    BY <2>1, <2>2
<1>6. CASE work[w].pc \in DropPoints /\ m.op = "dropKey" /\ m.id \in work[w].todo
  <2>1. m.id \in Nat /\ m.id < next.key /\ KeyOf(m.id, k.id)
    BY <1>0, <1>1, <1>6 DEF LocalOK
  <2>2. KeyFor(o, m.id, k.access)
    BY <1>5, <2>1
  <2> QED
    BY <1>1, <1>6, <2>1, <2>2 DEF MsgOK
<1>7. CASE At(w, "cOwn") /\ m.op = "dropKey" /\ m.id = work[w].key
  <2>1. m.id \in Nat /\ m.id < next.key /\ KeyOf(m.id, k.id)
    BY <1>0, <1>1, <1>7 DEF LocalOK, At, KeyPoints
  <2>2. KeyFor(o, m.id, k.access)
    BY <1>5, <2>1
  <2> QED
    BY <1>1, <1>7, <2>1, <2>2 DEF MsgOK
<1>8. CASE /\ work[w].pc \in PutPolicyPoints /\ m.op = "policy"
           /\ m.etag = work[w].etag /\ m.stmts = StatementsToPut(w)
  <2>1. PolicyRead(k.etag, k.stmts) /\ m.etag = k.etag
    BY <1>0, <1>1, <1>8 DEF LocalOK
  <2>2. /\ m.stmts \in [Accesses -> Grant]
        /\ \A b \in Accesses \ {k.access} : m.stmts[b] = k.stmts[b]
    <3>1. CASE At(w, "gPutPolicy")
      <4>1. m.stmts = [k.stmts EXCEPT ![k.access] = [id |-> k.id, mode |-> k.mode]]
        BY <1>0, <1>8, <3>1 DEF StatementsToPut
      <4>2. [id |-> k.id, mode |-> k.mode] \in Grant
        BY <1>1 DEF Grant
      <4> QED
        BY <1>1, <4>1, <4>2
    <3>2. CASE ~At(w, "gPutPolicy")
      <4>1. PICK s : m.stmts = [k.stmts EXCEPT ![k.access] = s] /\ s \in {Nobody, k.stmts[k.access]}
        BY <1>0, <1>8, <3>2 DEF StatementsToPut, WithoutStatement
      <4> QED
        BY <1>1, <4>1, NobodyType
    <3> QED
      BY <3>1, <3>2
  <2>3. m.etag = 0 => \A b \in Accesses \ {k.access} : m.stmts[b] = Nobody
    BY <2>1, <2>2 DEF PolicyRead, NoStatements
  <2> QED
    BY <1>1, <1>8, <2>1, <2>2, <2>3 DEF MsgOK, PolicyFor, PolicyRead
<1>9. CASE /\ work[w].pc \in PutAclPoints /\ m.op = "acl"
           /\ m.etag = work[w].etag /\ m.entries = EntriesToPut(w)
  <2>1. AclRead(k.etag, k.entries) /\ m.etag = k.etag
    BY <1>0, <1>1, <1>9 DEF LocalOK
  <2>a. PICK new : new = [id |-> k.id, mode |-> k.mode]
    OBVIOUS
  <2>2. new = [id |-> k.id, mode |-> k.mode] /\ new \in Grant /\ new.id = k.id
    BY <1>1, <2>a DEF Grant
  <2>3. /\ \A e \in m.entries : e \in k.entries \/ (e = new /\ At(w, "gPutAcl"))
        /\ \A e \in k.entries : e \in m.entries \/ e.id = k.id
    BY <1>0, <1>9, <2>2 DEF EntriesToPut, EntriesOf, Exact
  <2>4. At(w, "gPutAcl") => UserOf(o, k.id, k.access)
    BY <1>0, <1>1 DEF LocalOK, At, UserPoints
  <2>5. k.id # 0 => o[k.id] = k.access
    BY <1>1 DEF LocalOK, UserOf
  <2>6. m.entries \subseteq Grant /\ m.etag \in Nat /\ m.etag # 0 /\ m.etag <= acl.etag
    BY <1>1, <2>1, <2>2, <2>3 DEF AclRead
  <2>7. ASSUME m.etag = acl.etag
        PROVE  /\ \A e \in m.entries : e.id # 0 /\ e.id < next.user
               /\ \A e \in m.entries \cup acl.entries :
                    o[e.id] # m.access => (e \in m.entries <=> e \in acl.entries)
    <3>1. k.entries = acl.entries /\ \A e \in acl.entries : e.id # 0 /\ e.id < next.user
      BY <1>1, <2>1, <2>7 DEF AclRead, CoreOK
    <3>2. \A e \in m.entries : e.id # 0 /\ e.id < next.user
      BY <2>2, <2>3, <2>4, <3>1 DEF UserOf
    <3>3. ASSUME NEW e \in m.entries \cup acl.entries, o[e.id] # m.access
          PROVE  e \in m.entries <=> e \in acl.entries
      BY <1>1, <2>2, <2>3, <2>5, <3>1, <3>2, <3>3
    <3> QED
      BY <3>2, <3>3
  <2> QED
    BY <1>1, <1>9, <2>6, <2>7 DEF MsgOK, AclFor
<1> QED
  BY <1>2, <1>3, <1>4, <1>6, <1>7, <1>8, <1>9 DEF Sends

\* Every worker's local variables are in order: said of the value they have, and
\* of the worker.
Held(o) == work \in [Workers -> Locals]
           /\ \A w \in Workers, k \in Locals : work[w] = k => LocalOK(o, k)

WorkersOK(o) == work \in [Workers -> Locals] /\ \A w \in Workers : LocalOK(o, work[w])

\* If the values are in order in the next state, the workers are.
LEMMA HeldNext == ASSUME NEW o PROVE Held(o)' => WorkersOK(o)'
<1>1. Held(o) => WorkersOK(o)
  BY DEF Held, WorkersOK
<1> QED
  BY <1>1, PTL

\* A step that leaves Core and the history in order leaves everything in order
\* if the writes and the workers it changes are.
LEMMA BaseFrom ==
    ASSUME NEW o \in Owners, NEW p \in Owners, Agree(o, p), Base(o), World(p)', Evolves,
           \A m \in late' : m \in late \/ MsgOK(o, m),
           work' \in [Workers -> Locals],
           \A w \in Workers, k \in Locals : work'[w] = k => LocalOK(o, k) \/ LocalOK(p, k)'
    PROVE  Base(p)'
<1>1. World(o)
  BY DEF Base, World
<1>2. CoreTypes' /\ CoreOK(p)'
  BY DEF World
<1>3. \A m \in late' : MsgOK(p, m)'
  BY <1>1, <1>2, MsgStays DEF Base
<1>4. Held(p)'
  BY <1>1, <1>2, LocalStays DEF Held
<1> QED
  BY <1>2, <1>3, <1>4, HeldNext DEF Base, WorkersOK

\* A step of a handler that sends nothing, and one that sends a write: it is answered,
\* or the answer is lost.
Moved(w, n) == work' = [work EXCEPT ![w] = n] /\ UNCHANGED <<core, late, hist>>

Sent(w, m, n) ==
    /\ Sends(w, m)
    /\ work' = [work EXCEPT ![w] = n] /\ UNCHANGED hist
    /\ (Commit(m) /\ late' = late) \/ (UNCHANGED core /\ late' = late \cup {m})

\* Each of them leaves the invariant true.
LEMMA MovedOK ==
    ASSUME NEW o \in Owners, Base(o), NEW w \in Workers, NEW n \in Locals, Moved(w, n),
           LocalOK(o, n)
    PROVE  Base(o)' /\ Evolves
<1>1. World(o) /\ Agree(o, o)
  BY DEF Base, World, Agree
<1>2. World(o)' /\ Evolves
  BY <1>1, NothingChanges DEF Moved
<1>3. /\ work' \in [Workers -> Locals] /\ late' = late
      /\ \A v \in Workers : work'[v] \in {work[v], n}
  BY DEF Base, Moved
<1>4. \A v \in Workers : work[v] \in Locals /\ LocalOK(o, work[v])
  BY DEF Base
<1> QED
  BY <1>1, <1>2, <1>3, <1>4, BaseFrom

\* A write that is sent, accepted or not, leaves Core and the history in order.
LEMMA SentCore ==
    ASSUME NEW o \in Owners, NEW p \in Owners, Agree(o, p), Base(o), NEW w \in Workers,
           p[next.user] = work[w].access, NEW m, NEW n, Sent(w, m, n)
    PROVE  World(p)' /\ Evolves
<1>1. World(o)
  BY DEF Base, World
<1>2. MsgOK(o, m) /\ p[next.user] = m.access
  BY SendsOK DEF Sent, Sends
<1> QED
  BY <1>1, <1>2, CommitOK, NothingChanges DEF Sent

\* A handler that sends a write leaves everything in order.
LEMMA SentOK ==
    ASSUME NEW o \in Owners, NEW p \in Owners, Agree(o, p), Base(o), NEW w \in Workers,
           p[next.user] = work[w].access, NEW m, NEW n \in Locals, Sent(w, m, n),
           LocalOK(o, n) \/ LocalOK(p, n)'
    PROVE  Base(p)' /\ Evolves
<1>1. World(p)' /\ Evolves
  BY SentCore
<1>2. MsgOK(o, m)
  BY SendsOK DEF Sent
<1>3. /\ work' \in [Workers -> Locals]
      /\ \A v \in Workers : work'[v] \in {work[v], n}
      /\ \A l \in late' : l \in late \/ l = m
  BY DEF Base, Sent
<1>4. \A v \in Workers : work[v] \in Locals /\ LocalOK(o, work[v])
  BY DEF Base
<1> QED
  BY <1>1, <1>2, <1>3, <1>4, BaseFrom

\* What is the same in the local variables of a call, and what is not reset.
Call(n, k) ==
    /\ n.access = k.access /\ n.mode = k.mode
    /\ (n.calm => k.calm) /\ (n.left => k.left)

Same(n, k) == Call(n, k) /\ n.id = k.id /\ n.key = k.key

Flags(n, k) ==
    /\ (n.own => k.own) /\ (k.own => n.own)
    /\ (n.pol => k.pol) /\ (k.pol => n.pol)
    /\ (n.dir => k.dir) /\ (k.dir => n.dir)

\* A worker without a call is in order.
LEMMA IdleOK == ASSUME NEW o, Base(o) PROVE Idle \in Locals /\ LocalOK(o, Idle)
<1>1. next.user \in Nat \ {0} /\ next.key \in Nat \ {0}
  BY DEF Base, CoreTypes
<1> QED
  BY <1>1, IdleType DEF LocalOK, UserPoints, KeyPoints, DropPoints, PutPolicyPoints, PutAclPoints

\* The handler goes to another control point.
LEMMA GoIs ==
    ASSUME NEW k \in Locals, NEW p \in Points, NEW n, n = [k EXCEPT !.pc = p]
    PROVE  /\ n \in Locals /\ n.pc = p /\ Same(n, k) /\ Flags(n, k)
           /\ n.todo = k.todo /\ n.etag = k.etag /\ n.stmts = k.stmts
           /\ n.entries = k.entries /\ n.try = k.try
<1>1. n \in Locals
  BY DEF Locals
<1>2. n.pc = p /\ Same(n, k) /\ n.try = k.try
  BY DEF Locals, Same, Call
<1>3. Flags(n, k)
  BY DEF Locals, Flags
<1>4. n.todo = k.todo /\ n.etag = k.etag /\ n.stmts = k.stmts /\ n.entries = k.entries
  BY DEF Locals
<1> QED
  BY <1>1, <1>2, <1>3, <1>4

\* What was read is forgotten, for the next attempt or the next store.
ClearedTo(k, p, t) == [k EXCEPT !.etag = 0, !.stmts = NoStatements, !.entries = {},
                                !.try = t, !.pc = p]

\* What was read, and the attempt, is forgotten; the rest of the call is as it was.
LEMMA ClearedIs ==
    ASSUME NEW k \in Locals, NEW p \in Points, NEW t \in Nat, NEW n, n = ClearedTo(k, p, t)
    PROVE  /\ n \in Locals /\ n.pc = p /\ Same(n, k) /\ Flags(n, k) /\ n.todo = k.todo /\ n.try = t
           /\ (k.blind => n.blind)
<1>0. NoStatements \in [Accesses -> Grant]
  BY NobodyType
<1>1. n \in Locals
  BY <1>0 DEF Locals, ClearedTo
<1>2. n.pc = p /\ Same(n, k) /\ n.try = t /\ n.todo = k.todo
  BY <1>0 DEF Locals, Same, Call, ClearedTo
<1>3. Flags(n, k)
  BY <1>0 DEF Locals, Flags, ClearedTo
<1>4. k.blind => n.blind
  BY <1>0 DEF Locals, ClearedTo
<1> QED
  BY <1>1, <1>2, <1>3, <1>4

\* How the call of a handler goes on: it is over, or another point of the same call
\* is reached, for the same user, the one just made or the one looked up.
Onto(w, n) ==
    \/ n.pc = "idle"
    \/ /\ Call(n, work[w])
       /\ n.id = work[w].id \/ n.id = next.user \/ n.id = users[work[w].access]
       /\ RootOf[work[w].access] # 0 /\ work[w].pc \in RevokePoints => n.id = work[w].id
       /\ n.pc \in RevokePoints => work[w].pc \in RevokePoints
       /\ n.pc \in GrantPoints \cup CleanPoints => work[w].pc \in GrantPoints \cup CleanPoints
       /\ n.pc \in GrantPoints => work[w].pc \in GrantPoints

\* A write that Core accepted and answered.
Taken(m) == Answer(m) = "ok" /\ Effect(m) /\ late' = late

\* The call is over.
Over(w, n) == n = Idle /\ Onto(w, n)

\* A call may be over at any time.
LEMMA OverIs ==
    ASSUME NEW o, Base(o), NEW w
    PROVE  Idle \in Locals /\ LocalOK(o, Idle) /\ Over(w, Idle)
BY IdleOK, IdleType DEF Over, Onto

\* The bucket is looked up, its directory compared.
LEMMA GrantBucketIs ==
    ASSUME NEW o \in Owners, Base(o), NEW w \in Workers, GrantBucket(w) \/ GrantAttrs(w)
    PROVE  \E n \in Locals :
             /\ Moved(w, n) /\ LocalOK(o, n)
             /\ \/ Over(w, n)
                \/ Onto(w, n) /\ Same(n, work[w]) /\ n.pc \in {"gUser", "gAttrs"}
<1>0. PICK k \in Locals : k = work[w] /\ LocalOK(o, k)
  BY DEF Base
<1>1. k.pc \in {"gBucket", "gAttrs"}
  BY <1>0 DEF GrantBucket, GrantAttrs, At
<1>2. CASE Move(w, Idle)
  BY <1>2, OverIs DEF Move, Moved
<1>3. ASSUME NEW p \in {"gUser", "gAttrs"}, Move(w, Go(w, p))
      PROVE  \E n \in Locals : /\ Moved(w, n) /\ LocalOK(o, n) /\ Onto(w, n)
                               /\ Same(n, work[w]) /\ n.pc \in {"gUser", "gAttrs"}
  <2>1. p \in Points
    BY DEF Points, GrantPoints
  <2>2. PICK n : n = [k EXCEPT !.pc = p]
    OBVIOUS
  <2>3. n \in Locals /\ n.pc = p /\ Same(n, k) /\ n.try = k.try
    BY <2>1, <2>2, GoIs
  <2>4. Moved(w, n)
    BY <1>0, <1>3, <2>2 DEF Move, Moved, Go
  <2>5. LocalOK(o, n)
    BY <1>0, <1>1, <2>3 DEF LocalOK, Same, Call, UserPoints, KeyPoints, DropPoints,
       PutPolicyPoints, PutAclPoints, CleanPoints
  <2>6. Onto(w, n)
    BY <1>0, <1>1, <2>3 DEF Onto, Same, GrantPoints, RevokePoints, CleanPoints
  <2> QED
    BY <1>0, <2>3, <2>4, <2>5, <2>6
<1>4. \/ Move(w, Idle)
      \/ \E p \in {"gUser", "gAttrs"} : Move(w, Go(w, p))
  BY DEF GrantBucket, GrantAttrs
<1> QED
  BY <1>2, <1>3, <1>4

\* The user is created, or exists.
LEMMA GrantUserIs ==
    ASSUME NEW o \in Owners, NEW p \in Owners, Agree(o, p), Base(o), NEW w \in Workers,
           p[next.user] = work[w].access, GrantUser(w)
    PROVE  \E m : \E n \in Locals :
             /\ Sent(w, m, n) /\ (LocalOK(o, n) \/ LocalOK(p, n)')
             /\ \/ Over(w, n)
                \/ /\ Onto(w, n) /\ Same(n, work[w]) /\ n.pc = "gLookup"
                   /\ Commit(m) /\ late' = late
                \/ /\ Onto(w, n) /\ Call(n, work[w]) /\ n.pc = "gList" /\ n.id = next.user
                   /\ Taken(m) /\ m.op = "user" /\ m.access = work[w].access
<1>0. PICK k \in Locals : k = work[w] /\ LocalOK(o, k)
  BY DEF Base
<1>1. k.pc = "gUser"
  BY <1>0 DEF GrantUser, At
<1>2. PICK m : m = [op |-> "user", access |-> work[w].access]
  OBVIOUS
<1>3. /\ m.op = "user" /\ m.access = work[w].access /\ Sends(w, m)
      /\ UNCHANGED hist
      /\ Answer(m) = IF users[m.access] # 0 THEN "exists" ELSE "ok"
  BY <1>0, <1>1, <1>2 DEF Sends, At, GrantUser, Answer
<1>4. \/ /\ Commit(m) /\ late' = late
         /\ \/ Answer(m) = "ok" /\ work' = [work EXCEPT ![w] = [work[w] EXCEPT !.id = next.user, !.pc = "gList"]]
            \/ Answer(m) = "exists" /\ work' = [work EXCEPT ![w] = Go(w, "gLookup")]
      \/ UNCHANGED core /\ late' = late \cup {m} /\ work' = [work EXCEPT ![w] = Idle]
  BY <1>2, <1>3 DEF GrantUser, Send
<1>5. CASE UNCHANGED core /\ late' = late \cup {m} /\ work' = [work EXCEPT ![w] = Idle]
  BY <1>3, <1>5, OverIs DEF Sent
<1>6. CASE Commit(m) /\ late' = late /\ work' = [work EXCEPT ![w] = Go(w, "gLookup")]
  <2>1. "gLookup" \in Points
    BY DEF Points, GrantPoints
  <2>2. PICK n : n = [k EXCEPT !.pc = "gLookup"]
    OBVIOUS
  <2>3. n \in Locals /\ n.pc = "gLookup" /\ Same(n, k) /\ n.try = k.try
    BY <2>1, <2>2, GoIs
  <2>4. Sent(w, m, n)
    BY <1>0, <1>3, <1>6, <2>2 DEF Sent, Go
  <2>5. LocalOK(o, n)
    BY <1>0, <1>1, <2>3 DEF LocalOK, Same, Call, UserPoints, KeyPoints, DropPoints,
       PutPolicyPoints, PutAclPoints, CleanPoints
  <2>6. Onto(w, n)
    BY <1>0, <1>1, <2>3 DEF Onto, Same, GrantPoints, RevokePoints, CleanPoints
  <2> QED
    BY <1>0, <1>6, <2>3, <2>4, <2>5, <2>6
<1>7. CASE /\ Commit(m) /\ late' = late /\ Answer(m) = "ok"
           /\ work' = [work EXCEPT ![w] = [work[w] EXCEPT !.id = next.user, !.pc = "gList"]]
  <2>0. next.user \in Nat \ {0} /\ next \in [user : Nat \ {0}, key : Nat \ {0}]
        /\ k.key < next.key /\ p[next.user] = k.access
    BY <1>0 DEF Base, CoreTypes, LocalOK
  <2>1. "gList" \in Points
    BY DEF Points, GrantPoints
  <2>2. PICK n : n = [k EXCEPT !.id = next.user, !.pc = "gList"]
    OBVIOUS
  <2>3. n \in Locals
    BY <2>0, <2>1, <2>2 DEF Locals
  <2>4. n.pc = "gList" /\ Call(n, k) /\ n.try = k.try /\ n.id = next.user /\ n.key = k.key
    BY <2>0, <2>1, <2>2 DEF Locals, Call
  <2>5. Sent(w, m, n)
    BY <1>0, <1>3, <1>7, <2>2 DEF Sent
  <2>6. Effect(m)
    BY <1>7 DEF Commit
  <2>7. next' = [next EXCEPT !.user = @ + 1]
    BY <1>3, <2>6 DEF Effect
  <2>8. next'.user = next.user + 1 /\ next'.key = next.key
    BY <2>0, <2>7
  <2>9. LocalOK(p, n)'
    BY <1>0, <1>1, <2>0, <2>4, <2>8 DEF LocalOK, Call, UserPoints, KeyPoints, DropPoints,
       PutPolicyPoints, PutAclPoints, CleanPoints, UserOf
  <2>10. Onto(w, n)
    BY <1>0, <1>1, <2>4 DEF Onto, GrantPoints, RevokePoints, CleanPoints
  <2> QED
    BY <1>0, <1>3, <1>7, <2>3, <2>4, <2>5, <2>6, <2>9, <2>10 DEF Taken
<1> QED
  BY <1>4, <1>5, <1>6, <1>7

\* The user is looked up by name.
LEMMA GrantLookupIs ==
    ASSUME NEW o \in Owners, Base(o), NEW w \in Workers, GrantLookup(w)
    PROVE  \E n \in Locals :
             /\ Moved(w, n) /\ LocalOK(o, n)
             /\ \/ Over(w, n)
                \/ /\ Onto(w, n) /\ Call(n, work[w]) /\ n.pc = "gList"
                   /\ n.id = users[work[w].access]
<1>0. PICK k \in Locals : k = work[w] /\ LocalOK(o, k)
  BY DEF Base
<1>1. k.pc = "gLookup" /\ k.access \in Accesses
  BY <1>0 DEF GrantLookup, At, Locals
<1>2. CASE Move(w, Idle)
  BY <1>2, OverIs DEF Move, Moved
<1>3. CASE User(w) # 0 /\ Move(w, [work[w] EXCEPT !.id = User(w), !.pc = "gList"])
  <2>0. UserOf(o, User(w), k.access) /\ User(w) = users[k.access] /\ User(w) \in Nat
    BY <1>0, <1>1, <1>3 DEF Base, CoreTypes, CoreOK, User
  <2>1. "gList" \in Points
    BY DEF Points, GrantPoints
  <2>2. PICK n : n = [k EXCEPT !.id = User(w), !.pc = "gList"]
    OBVIOUS
  <2>3. n \in Locals
    BY <2>0, <2>1, <2>2 DEF Locals
  <2>4. n.pc = "gList" /\ Call(n, k) /\ n.try = k.try /\ n.id = User(w) /\ n.key = k.key
    BY <2>0, <2>1, <2>2 DEF Locals, Call
  <2>5. Moved(w, n)
    BY <1>0, <1>3, <2>2 DEF Move, Moved
  <2>6. LocalOK(o, n)
    BY <1>0, <1>1, <2>0, <2>4 DEF LocalOK, Call, UserPoints, KeyPoints, DropPoints,
       PutPolicyPoints, PutAclPoints, CleanPoints, UserOf
  <2>7. Onto(w, n)
    BY <1>0, <1>1, <2>0, <2>4 DEF Onto, GrantPoints, RevokePoints, CleanPoints
  <2> QED
    BY <1>0, <2>0, <2>3, <2>4, <2>5, <2>6, <2>7
<1> QED
  BY <1>2, <1>3 DEF GrantLookup

\* The keys of the user, listed to be deleted.
Listed(w, drop) == [work[w] EXCEPT !.todo = {j.id : j \in KeysOf(work[w].id)}, !.pc = drop]

\* The keys of the user are listed.
LEMMA ListedIs ==
    ASSUME NEW o \in Owners, Base(o), NEW w \in Workers, NEW drop,
           <<work[w].pc, drop>> \in {<<"gList", "gDrop">>, <<"rList", "rDrop">>, <<"cList", "cDrop">>},
           KeysOf(work[w].id) # {},
           Move(w, Listed(w, drop))
    PROVE  \E n \in Locals :
             /\ Moved(w, n) /\ LocalOK(o, n) /\ Onto(w, n) /\ Same(n, work[w]) /\ Flags(n, work[w])
             /\ n.pc = drop /\ \A j \in KeysOf(work[w].id) : j.id \in n.todo
<1>0. PICK k \in Locals : k = work[w] /\ LocalOK(o, k)
  BY DEF Base
<1>1. /\ k.pc \in {"gList", "rList", "cList"} /\ drop \in Points /\ drop \in DropPoints
      /\ k.pc \in GrantPoints <=> drop \in GrantPoints
      /\ k.pc \in RevokePoints <=> drop \in RevokePoints
      /\ k.pc \in CleanPoints <=> drop \in CleanPoints
      /\ k.pc \in UserPoints <=> drop \in UserPoints
  BY <1>0 DEF Points, DropPoints, GrantPoints, RevokePoints, CleanPoints, UserPoints
<1>2. PICK ids : ids = {j.id : j \in KeysOf(k.id)}
  OBVIOUS
<1>3. PICK n : n = [k EXCEPT !.todo = ids, !.pc = drop]
  OBVIOUS
<1>4. /\ ids \subseteq Nat /\ ids # {} /\ \A t \in ids : t < next.key /\ KeyOf(t, k.id)
      /\ \A j \in KeysOf(k.id) : j.id \in ids
  <2>1. /\ keys \subseteq [id : Nat, owner : Nat] /\ \A j \in keys : j.id < next.key
        /\ \A i, j \in keys : i.id = j.id => i = j
    BY DEF Base, CoreTypes, CoreOK
  <2>2. \A j \in KeysOf(k.id) : j \in keys /\ j.owner = k.id /\ j.id \in ids
    BY <1>2 DEF KeysOf
  <2>3. \A t \in ids : \E j \in KeysOf(k.id) : t = j.id
    BY <1>2
  <2>4. ASSUME NEW t \in ids PROVE t \in Nat /\ t < next.key /\ KeyOf(t, k.id)
    <3>1. PICK j \in KeysOf(k.id) : t = j.id
      BY <2>3
    <3> QED
      BY <2>1, <2>2, <3>1 DEF KeyOf
  <2>5. PICK j \in KeysOf(k.id) : TRUE
    BY <1>0
  <2> QED
    BY <2>2, <2>4, <2>5
<1>5. n \in Locals
  BY <1>1, <1>3, <1>4 DEF Locals
<1>6. n.pc = drop /\ Same(n, k) /\ n.try = k.try /\ n.todo = ids
  BY <1>1, <1>3, <1>4 DEF Locals, Same, Call
<1>7. Flags(n, k)
  BY <1>1, <1>3, <1>4 DEF Locals, Flags
<1>8. Moved(w, n)
  BY <1>0, <1>2, <1>3 DEF Move, Moved, Listed
<1>9. LocalOK(o, n)
  BY <1>0, <1>1, <1>4, <1>6 DEF LocalOK, Same, Call, KeyPoints, DropPoints,
     PutPolicyPoints, PutAclPoints, UserPoints, CleanPoints
<1>10. Onto(w, n)
  BY <1>0, <1>1, <1>6 DEF Onto, Same
<1> QED
  BY <1>0, <1>4, <1>5, <1>6, <1>7, <1>8, <1>9, <1>10

\* A listed key is deleted: one of several, or the last one and the call goes on, or the
\* call is over.
DropsKey(o, w, at, to) ==
    \E m : \E n \in Locals :
      /\ Sent(w, m, n) /\ LocalOK(o, n) /\ m.op = "dropKey" /\ m.id \in work[w].todo
      /\ \/ Over(w, n)
         \/ /\ Onto(w, n) /\ Same(n, work[w]) /\ Flags(n, work[w])
            /\ Commit(m) /\ late' = late
            /\ \/ n.pc = at /\ n.todo = work[w].todo \ {m.id}
               \/ n.pc = to /\ work[w].todo = {m.id}

\* Listed keys are deleted one by one.
LEMMA DropKeysIs ==
    ASSUME NEW o \in Owners, Base(o), NEW w \in Workers, NEW at, NEW to,
           \/ /\ <<at, to>> \in {<<"gDrop", "gKey">>, <<"rDrop", "rBucket">>}
              /\ DropKeys(w, at, [work[w] EXCEPT !.todo = {}, !.pc = to])
           \/ at = "cDrop" /\ to = "idle" /\ DropKeys(w, at, Idle)
    PROVE  DropsKey(o, w, at, to)
<1>0. PICK k \in Locals : k = work[w] /\ LocalOK(o, k)
  BY DEF Base
<1>1. /\ k.pc = at /\ at \in DropPoints /\ to \in Points /\ at \in Points
      /\ at \in UserPoints \/ at = "rDrop"
  BY <1>0 DEF DropKeys, At, DropPoints, UserPoints, Points, GrantPoints, RevokePoints, CleanPoints
<1>a. UNCHANGED hist
  BY DEF DropKeys
<1>b. PICK t \in k.todo : \E m :
        /\ m = [op |-> "dropKey", access |-> work[w].access, id |-> t]
        /\ \/ /\ Commit(m) /\ late' = late
              /\ Answer(m) \in {"ok", "missing"}
              /\ \/ k.todo # {t} /\ work' = [work EXCEPT ![w] = [k EXCEPT !.todo = k.todo \ {t}]]
                 \/ /\ k.todo = {t} /\ to # "idle"
                    /\ work' = [work EXCEPT ![w] = [k EXCEPT !.todo = {}, !.pc = to]]
                 \/ work' = [work EXCEPT ![w] = Idle]
           \/ UNCHANGED core /\ late' = late \cup {m} /\ work' = [work EXCEPT ![w] = Idle]
  <2>1. CASE /\ <<at, to>> \in {<<"gDrop", "gKey">>, <<"rDrop", "rBucket">>}
             /\ DropKeys(w, at, [work[w] EXCEPT !.todo = {}, !.pc = to])
    <3>1. PICK t \in k.todo :
            Send(w, [op |-> "dropKey", access |-> work[w].access, id |-> t],
                 [ok |-> IF k.todo = {t} THEN [k EXCEPT !.todo = {}, !.pc = to]
                         ELSE [k EXCEPT !.todo = k.todo \ {t}],
                  missing |-> IF k.todo = {t} THEN [k EXCEPT !.todo = {}, !.pc = to]
                         ELSE [k EXCEPT !.todo = k.todo \ {t}], lost |-> Idle])
      BY <1>0, <2>1 DEF DropKeys
    <3>2. PICK m : m = [op |-> "dropKey", access |-> work[w].access, id |-> t]
      OBVIOUS
    <3>3. m.op = "dropKey" /\ to # "idle"
      BY <2>1, <3>2
    <3>4. Answer(m) \in {"ok", "missing"}
      BY <3>3 DEF Answer
    <3> QED
      BY <3>1, <3>2, <3>3, <3>4 DEF Send
  <2>2. CASE at = "cDrop" /\ to = "idle" /\ DropKeys(w, at, Idle)
    <3>1. PICK t \in k.todo :
            Send(w, [op |-> "dropKey", access |-> work[w].access, id |-> t],
                 [ok |-> IF k.todo = {t} THEN Idle
                         ELSE [k EXCEPT !.todo = k.todo \ {t}],
                  missing |-> IF k.todo = {t} THEN Idle
                         ELSE [k EXCEPT !.todo = k.todo \ {t}], lost |-> Idle])
      BY <1>0, <2>2 DEF DropKeys
    <3>2. PICK m : m = [op |-> "dropKey", access |-> work[w].access, id |-> t]
      OBVIOUS
    <3>3. m.op = "dropKey"
      BY <3>2
    <3>4. Answer(m) \in {"ok", "missing"}
      BY <3>3 DEF Answer
    <3> QED
      BY <3>1, <3>2, <3>4 DEF Send
  <2> QED
    BY <2>1, <2>2
<1>2. PICK m :
        /\ m = [op |-> "dropKey", access |-> work[w].access, id |-> t]
        /\ \/ /\ Commit(m) /\ late' = late
              /\ Answer(m) \in {"ok", "missing"}
              /\ \/ k.todo # {t} /\ work' = [work EXCEPT ![w] = [k EXCEPT !.todo = k.todo \ {t}]]
                 \/ /\ k.todo = {t} /\ to # "idle"
                    /\ work' = [work EXCEPT ![w] = [k EXCEPT !.todo = {}, !.pc = to]]
                 \/ work' = [work EXCEPT ![w] = Idle]
           \/ UNCHANGED core /\ late' = late \cup {m} /\ work' = [work EXCEPT ![w] = Idle]
  BY <1>b
<1>3. m.op = "dropKey" /\ m.access = work[w].access /\ m.id = t /\ Sends(w, m)
  <2>1. m.op = "dropKey" /\ m.access = work[w].access /\ m.id = t
    BY <1>2
  <2>2. work[w].pc \in DropPoints /\ m.id \in work[w].todo
    BY <1>0, <1>1, <2>1
  <2> QED
    BY <2>1, <2>2 DEF Sends
<1>4. CASE /\ (Commit(m) /\ late' = late) \/ (UNCHANGED core /\ late' = late \cup {m})
           /\ work' = [work EXCEPT ![w] = Idle]
  <2>1. m.id \in work[w].todo
    BY <1>0, <1>3
  <2>2. Idle \in Locals /\ LocalOK(o, Idle) /\ Over(w, Idle)
    BY OverIs
  <2>3. Sent(w, m, Idle)
    BY <1>3, <1>4, <1>a DEF Sent
  <2>4. PICK n \in Locals : n = Idle
    BY <2>2
  <2>5. Sent(w, m, n) /\ LocalOK(o, n) /\ Over(w, n)
    BY <2>2, <2>3, <2>4
  <2> QED
    BY <1>3, <2>1, <2>5 DEF DropsKey
<1>5. CASE /\ Commit(m) /\ late' = late /\ k.todo # {t}
           /\ work' = [work EXCEPT ![w] = [k EXCEPT !.todo = k.todo \ {t}]]
  <2>0. PICK s : s = k.todo \ {t} /\ s # {} /\ s \subseteq Nat /\ s \subseteq k.todo
    BY <1>2, <1>5 DEF Locals
  <2>1. PICK n : n = [k EXCEPT !.todo = s]
    OBVIOUS
  <2>2. n \in Locals
    BY <2>0, <2>1 DEF Locals
  <2>3. n.pc = k.pc /\ Same(n, k) /\ n.try = k.try /\ n.todo = s
    BY <2>0, <2>1 DEF Locals, Same, Call
  <2>4. Flags(n, k)
    BY <2>0, <2>1 DEF Locals, Flags
  <2>5. Sent(w, m, n)
    BY <1>3, <1>5, <1>a, <2>0, <2>1 DEF Sent
  <2>6. LocalOK(o, n)
    BY <1>0, <1>1, <2>0, <2>3 DEF LocalOK, Same, Call, KeyPoints, DropPoints,
       PutPolicyPoints, PutAclPoints, UserPoints, CleanPoints
  <2>7. Onto(w, n)
    BY <1>0, <2>3 DEF Onto, Same
  <2> QED
    BY <1>0, <1>1, <1>2, <1>3, <1>5, <2>0, <2>2, <2>3, <2>4, <2>5, <2>6, <2>7 DEF DropsKey
<1>6. CASE /\ Commit(m) /\ late' = late /\ k.todo = {t} /\ to # "idle"
           /\ work' = [work EXCEPT ![w] = [k EXCEPT !.todo = {}, !.pc = to]]
  <2>0. <<at, to>> \in {<<"gDrop", "gKey">>, <<"rDrop", "rBucket">>}
    BY <1>6
  <2>1. PICK n : n = [k EXCEPT !.todo = {}, !.pc = to]
    OBVIOUS
  <2>2. n \in Locals
    BY <1>1, <2>1 DEF Locals
  <2>3. n.pc = to /\ Same(n, k) /\ n.try = k.try
    BY <1>1, <2>1 DEF Locals, Same, Call
  <2>4. Flags(n, k)
    BY <1>1, <2>1 DEF Locals, Flags
  <2>5. Sent(w, m, n)
    BY <1>3, <1>6, <1>a, <2>1 DEF Sent
  <2>6. LocalOK(o, n)
    BY <1>0, <1>1, <2>0, <2>3 DEF LocalOK, Same, Call, KeyPoints, DropPoints,
       PutPolicyPoints, PutAclPoints, UserPoints, CleanPoints
  <2>7. Onto(w, n)
    BY <1>0, <1>1, <2>0, <2>3 DEF Onto, Same, GrantPoints, RevokePoints, CleanPoints
  <2>8. n.pc = to /\ work[w].todo = {m.id} /\ m.id \in work[w].todo
    BY <1>0, <1>3, <1>6, <2>3
  <2>9. Same(n, work[w]) /\ Flags(n, work[w]) /\ Commit(m) /\ late' = late
    BY <1>0, <1>6, <2>3, <2>4
  <2> QED
    BY <1>3, <2>2, <2>5, <2>6, <2>7, <2>8, <2>9 DEF DropsKey
<1> QED
  BY <1>2, <1>4, <1>5, <1>6

\* The handler forgets what it read and goes to another point.
LEMMA ClearedGo ==
    ASSUME NEW w, NEW k \in Locals, k = work[w], NEW p
    PROVE  [Cleared(w) EXCEPT !.pc = p] = ClearedTo(k, p, 1)
BY DEF Cleared, ClearedTo, Locals

\* A key is created for the user.
LEMMA GrantKeyIs ==
    ASSUME NEW o \in Owners, NEW p \in Owners, Agree(o, p), Base(o), NEW w \in Workers,
           p[next.user] = work[w].access, GrantKey(w)
    PROVE  \E m : \E n \in Locals :
             /\ Sent(w, m, n) /\ (LocalOK(o, n) \/ LocalOK(p, n)')
             /\ Onto(w, n) /\ m.op = "key" /\ m.id = work[w].id
             /\ \/ Same(n, work[w]) /\ n.pc = "cList"
                \/ /\ Call(n, work[w]) /\ n.id = work[w].id /\ n.pc = "gPolicy"
                   /\ n.key = next.key /\ Taken(m)
<1>0. PICK k \in Locals : k = work[w] /\ LocalOK(o, k)
  BY DEF Base
<1>1. k.pc = "gKey" /\ k.try = 1 /\ k.id # 0 /\ ~k.left
  BY <1>0 DEF GrantKey, At, LocalOK, UserPoints, PutPolicyPoints, PutAclPoints, CleanPoints
<1>2. PICK m : m = [op |-> "key", access |-> work[w].access, id |-> work[w].id]
  OBVIOUS
<1>3. /\ m.op = "key" /\ m.access = work[w].access /\ m.id = k.id /\ Sends(w, m)
      /\ UNCHANGED hist
  BY <1>0, <1>1, <1>2 DEF Sends, At, GrantKey
<1>4. Answer(m) \in {"missing", "full", "ok"}
  BY <1>3 DEF Answer
<1>5. \/ /\ Commit(m) /\ late' = late /\ Answer(m) = "ok"
         /\ work' = [work EXCEPT ![w] = [work[w] EXCEPT !.key = next.key, !.pc = "gPolicy"]]
      \/ /\ (Commit(m) /\ late' = late) \/ (UNCHANGED core /\ late' = late \cup {m})
         /\ work' = [work EXCEPT ![w] = Go(w, "cList")]
  BY <1>2, <1>4 DEF GrantKey, Send
<1>6. CASE /\ (Commit(m) /\ late' = late) \/ (UNCHANGED core /\ late' = late \cup {m})
           /\ work' = [work EXCEPT ![w] = Go(w, "cList")]
  <2>1. "cList" \in Points
    BY DEF Points, CleanPoints
  <2>2. PICK n : n = [k EXCEPT !.pc = "cList"]
    OBVIOUS
  <2>3. n \in Locals /\ n.pc = "cList" /\ Same(n, k) /\ n.try = k.try
    BY <2>1, <2>2, GoIs
  <2>4. Sent(w, m, n)
    BY <1>0, <1>3, <1>6, <2>2 DEF Sent, Go
  <2>5. LocalOK(o, n)
    BY <1>0, <1>1, <2>3 DEF LocalOK, Same, Call, UserPoints, KeyPoints, DropPoints,
       PutPolicyPoints, PutAclPoints, CleanPoints
  <2>6. Onto(w, n)
    BY <1>0, <1>1, <2>3 DEF Onto, Same, GrantPoints, RevokePoints, CleanPoints
  <2> QED
    BY <1>0, <1>3, <2>3, <2>4, <2>5, <2>6
<1>7. CASE /\ Commit(m) /\ late' = late /\ Answer(m) = "ok"
           /\ work' = [work EXCEPT ![w] = [work[w] EXCEPT !.key = next.key, !.pc = "gPolicy"]]
  <2>0. /\ next.key \in Nat \ {0} /\ next \in [user : Nat \ {0}, key : Nat \ {0}]
        /\ next.user \in Nat /\ k.key \in Nat /\ k.id < next.user /\ 1 \in 1..PolicyAttempts
        /\ \A j \in keys : j.id < next.key
        /\ keys \subseteq [id : Nat, owner : Nat]
    BY <1>0, AccessAssumption DEF Base, CoreTypes, CoreOK, LocalOK, Locals
  <2>1. "gPolicy" \in Points
    BY DEF Points, GrantPoints
  <2>2. PICK n : n = [k EXCEPT !.key = next.key, !.pc = "gPolicy"]
    OBVIOUS
  <2>3. n \in Locals
    BY <2>0, <2>1, <2>2 DEF Locals
  <2>4. n.pc = "gPolicy" /\ Call(n, k) /\ n.try = k.try /\ n.id = k.id /\ n.key = next.key
    BY <2>0, <2>1, <2>2 DEF Locals, Call
  <2>5. Sent(w, m, n)
    BY <1>0, <1>3, <1>7, <2>2 DEF Sent
  <2>6. Effect(m)
    BY <1>7 DEF Commit
  <2>7. /\ next' = [next EXCEPT !.key = @ + 1]
        /\ keys' = keys \cup {[id |-> next.key, owner |-> m.id]}
    BY <1>3, <2>6 DEF Effect
  <2>8. next'.key = next.key + 1 /\ next'.user = next.user
    BY <2>0, <2>7
  <2>9. KeyOf(n.key, n.id)'
    <3>1. \A j \in keys' : j \in keys \/ j.owner = n.id
      BY <1>3, <2>4, <2>7
    <3>2. \A j \in keys : j.id # n.key
      BY <2>0, <2>4
    <3> QED
      BY <3>1, <3>2 DEF KeyOf
  <2>10. UserOf(p, n.id, n.access)'
    <3>1. UserOf(o, k.id, k.access) /\ k.id \in Nat
      BY <1>0, <1>1 DEF LocalOK, Locals
    <3> QED
      BY <2>4, <2>8, <3>1 DEF UserOf, Agree, Call
  <2>11. LocalOK(p, n)'
    <3>1. n.id < next'.user /\ n.key < next'.key /\ n.id # 0 /\ ~n.left
      BY <1>0, <1>1, <2>0, <2>4, <2>8 DEF Call
    <3> QED
      BY <1>1, <2>0, <2>4, <2>9, <2>10, <3>1 DEF LocalOK, DropPoints,
         PutPolicyPoints, PutAclPoints
  <2>12. Onto(w, n)
    BY <1>0, <1>1, <2>4 DEF Onto, GrantPoints, RevokePoints, CleanPoints
  <2> QED
    BY <1>0, <1>3, <1>7, <2>3, <2>4, <2>5, <2>6, <2>11, <2>12 DEF Taken
<1> QED
  BY <1>5, <1>6, <1>7

\* The policy is read.
LEMMA GetPolicyIs ==
    ASSUME NEW o \in Owners, Base(o), NEW w \in Workers, NEW at, NEW put,
           <<at, put>> \in {<<"gPolicy", "gPutPolicy">>, <<"rPolicy", "rPutPolicy">>},
           GetPolicy(w, at, put)
    PROVE  \E n \in Locals :
             /\ Moved(w, n) /\ LocalOK(o, n) /\ Onto(w, n)
             /\ Same(n, work[w]) /\ Flags(n, work[w]) /\ n.pc = put
             /\ n.etag = (IF bucket.open THEN policy.etag ELSE 0)
<1>0. PICK k \in Locals : k = work[w] /\ LocalOK(o, k)
  BY DEF Base
<1>1. /\ k.pc = at /\ put \in Points /\ at \in {"gPolicy", "rPolicy"}
  BY <1>0 DEF GetPolicy, At, Points, GrantPoints, RevokePoints
<1>2. /\ policy.etag \in Nat /\ policy.stmts \in [Accesses -> Grant]
      /\ NoStatements \in [Accesses -> Grant]
      /\ policy.etag = 0 => policy.stmts = NoStatements
  BY NobodyType DEF Base, CoreTypes, CoreOK
<1>3. PICK e, s : e = (IF bucket.open THEN policy.etag ELSE 0)
                  /\ s = (IF bucket.open THEN policy.stmts ELSE NoStatements)
  OBVIOUS
<1>4. e \in Nat /\ s \in [Accesses -> Grant] /\ PolicyRead(e, s)
  BY <1>2, <1>3 DEF PolicyRead
<1>5. PICK n : n = [k EXCEPT !.pc = put, !.etag = e, !.stmts = s]
  OBVIOUS
<1>6. n \in Locals
  BY <1>1, <1>4, <1>5 DEF Locals
<1>7. n.pc = put /\ Same(n, k) /\ n.try = k.try /\ n.etag = e /\ n.stmts = s
  BY <1>1, <1>4, <1>5 DEF Locals, Same, Call
<1>8. Flags(n, k)
  BY <1>1, <1>4, <1>5 DEF Locals, Flags
<1>9. Moved(w, n)
  BY <1>0, <1>3, <1>5 DEF GetPolicy, Move, Moved
<1>10. LocalOK(o, n)
  BY <1>0, <1>1, <1>4, <1>7 DEF LocalOK, Same, Call, UserPoints, KeyPoints, DropPoints,
       PutPolicyPoints, PutAclPoints, CleanPoints
<1>11. Onto(w, n)
  BY <1>0, <1>1, <1>7 DEF Onto, Same, GrantPoints, RevokePoints, CleanPoints
<1> QED
  BY <1>0, <1>3, <1>6, <1>7, <1>8, <1>9, <1>10, <1>11

\* The cleanup deletes the key of the grant.
LEMMA UndoIs ==
    ASSUME NEW o \in Owners, Base(o), NEW w \in Workers, NEW n,
           work[w].pc \in {"gPolicy", "gPutPolicy", "gAcl", "gPutAcl"}, n = Undo(w)
    PROVE  n \in Locals /\ LocalOK(o, n) /\ Onto(w, n) /\ Same(n, work[w]) /\ n.pc = "cOwn"
           /\ (work[w].blind => n.blind)
<1>0. PICK k \in Locals : k = work[w] /\ LocalOK(o, k)
  BY DEF Base
<1>1. k.pc \in {"gPolicy", "gPutPolicy", "gAcl", "gPutAcl"} /\ "cOwn" \in Points
  BY <1>0 DEF Points, CleanPoints
<1>2. n = ClearedTo(k, "cOwn", 1)
  <2>1. [Cleared(w) EXCEPT !.pc = "cOwn"] = ClearedTo(k, "cOwn", 1)
    BY <1>0, ClearedGo
  <2> QED
    BY <2>1 DEF Undo
<1>3. n \in Locals /\ n.pc = "cOwn" /\ Same(n, k) /\ n.try = 1 /\ (k.blind => n.blind)
  BY <1>1, <1>2, ClearedIs
<1>4. LocalOK(o, n)
  BY <1>0, <1>1, <1>3 DEF LocalOK, Same, Call, UserPoints, KeyPoints, DropPoints,
       PutPolicyPoints, PutAclPoints, CleanPoints
<1>5. Onto(w, n)
  BY <1>0, <1>1, <1>3 DEF Onto, Same, GrantPoints, RevokePoints, CleanPoints
<1> QED
  BY <1>0, <1>3, <1>4, <1>5

\* The loop that reads and writes has an attempt left, which starts there.
Retries(w, at) ==
    \/ At(w, "gPutPolicy") /\ at = "gPolicy" /\ work[w].try < PolicyAttempts
    \/ At(w, "rPutPolicy") /\ at = "rPolicy" /\ work[w].try < PolicyAttempts
    \/ At(w, "gPutAcl") /\ at = "gAcl" /\ work[w].try < AclAttempts
    \/ At(w, "rPutAcl") /\ at = "rAcl" /\ work[w].try < AclAttempts

\* The local variables with what was read forgotten, at the next attempt, the next store.
NextTry(w, at) == [Cleared(w) EXCEPT !.pc = at, !.try = work[w].try + 1]

NextStore(w, to) == [Cleared(w) EXCEPT !.pc = to]

\* They are those of the call, but for what was read.
LEMMA NextTryIs ==
    ASSUME NEW w, NEW k \in Locals, k = work[w], NEW at, NEW t, t = k.try + 1
    PROVE  NextTry(w, at) = ClearedTo(k, at, t)
BY DEF NextTry, Cleared, ClearedTo, Locals

\* Likewise for the next store.
LEMMA NextStoreTo ==
    ASSUME NEW w, NEW k \in Locals, k = work[w], NEW to
    PROVE  NextStore(w, to) = ClearedTo(k, to, 1)
BY DEF NextStore, Cleared, ClearedTo, Locals

\* The next attempt.
LEMMA AgainIs ==
    ASSUME NEW o \in Owners, Base(o), NEW w \in Workers, NEW at, NEW n, Retries(w, at),
           n = NextTry(w, at)
    PROVE  /\ n \in Locals /\ LocalOK(o, n) /\ Onto(w, n) /\ Same(n, work[w]) /\ n.pc = at
           /\ Flags(n, work[w]) /\ (work[w].blind => n.blind)
<1>0. PICK k \in Locals : k = work[w] /\ LocalOK(o, k)
  BY DEF Base
<1>1. \/ at = "gPolicy" /\ k.pc = "gPutPolicy"
      \/ at = "rPolicy" /\ k.pc = "rPutPolicy"
      \/ at = "gAcl" /\ k.pc = "gPutAcl"
      \/ at = "rAcl" /\ k.pc = "rPutAcl"
  BY <1>0 DEF Retries, At
<1>2. at \in Points /\ k.try \in Nat
  BY <1>0, <1>1 DEF Points, GrantPoints, RevokePoints, Locals
<1>3. PICK t \in Nat : t = k.try + 1
  BY <1>2
<1>4. n \in Locals /\ n.pc = at /\ Same(n, k) /\ n.try = t /\ Flags(n, k) /\ (k.blind => n.blind)
  <2>1. n = ClearedTo(k, at, t)
    BY <1>0, <1>3, NextTryIs
  <2> QED
    BY <1>2, <2>1, ClearedIs
<1>5. /\ at \in {"gPolicy", "rPolicy"} => n.try \in 1..PolicyAttempts
      /\ at \in {"gAcl", "rAcl"} => n.try \in 1..AclAttempts
  BY <1>0, <1>2, <1>3, <1>4, AccessAssumption DEF Retries, At
<1>6. LocalOK(o, n)
  BY <1>0, <1>1, <1>4, <1>5 DEF LocalOK, Same, Call, UserPoints, KeyPoints, DropPoints,
     PutPolicyPoints, PutAclPoints, CleanPoints
<1>7. Onto(w, n)
  BY <1>0, <1>1, <1>4 DEF Onto, Same, GrantPoints, RevokePoints, CleanPoints
<1> QED
  BY <1>0, <1>4, <1>6, <1>7

\* A grant is done with the ACL.
LEMMA NextStoreIs ==
    ASSUME NEW o \in Owners, Base(o), NEW w \in Workers, NEW to, NEW n,
           At(w, "gAcl") \/ At(w, "gPutAcl"), to = "gDone",
           n = NextStore(w, to)
    PROVE  n \in Locals /\ LocalOK(o, n) /\ Onto(w, n) /\ Same(n, work[w]) /\ n.pc = to
           /\ (work[w].blind => n.blind)
<1>0. PICK k \in Locals : k = work[w] /\ LocalOK(o, k)
  BY DEF Base
<1>1. k.pc \in {"gAcl", "gPutAcl"} /\ to = "gDone"
  BY <1>0 DEF At
<1>2. to \in Points
  BY <1>1 DEF Points, GrantPoints
<1>3. PICK t \in Nat : t = 1
  OBVIOUS
<1>4. n \in Locals /\ n.pc = to /\ Same(n, k) /\ n.try = t /\ (k.blind => n.blind)
  <2>1. n = ClearedTo(k, to, t)
    BY <1>0, <1>3, NextStoreTo
  <2> QED
    BY <1>2, <2>1, ClearedIs
<1>5. 1 \in 1..AclAttempts
  BY AccessAssumption
<1>6. LocalOK(o, n)
  BY <1>0, <1>1, <1>3, <1>4, <1>5 DEF LocalOK, Same, Call, UserPoints, KeyPoints, DropPoints,
     PutPolicyPoints, PutAclPoints, CleanPoints
<1>7. Onto(w, n)
  BY <1>0, <1>1, <1>4 DEF Onto, Same, GrantPoints, RevokePoints, CleanPoints
<1> QED
  BY <1>0, <1>4, <1>6, <1>7

\* A grant has written the policy.
Written(w) == [Cleared(w) EXCEPT !.pc = "gAcl", !.blind = BlindWrite(work[w].access)]

\* It goes on to the ACL, and knows of others that write without ETag.
LEMMA WrittenIs ==
    ASSUME NEW o \in Owners, Base(o), NEW w \in Workers, At(w, "gPutPolicy"), NEW n, n = Written(w)
    PROVE  n \in Locals /\ LocalOK(o, n) /\ Onto(w, n) /\ Same(n, work[w]) /\ n.pc = "gAcl"
           /\ (BlindWrite(work[w].access) => n.blind)
<1>0. PICK k \in Locals : k = work[w] /\ LocalOK(o, k)
  BY DEF Base
<1>1. k.pc = "gPutPolicy" /\ "gAcl" \in Points /\ k.pc \in Points
  BY <1>0 DEF At, Points, GrantPoints
<1>2. PICK c : c = Cleared(w)
  OBVIOUS
<1>3. c \in Locals /\ Same(c, k) /\ c.try = 1
  <2>1. c = ClearedTo(k, k.pc, 1)
    BY <1>0, <1>2 DEF Cleared, ClearedTo, Locals
  <2> QED
    BY <1>1, <2>1, ClearedIs
<1>4. PICK b \in BOOLEAN : b = BlindWrite(work[w].access)
  BY Zenon DEF BlindWrite
<1>5. n = [c EXCEPT !.pc = "gAcl", !.blind = b]
  BY <1>2, <1>4, Zenon DEF Written
<1>6. n \in Locals
  BY <1>1, <1>3, <1>5 DEF Locals
<1>7. n.pc = "gAcl" /\ n.try = 1
  BY <1>3, <1>5 DEF Locals
<1>8. Same(n, k)
  BY <1>3, <1>5 DEF Locals, Same, Call
<1>9. b => n.blind
  BY <1>3, <1>5 DEF Locals
<1>10. 1 \in 1..AclAttempts
  BY AccessAssumption
<1>11. LocalOK(o, n)
  BY <1>0, <1>1, <1>7, <1>8, <1>10 DEF LocalOK, Same, Call, UserPoints, KeyPoints, DropPoints,
     PutPolicyPoints, PutAclPoints, CleanPoints
<1>12. Onto(w, n)
  BY <1>0, <1>1, <1>7, <1>8 DEF Onto, Same, GrantPoints, RevokePoints, CleanPoints
<1>13. BlindWrite(work[w].access) => n.blind
  BY <1>4, <1>9, Zenon
<1> QED
  BY <1>0, <1>6, <1>7, <1>8, <1>11, <1>12, <1>13

\* A handler that waits for its answer is where it was.
LEMMA StaysIs ==
    ASSUME NEW o \in Owners, Base(o), NEW w \in Workers
    PROVE  work[w] \in Locals /\ LocalOK(o, work[w]) /\ Onto(w, work[w]) /\ Same(work[w], work[w])
BY DEF Base, Onto, Same, Call

\* A grant writes the policy.
LEMMA GrantPutPolicyIs ==
    ASSUME NEW o \in Owners, Base(o), NEW w \in Workers, At(w, "gPutPolicy"), GrantPolicy(w)
    PROVE  \E m : \E n \in Locals :
             /\ Sent(w, m, n) /\ LocalOK(o, n) /\ Onto(w, n) /\ Same(n, work[w]) /\ m.op = "policy"
             /\ \/ n = work[w] /\ UNCHANGED core /\ late' = late \cup {m}
                \/ n.pc = "gAcl" /\ Taken(m) /\ (BlindWrite(work[w].access) => n.blind)
                \/ n.pc \in {"cOwn", "gPolicy"} /\ Commit(m) /\ late' = late
<1>0. PICK k \in Locals : k = work[w] /\ LocalOK(o, k)
  BY DEF Base
<1>1. k.pc = "gPutPolicy"
  BY <1>0 DEF At
<1>2. PICK m : m = [op |-> "policy", access |-> work[w].access, stmts |-> StatementsToPut(w),
                    etag |-> work[w].etag]
  OBVIOUS
<1>3. m.op = "policy" /\ Sends(w, m)
  BY <1>0, <1>1, <1>2 DEF Sends, At, PutPolicyPoints
<1>4. Answer(m) \in {"missing", "stale", "ok"}
  BY <1>3 DEF Answer
<1>5. UNCHANGED hist /\
      Send(w, m, [ok |-> Written(w), missing |-> Undo(w),
                  stale |-> Again(w, "gPolicy", PolicyAttempts, Undo(w)), lost |-> work[w]])
  BY <1>0, <1>1, <1>2 DEF GrantPolicy, GetPolicy, At, PutPolicy, StatementsToPut, Written
<1>6. \/ UNCHANGED core /\ late' = late \cup {m} /\ work' = [work EXCEPT ![w] = work[w]]
      \/ /\ Commit(m) /\ late' = late
         /\ \/ Answer(m) = "ok" /\ work' = [work EXCEPT ![w] = Written(w)]
            \/ work' = [work EXCEPT ![w] = Undo(w)]
            \/ work[w].try < PolicyAttempts /\ work' = [work EXCEPT ![w] = NextTry(w, "gPolicy")]
  BY <1>4, <1>5 DEF Send, Again, NextTry
<1>7. CASE UNCHANGED core /\ late' = late \cup {m} /\ work' = [work EXCEPT ![w] = work[w]]
  BY <1>3, <1>5, <1>7, StaysIs DEF Sent
<1>8. CASE /\ Commit(m) /\ late' = late /\ Answer(m) = "ok"
           /\ work' = [work EXCEPT ![w] = Written(w)]
  <2>1. PICK n : n = Written(w)
    OBVIOUS
  <2>2. n \in Locals /\ LocalOK(o, n) /\ Onto(w, n) /\ Same(n, work[w]) /\ n.pc = "gAcl"
       /\ (BlindWrite(work[w].access) => n.blind)
    BY <2>1, WrittenIs
  <2>3. Sent(w, m, n)
    BY <1>3, <1>5, <1>8, <2>1 DEF Sent
  <2>4. Taken(m)
    BY <1>8 DEF Commit, Taken
  <2> QED
    BY <1>3, <2>2, <2>3, <2>4
<1>9. CASE Commit(m) /\ late' = late /\ work' = [work EXCEPT ![w] = Undo(w)]
  <2>1. PICK n : n = Undo(w)
    OBVIOUS
  <2>2. n \in Locals /\ LocalOK(o, n) /\ Onto(w, n) /\ Same(n, work[w]) /\ n.pc = "cOwn"
    BY <1>0, <1>1, <2>1, UndoIs
  <2>3. Sent(w, m, n)
    BY <1>3, <1>5, <1>9, <2>1 DEF Sent
  <2> QED
    BY <1>3, <1>9, <2>2, <2>3
<1>10. CASE /\ Commit(m) /\ late' = late /\ work[w].try < PolicyAttempts
            /\ work' = [work EXCEPT ![w] = NextTry(w, "gPolicy")]
  <2>1. PICK n : n = NextTry(w, "gPolicy")
    OBVIOUS
  <2>a. Retries(w, "gPolicy")
    BY <1>10 DEF Retries
  <2>2. n \in Locals /\ LocalOK(o, n) /\ Onto(w, n) /\ Same(n, work[w]) /\ n.pc = "gPolicy"
    BY <2>1, <2>a, AgainIs
  <2>3. Sent(w, m, n)
    BY <1>3, <1>5, <1>10, <2>1 DEF Sent
  <2> QED
    BY <1>3, <1>10, <2>2, <2>3
<1> QED
  BY <1>6, <1>7, <1>8, <1>9, <1>10

\* A grant reads the ACL, and has nothing to write if its entry is there.
LEMMA GrantGetAclIs ==
    ASSUME NEW o \in Owners, Base(o), NEW w \in Workers, At(w, "gAcl"), GrantAcl(w)
    PROVE  \E n \in Locals :
             /\ Moved(w, n) /\ LocalOK(o, n) /\ Onto(w, n) /\ Same(n, work[w])
             /\ (work[w].blind => n.blind)
             /\ \/ n.pc \in {"cOwn", "gPutAcl"}
                \/ n.pc = "gDone" /\ HasExactGrant(w)
<1>0. PICK k \in Locals : k = work[w] /\ LocalOK(o, k)
  BY DEF Base
<1>1. k.pc = "gAcl" /\ "gPutAcl" \in Points
  BY <1>0 DEF At, Points, GrantPoints
<1>2. \/ Move(w, Undo(w))
      \/ HasExactGrant(w) /\ Move(w, NextStore(w, "gDone"))
      \/ Move(w, [work[w] EXCEPT !.pc = "gPutAcl", !.etag = acl.etag, !.entries = acl.entries])
  BY DEF GrantAcl, At, NextStore
<1>3. CASE Move(w, Undo(w))
  <2>1. PICK n : n = Undo(w)
    OBVIOUS
  <2>2. n \in Locals /\ LocalOK(o, n) /\ Onto(w, n) /\ Same(n, work[w]) /\ n.pc = "cOwn" /\ (work[w].blind => n.blind)
    BY <1>0, <1>1, <2>1, UndoIs
  <2> QED
    BY <1>3, <2>1, <2>2 DEF Move, Moved
<1>4. CASE HasExactGrant(w) /\ Move(w, NextStore(w, "gDone"))
  <2>1. PICK n : n = NextStore(w, "gDone")
    OBVIOUS
  <2>2. n \in Locals /\ LocalOK(o, n) /\ Onto(w, n) /\ Same(n, work[w]) /\ n.pc = "gDone" /\ (work[w].blind => n.blind)
    BY <1>0, <1>1, <2>1, NextStoreIs
  <2> QED
    BY <1>4, <2>1, <2>2 DEF Move, Moved
<1>5. CASE Move(w, [work[w] EXCEPT !.pc = "gPutAcl", !.etag = acl.etag, !.entries = acl.entries])
  <2>0. acl.etag \in Nat \ {0} /\ acl.entries \subseteq Grant /\ AclRead(acl.etag, acl.entries)
    BY DEF Base, CoreTypes, AclRead
  <2>1. PICK n : n = [k EXCEPT !.pc = "gPutAcl", !.etag = acl.etag, !.entries = acl.entries]
    OBVIOUS
  <2>2. n \in Locals
    BY <1>1, <2>0, <2>1 DEF Locals
  <2>3. /\ n.pc = "gPutAcl" /\ Same(n, k) /\ n.try = k.try
        /\ n.etag = acl.etag /\ n.entries = acl.entries
    BY <1>1, <2>0, <2>1 DEF Locals, Same, Call
  <2>7. k.blind => n.blind
    BY <1>1, <2>0, <2>1 DEF Locals
  <2>4. Moved(w, n)
    BY <1>0, <1>5, <2>1 DEF Move, Moved
  <2>5. LocalOK(o, n)
    BY <1>0, <1>1, <2>0, <2>3 DEF LocalOK, Same, Call, UserPoints, KeyPoints, DropPoints,
       PutPolicyPoints, PutAclPoints, CleanPoints
  <2>6. Onto(w, n)
    BY <1>0, <1>1, <2>3 DEF Onto, Same, GrantPoints, RevokePoints, CleanPoints
  <2> QED
    BY <1>0, <2>2, <2>3, <2>4, <2>5, <2>6, <2>7
<1> QED
  BY <1>2, <1>3, <1>4, <1>5

\* A grant writes the ACL.
LEMMA GrantPutAclIs ==
    ASSUME NEW o \in Owners, Base(o), NEW w \in Workers, At(w, "gPutAcl"), GrantAcl(w)
    PROVE  \E m : \E n \in Locals :
             /\ Sent(w, m, n) /\ LocalOK(o, n) /\ Onto(w, n) /\ Same(n, work[w]) /\ m.op = "acl"
             /\ (work[w].blind => n.blind)
             /\ \/ n = work[w] /\ UNCHANGED core /\ late' = late \cup {m}
                \/ n.pc = "gDone" /\ Taken(m)
                \/ n.pc \in {"cOwn", "gAcl"} /\ Commit(m) /\ late' = late
<1>0. PICK k \in Locals : k = work[w] /\ LocalOK(o, k)
  BY DEF Base
<1>1. k.pc = "gPutAcl"
  BY <1>0 DEF At
<1>2. PICK m : m = [op |-> "acl", access |-> work[w].access, entries |-> EntriesToPut(w),
                    etag |-> work[w].etag]
  OBVIOUS
<1>3. m.op = "acl" /\ Sends(w, m)
  BY <1>0, <1>1, <1>2 DEF Sends, At, PutAclPoints
<1>4. Answer(m) \in {"missing", "stale", "ok"}
  BY <1>3 DEF Answer
<1>5. UNCHANGED hist /\
      Send(w, m, [ok |-> NextStore(w, "gDone"), missing |-> Undo(w),
                  stale |-> Again(w, "gAcl", AclAttempts, Undo(w)), lost |-> work[w]])
  BY <1>0, <1>1, <1>2 DEF GrantAcl, At, PutAcl, EntriesToPut, Exact, NextStore
<1>6. \/ UNCHANGED core /\ late' = late \cup {m} /\ work' = [work EXCEPT ![w] = work[w]]
      \/ /\ Commit(m) /\ late' = late
         /\ \/ Answer(m) = "ok" /\ work' = [work EXCEPT ![w] = NextStore(w, "gDone")]
            \/ work' = [work EXCEPT ![w] = Undo(w)]
            \/ work[w].try < AclAttempts /\ work' = [work EXCEPT ![w] = NextTry(w, "gAcl")]
  BY <1>4, <1>5 DEF Send, Again, NextTry
<1>7. CASE UNCHANGED core /\ late' = late \cup {m} /\ work' = [work EXCEPT ![w] = work[w]]
  BY <1>3, <1>5, <1>7, StaysIs DEF Sent
<1>8. CASE /\ Commit(m) /\ late' = late /\ Answer(m) = "ok"
           /\ work' = [work EXCEPT ![w] = NextStore(w, "gDone")]
  <2>1. PICK n : n = NextStore(w, "gDone")
    OBVIOUS
  <2>2. n \in Locals /\ LocalOK(o, n) /\ Onto(w, n) /\ Same(n, work[w]) /\ n.pc = "gDone" /\ (work[w].blind => n.blind)
    BY <1>0, <1>1, <2>1, NextStoreIs
  <2>3. Sent(w, m, n)
    BY <1>3, <1>5, <1>8, <2>1 DEF Sent
  <2>4. Taken(m)
    BY <1>8 DEF Commit, Taken
  <2> QED
    BY <1>3, <2>2, <2>3, <2>4
<1>9. CASE Commit(m) /\ late' = late /\ work' = [work EXCEPT ![w] = Undo(w)]
  <2>1. PICK n : n = Undo(w)
    OBVIOUS
  <2>2. n \in Locals /\ LocalOK(o, n) /\ Onto(w, n) /\ Same(n, work[w]) /\ n.pc = "cOwn" /\ (work[w].blind => n.blind)
    BY <1>0, <1>1, <2>1, UndoIs
  <2>3. Sent(w, m, n)
    BY <1>3, <1>5, <1>9, <2>1 DEF Sent
  <2> QED
    BY <1>3, <1>9, <2>2, <2>3
<1>10. CASE /\ Commit(m) /\ late' = late /\ work[w].try < AclAttempts
            /\ work' = [work EXCEPT ![w] = NextTry(w, "gAcl")]
  <2>1. PICK n : n = NextTry(w, "gAcl")
    OBVIOUS
  <2>a. Retries(w, "gAcl")
    BY <1>10 DEF Retries
  <2>2. n \in Locals /\ LocalOK(o, n) /\ Onto(w, n) /\ Same(n, work[w]) /\ n.pc = "gAcl" /\ (work[w].blind => n.blind)
    BY <2>1, <2>a, AgainIs
  <2>3. Sent(w, m, n)
    BY <1>3, <1>5, <1>10, <2>1 DEF Sent
  <2> QED
    BY <1>3, <1>10, <2>2, <2>3
<1> QED
  BY <1>6, <1>7, <1>8, <1>9, <1>10

\* Where a revoke goes on that has stores left to clean up.
LEMMA OnwardIs ==
    ASSUME NEW c \in Locals, NEW n, n = Onward(c)
    PROVE  /\ n \in Locals /\ Same(n, c) /\ Flags(n, c) /\ n.try = c.try
           /\ \/ n.pc = "rPolicy" /\ c.pol
              \/ n.pc = "rAcl" /\ ~c.pol /\ c.dir
              \/ n.pc = "rDelUser" /\ ~c.pol /\ ~c.dir /\ c.own
              \/ n.pc = "rDone" /\ ~c.pol /\ ~c.dir /\ ~c.own
<1>1. PICK p : /\ n = [c EXCEPT !.pc = p]
               /\ \/ p = "rPolicy" /\ c.pol
                  \/ p = "rAcl" /\ ~c.pol /\ c.dir
                  \/ p = "rDelUser" /\ ~c.pol /\ ~c.dir /\ c.own
                  \/ p = "rDone" /\ ~c.pol /\ ~c.dir /\ ~c.own
  BY DEF Onward
<1>2. p \in Points
  BY <1>1 DEF Points, RevokePoints
<1>3. n \in Locals /\ n.pc = p /\ Same(n, c) /\ Flags(n, c) /\ n.try = c.try
  BY <1>1, <1>2, GoIs
<1> QED
  BY <1>1, <1>3

\* A revoke is done with the policy, with the ACL.
PolicyDone(w) == [Cleared(w) EXCEPT !.pol = FALSE]

AclDone(w) == [Cleared(w) EXCEPT !.dir = FALSE]

\* A revoke is done with the policy.
LEMMA PolicyDoneIs ==
    ASSUME NEW w, NEW k \in Locals, k = work[w], NEW c, c = PolicyDone(w)
    PROVE  /\ c \in Locals /\ Same(c, k) /\ c.try = 1 /\ ~c.pol
           /\ (c.own => k.own) /\ (k.own => c.own) /\ (c.dir => k.dir) /\ (k.dir => c.dir)
<1>1. c \in Locals
  BY NobodyType DEF Locals, PolicyDone, Cleared
<1>2. Same(c, k) /\ c.try = 1
  BY NobodyType DEF Locals, Same, Call, PolicyDone, Cleared
<1>3. /\ ~c.pol
      /\ (c.own => k.own) /\ (k.own => c.own) /\ (c.dir => k.dir) /\ (k.dir => c.dir)
  BY NobodyType DEF Locals, PolicyDone, Cleared
<1> QED
  BY <1>1, <1>2, <1>3

\* A revoke is done with the ACL.
LEMMA AclDoneIs ==
    ASSUME NEW w, NEW k \in Locals, k = work[w], NEW c, c = AclDone(w)
    PROVE  /\ c \in Locals /\ Same(c, k) /\ c.try = 1 /\ ~c.dir
           /\ (c.own => k.own) /\ (k.own => c.own) /\ (c.pol => k.pol) /\ (k.pol => c.pol)
<1>1. c \in Locals
  BY NobodyType DEF Locals, AclDone, Cleared
<1>2. Same(c, k) /\ c.try = 1
  BY NobodyType DEF Locals, Same, Call, AclDone, Cleared
<1>3. /\ ~c.dir
      /\ (c.own => k.own) /\ (k.own => c.own) /\ (c.pol => k.pol) /\ (k.pol => c.pol)
  BY NobodyType DEF Locals, AclDone, Cleared
<1> QED
  BY <1>1, <1>2, <1>3

\* What is known of a revoke that goes on with the next store.
LEMMA RevokeGoesOn ==
    ASSUME NEW o \in Owners, Base(o), NEW w \in Workers, NEW k \in Locals, k = work[w],
           k.pc \in RevokePoints, NEW n \in Locals, Same(n, k), n.try = 1,
           n.pc \in {"rAttrs", "rPolicy", "rAcl", "rDelUser", "rDone"}
    PROVE  LocalOK(o, n) /\ Onto(w, n)
<1>1. LocalOK(o, k) /\ 1 \in 1..PolicyAttempts /\ 1 \in 1..AclAttempts
  BY AccessAssumption DEF Base
<1>2. LocalOK(o, n)
  BY <1>1 DEF LocalOK, Same, Call, UserPoints, KeyPoints, DropPoints,
     PutPolicyPoints, PutAclPoints, CleanPoints, RevokePoints
<1>3. Onto(w, n)
  BY DEF Onto, Same, Call, GrantPoints, RevokePoints, CleanPoints
<1> QED
  BY <1>2, <1>3

\* The user of a revoke is looked up by name.
LEMMA RevokeUserIs ==
    ASSUME NEW o \in Owners, Base(o), NEW w \in Workers, RevokeUser(w)
    PROVE  \E n \in Locals :
             /\ Moved(w, n) /\ LocalOK(o, n) /\ Onto(w, n) /\ Call(n, work[w])
             /\ \/ n.pc = "rList" /\ (n.own \/ users[n.access] # n.id)
                \/ n.pc = "rBucket" /\ n.id = 0
             /\ RootOf[n.access] = 0 /\ n.id # 0 => n.own
<1>0. PICK k \in Locals : k = work[w] /\ LocalOK(o, k)
  BY DEF Base
<1>1. k.pc = "rUser" /\ k.access \in Accesses
  BY <1>0 DEF RevokeUser, At, Locals
<1>2. PICK u \in Nat : u = User(w) /\ u = users[k.access]
  BY <1>0, <1>1 DEF Base, CoreTypes, User
<1>3. CASE ~Legacy(w)
  <2>1. PICK b \in BOOLEAN : b = (u = k.id)
    BY Zenon
  <2>2. PICK n : n = [k EXCEPT !.own = b, !.pc = "rList"]
    OBVIOUS
  <2>3. "rList" \in Points
    BY DEF Points, RevokePoints
  <2>4. n \in Locals
    BY <2>1, <2>2, <2>3 DEF Locals
  <2>5. n.pc = "rList" /\ Same(n, k) /\ n.try = k.try
    BY <2>1, <2>2, <2>3 DEF Locals, Same, Call
  <2>6. n.own \/ u # n.id
    <3>1. n.own \/ ~b
      BY <2>1, <2>2, <2>3 DEF Locals
    <3> QED
      BY <2>1, <2>5, <3>1 DEF Same
  <2>7. Moved(w, n)
    <3>1. work' = [work EXCEPT ![w] = [work[w] EXCEPT !.own = (User(w) = work[w].id), !.pc = "rList"]]
          /\ UNCHANGED <<core, late, hist>>
      BY <1>3 DEF RevokeUser, Move
    <3>2. b = (User(w) = work[w].id)
      BY <1>0, <1>2, <2>1, Zenon
    <3>3. n = [work[w] EXCEPT !.own = (User(w) = work[w].id), !.pc = "rList"]
      BY <1>0, <2>2, <3>2, Zenon
    <3> QED
      BY <3>1, <3>3, Zenon DEF Moved
  <2>8. LocalOK(o, n)
    BY <1>0, <1>1, <2>5 DEF LocalOK, Same, Call, UserPoints, KeyPoints, DropPoints,
       PutPolicyPoints, PutAclPoints, CleanPoints
  <2>9. Onto(w, n)
    BY <1>0, <1>1, <2>5 DEF Onto, Same, GrantPoints, RevokePoints, CleanPoints
  <2>10. RootOf[n.access] # 0
    BY <1>0, <1>3, <2>5 DEF Legacy, Same, Call
  <2> QED
    BY <1>0, <1>2, <2>4, <2>5, <2>6, <2>7, <2>8, <2>9, <2>10 DEF Same, Call
<1>4. CASE Legacy(w)
  <2>0. PICK q : q = (IF u = 0 THEN "rBucket" ELSE "rList")
    OBVIOUS
  <2>1. PICK b \in BOOLEAN : b = (u # 0)
    BY Zenon
  <2>2. PICK n : n = [k EXCEPT !.id = u, !.own = b, !.pc = q]
    OBVIOUS
  <2>3. q \in Points /\ q \in {"rBucket", "rList"}
    BY <2>0 DEF Points, RevokePoints
  <2>4. n \in Locals
    BY <2>1, <2>2, <2>3 DEF Locals
  <2>5. n.pc = q /\ Call(n, k) /\ n.try = k.try /\ n.id = u /\ n.key = k.key
    BY <2>1, <2>2, <2>3 DEF Locals, Call
  <2>6. n.own \/ u = 0
    <3>1. n.own \/ ~b
      BY <2>1, <2>2, <2>3 DEF Locals
    <3> QED
      BY <2>1, <3>1
  <2>7. Moved(w, n)
    <3>1. work' = [work EXCEPT ![w] = [work[w] EXCEPT !.id = User(w), !.own = User(w) # 0,
                                    !.pc = IF User(w) = 0 THEN "rBucket" ELSE "rList"]]
          /\ UNCHANGED <<core, late, hist>>
      BY <1>4 DEF RevokeUser, Move
    <3>2. n = [work[w] EXCEPT !.id = User(w), !.own = User(w) # 0,
                                    !.pc = IF User(w) = 0 THEN "rBucket" ELSE "rList"]
      BY <1>0, <1>2, <2>0, <2>1, <2>2, Zenon
    <3> QED
      BY <3>1, <3>2, Zenon DEF Moved
  <2>8. LocalOK(o, n)
    <3>1. n.id # 0 => UserOf(o, n.id, n.access)
      BY <1>1, <1>2, <2>5 DEF Base, CoreOK, Call
    <3>2. n.id < next.user
      BY <1>0, <2>5, <3>1 DEF UserOf, Base, CoreTypes
    <3> QED
      BY <1>0, <1>1, <2>3, <2>5, <3>1, <3>2 DEF LocalOK, Call, UserPoints, KeyPoints, DropPoints,
         PutPolicyPoints, PutAclPoints, CleanPoints
  <2>9. Onto(w, n)
    BY <1>0, <1>1, <1>2, <1>4, <2>3, <2>5 DEF Onto, GrantPoints, RevokePoints, CleanPoints, Legacy
  <2> QED
    BY <1>0, <1>2, <2>0, <2>4, <2>5, <2>6, <2>7, <2>8, <2>9
<1> QED
  BY <1>3, <1>4


\* The bucket of a revoke is looked up, its directory compared.
LEMMA RevokeBucketIs ==
    ASSUME NEW o \in Owners, Base(o), NEW w \in Workers, RevokeBucket(w)
    PROVE  \E n \in Locals :
             /\ Moved(w, n) /\ LocalOK(o, n) /\ Onto(w, n) /\ Same(n, work[w])
             /\ n.own => work[w].own
             /\ work[w].own => n.own
             /\ n.pc = "rDone" => ~n.own
             /\ \/ /\ n.pc = "rAttrs" /\ At(w, "rBucket") /\ RootOf[work[w].access] # 0
                   /\ bucket.open => n.pol
                \/ /\ n.pc \in {"rPolicy", "rAcl", "rDelUser", "rDone"}
                   /\ At(w, "rBucket") /\ RootOf[work[w].access] = 0
                   /\ n.pc = "rPolicy" => bucket.open /\ (work[w].own => n.dir)
                   /\ n.pc # "rPolicy" => ~bucket.open
                \/ /\ n.pc \in {"rPolicy", "rAcl", "rDelUser", "rDone"} /\ At(w, "rAttrs")
                   /\ n.pc = "rPolicy" => n.dir
                   /\ n.pc = "rAcl" => ~work[w].pol \/ bucket.root # RootOf[work[w].access]
                   /\ n.pc \in {"rDelUser", "rDone"} => bucket.root # RootOf[work[w].access]
<1>0. PICK k \in Locals : k = work[w] /\ LocalOK(o, k)
  BY DEF Base
<1>1. k.pc \in {"rBucket", "rAttrs"} /\ k.pc \in RevokePoints /\ k.try = 1
  BY <1>0 DEF RevokeBucket, At, RevokePoints, LocalOK, PutPolicyPoints, PutAclPoints
<1>a. bucket.open \in BOOLEAN
  BY DEF Base, CoreTypes
<1>2. CASE /\ At(w, "rBucket") /\ ~Legacy(w)
           /\ Move(w, [work[w] EXCEPT !.pol = bucket.open, !.pc = "rAttrs"])
  <2>1. PICK b \in BOOLEAN : b = bucket.open
    BY <1>a
  <2>2. PICK n : n = [k EXCEPT !.pol = b, !.pc = "rAttrs"]
    OBVIOUS
  <2>3. "rAttrs" \in Points
    BY DEF Points, RevokePoints
  <2>4. n \in Locals
    BY <2>1, <2>2, <2>3 DEF Locals
  <2>5. n.pc = "rAttrs" /\ Same(n, k) /\ n.try = k.try
    BY <2>1, <2>2, <2>3 DEF Locals, Same, Call
  <2>6. /\ (n.own => k.own) /\ (k.own => n.own) /\ (bucket.open => n.pol)
    BY <2>1, <2>2, <2>3 DEF Locals
  <2>7. Moved(w, n)
    BY <1>0, <1>2, <2>1, <2>2, Zenon DEF Moved, Move
  <2>8. LocalOK(o, n) /\ Onto(w, n)
    BY <1>0, <1>1, <2>4, <2>5, RevokeGoesOn
  <2> QED
    BY <1>0, <1>2, <2>4, <2>5, <2>6, <2>7, <2>8 DEF Legacy
<1>3. CASE /\ At(w, "rBucket") /\ Legacy(w)
           /\ Move(w, Onward([work[w] EXCEPT !.pol = bucket.open,
                                             !.dir = bucket.open /\ work[w].own]))
  <2>1. PICK b \in BOOLEAN : b = bucket.open
    BY <1>a
  <2>a. k.own \in BOOLEAN
    BY DEF Locals
  <2>b. PICK d \in BOOLEAN : d = (bucket.open /\ work[w].own)
    BY <1>a, <2>a, Zenon
  <2>2. PICK c : c = [k EXCEPT !.pol = b, !.dir = d]
    OBVIOUS
  <2>3. c \in Locals
    BY <2>1, <2>b, <2>2 DEF Locals
  <2>4. Same(c, k) /\ c.try = k.try
    BY <2>1, <2>b, <2>2 DEF Locals, Same, Call
  <2>5. /\ (c.own => k.own) /\ (k.own => c.own) /\ (c.pol => b) /\ (b => c.pol)
        /\ (c.dir => d) /\ (d => c.dir)
    BY <2>1, <2>b, <2>2 DEF Locals
  <2>6. PICK n : n = Onward(c)
    OBVIOUS
  <2>7. /\ n \in Locals /\ Same(n, c) /\ Flags(n, c) /\ n.try = c.try
        /\ \/ n.pc = "rPolicy" /\ c.pol
           \/ n.pc = "rAcl" /\ ~c.pol /\ c.dir
           \/ n.pc = "rDelUser" /\ ~c.pol /\ ~c.dir /\ c.own
           \/ n.pc = "rDone" /\ ~c.pol /\ ~c.dir /\ ~c.own
    BY <2>3, <2>6, OnwardIs
  <2>8. Same(n, k) /\ n.try = 1 /\ (n.own => k.own) /\ (k.own => n.own)
        /\ n.pc \in {"rPolicy", "rAcl", "rDelUser", "rDone"}
    BY <1>1, <2>4, <2>5, <2>7 DEF Same, Call, Flags
  <2>9. LocalOK(o, n) /\ Onto(w, n)
    BY <1>0, <1>1, <2>7, <2>8, RevokeGoesOn
  <2>10. Moved(w, n)
    BY <1>0, <1>3, <2>1, <2>b, <2>2, <2>6, Zenon DEF Moved, Move
  <2>c. bucket.open /\ k.own => d
    BY <1>0, <2>b
  <2>11. /\ n.pc = "rPolicy" => bucket.open /\ (k.own => n.dir)
         /\ n.pc # "rPolicy" => ~bucket.open
         /\ n.pc = "rDone" => ~n.own
    BY <2>1, <2>5, <2>7, <2>c DEF Flags
  <2> QED
    BY <1>0, <1>3, <2>7, <2>8, <2>9, <2>10, <2>11 DEF Legacy
<1>4. CASE /\ At(w, "rAttrs")
           /\ Move(w, Onward([work[w] EXCEPT !.pol = @ /\ bucket.root = RootOf[work[w].access],
                                             !.dir = bucket.root = RootOf[work[w].access]]))
  <2>1. PICK d \in BOOLEAN : d = (bucket.root = RootOf[work[w].access])
    BY Zenon
  <2>a. k.pol \in BOOLEAN
    BY DEF Locals
  <2>b. PICK b \in BOOLEAN : b = (k.pol /\ bucket.root = RootOf[work[w].access])
    BY <2>a, Zenon
  <2>2. PICK c : c = [k EXCEPT !.pol = b, !.dir = d]
    OBVIOUS
  <2>3. c \in Locals
    BY <2>1, <2>b, <2>2 DEF Locals
  <2>4. Same(c, k) /\ c.try = k.try
    BY <2>1, <2>b, <2>2 DEF Locals, Same, Call
  <2>5. /\ (c.own => k.own) /\ (k.own => c.own) /\ (c.pol => b) /\ (b => c.pol)
        /\ (c.dir => d) /\ (d => c.dir)
    BY <2>1, <2>b, <2>2 DEF Locals
  <2>6. PICK n : n = Onward(c)
    OBVIOUS
  <2>7. /\ n \in Locals /\ Same(n, c) /\ Flags(n, c) /\ n.try = c.try
        /\ \/ n.pc = "rPolicy" /\ c.pol
           \/ n.pc = "rAcl" /\ ~c.pol /\ c.dir
           \/ n.pc = "rDelUser" /\ ~c.pol /\ ~c.dir /\ c.own
           \/ n.pc = "rDone" /\ ~c.pol /\ ~c.dir /\ ~c.own
    BY <2>3, <2>6, OnwardIs
  <2>8. Same(n, k) /\ n.try = 1 /\ (n.own => k.own) /\ (k.own => n.own)
        /\ n.pc \in {"rPolicy", "rAcl", "rDelUser", "rDone"}
    BY <1>1, <2>4, <2>5, <2>7 DEF Same, Call, Flags
  <2>9. LocalOK(o, n) /\ Onto(w, n)
    BY <1>0, <1>1, <2>7, <2>8, RevokeGoesOn
  <2>10. Moved(w, n)
    <3>1. c = [work[w] EXCEPT !.pol = @ /\ bucket.root = RootOf[work[w].access],
                              !.dir = bucket.root = RootOf[work[w].access]]
      BY <1>0, <2>1, <2>b, <2>2, Zenon
    <3> QED
      BY <1>4, <2>6, <3>1, Zenon DEF Moved, Move
  <2>c. /\ d => bucket.root = RootOf[work[w].access]
        /\ bucket.root = RootOf[work[w].access] => d
        /\ b => d
        /\ bucket.root = RootOf[work[w].access] /\ k.pol => b
    BY <2>1, <2>b, Zenon
  <2>11. /\ n.pc = "rPolicy" => n.dir
         /\ n.pc = "rAcl" => ~work[w].pol \/ bucket.root # RootOf[work[w].access]
         /\ n.pc \in {"rDelUser", "rDone"} => bucket.root # RootOf[work[w].access]
         /\ n.pc = "rDone" => ~n.own
    BY <1>0, <2>5, <2>7, <2>c DEF Flags
  <2> QED
    BY <1>0, <1>4, <2>7, <2>8, <2>9, <2>10, <2>11
<1> QED
  BY <1>2, <1>3, <1>4, Zenon DEF RevokeBucket

\* A revoke writes the policy.
LEMMA RevokePutPolicyIs ==
    ASSUME NEW o \in Owners, Base(o), NEW w \in Workers, At(w, "rPutPolicy"), RevokePolicy(w)
    PROVE  \E m : \E n \in Locals :
             /\ Sent(w, m, n) /\ LocalOK(o, n) /\ m.op = "policy"
             /\ \/ Over(w, n)
                \/ /\ Onto(w, n) /\ Same(n, work[w])
                   /\ n.own => work[w].own
                   /\ work[w].own => n.own
                   /\ \/ n = work[w] /\ UNCHANGED core /\ late' = late \cup {m}
                      \/ /\ n.pc \in {"rAcl", "rDelUser", "rDone"}
                         /\ n.pc = "rDone" => ~n.own
                         /\ n.pc \in {"rDelUser", "rDone"} => ~work[w].dir
                         /\ Taken(m) \/ (~bucket.open /\ UNCHANGED core /\ late' = late)
                      \/ n.pc = "rPolicy" /\ Commit(m) /\ late' = late /\ (work[w].dir => n.dir)
<1>0. PICK k \in Locals : k = work[w] /\ LocalOK(o, k)
  BY DEF Base
<1>1. k.pc = "rPutPolicy" /\ k.pc \in RevokePoints
  BY <1>0 DEF At, RevokePoints
<1>2. PICK m : m = [op |-> "policy", access |-> work[w].access, stmts |-> StatementsToPut(w),
                    etag |-> work[w].etag]
  OBVIOUS
<1>3. m.op = "policy" /\ Sends(w, m)
  BY <1>0, <1>1, <1>2 DEF Sends, At, PutPolicyPoints
<1>4. Answer(m) \in {"missing", "stale", "ok"} /\ (Answer(m) = "missing" => ~bucket.open)
  BY <1>3 DEF Answer
<1>5. UNCHANGED hist /\
      Send(w, m, [ok |-> Onward(PolicyDone(w)), missing |-> Onward(PolicyDone(w)),
                  stale |-> Again(w, "rPolicy", PolicyAttempts, Idle), lost |-> work[w]])
  BY <1>0, <1>1, <1>2 DEF RevokePolicy, GetPolicy, At, PutPolicy, StatementsToPut, PolicyDone
<1>6. \/ UNCHANGED core /\ late' = late \cup {m} /\ work' = [work EXCEPT ![w] = work[w]]
      \/ /\ Commit(m) /\ late' = late
         /\ \/ Answer(m) \in {"ok", "missing"} /\ work' = [work EXCEPT ![w] = Onward(PolicyDone(w))]
            \/ work' = [work EXCEPT ![w] = Idle]
            \/ work[w].try < PolicyAttempts /\ work' = [work EXCEPT ![w] = NextTry(w, "rPolicy")]
  BY <1>4, <1>5 DEF Send, Again, NextTry
<1>7. CASE UNCHANGED core /\ late' = late \cup {m} /\ work' = [work EXCEPT ![w] = work[w]]
  BY <1>3, <1>5, <1>7, StaysIs DEF Sent
<1>8. CASE /\ Commit(m) /\ late' = late /\ Answer(m) \in {"ok", "missing"}
           /\ work' = [work EXCEPT ![w] = Onward(PolicyDone(w))]
  <2>1. PICK c : c = PolicyDone(w)
    OBVIOUS
  <2>2. /\ c \in Locals /\ Same(c, k) /\ c.try = 1 /\ ~c.pol
        /\ (c.own => k.own) /\ (k.own => c.own) /\ (c.dir => k.dir) /\ (k.dir => c.dir)
    BY <1>0, <2>1, PolicyDoneIs
  <2>3. PICK n : n = Onward(c)
    OBVIOUS
  <2>4. /\ n \in Locals /\ Same(n, c) /\ Flags(n, c) /\ n.try = c.try
        /\ \/ n.pc = "rPolicy" /\ c.pol
           \/ n.pc = "rAcl" /\ ~c.pol /\ c.dir
           \/ n.pc = "rDelUser" /\ ~c.pol /\ ~c.dir /\ c.own
           \/ n.pc = "rDone" /\ ~c.pol /\ ~c.dir /\ ~c.own
    BY <2>2, <2>3, OnwardIs
  <2>5. /\ Same(n, k) /\ n.try = 1 /\ (n.own => k.own) /\ (k.own => n.own)
        /\ n.pc \in {"rAcl", "rDelUser", "rDone"}
        /\ n.pc = "rDone" => ~n.own
        /\ n.pc \in {"rDelUser", "rDone"} => ~k.dir
    BY <2>2, <2>4 DEF Same, Call, Flags
  <2>6. LocalOK(o, n) /\ Onto(w, n)
    BY <1>0, <1>1, <2>4, <2>5, RevokeGoesOn
  <2>7. Sent(w, m, n)
    BY <1>3, <1>5, <1>8, <2>1, <2>3 DEF Sent
  <2>8. Taken(m) \/ (~bucket.open /\ UNCHANGED core /\ late' = late)
    BY <1>4, <1>8 DEF Taken, Commit
  <2> QED
    BY <1>0, <1>3, <2>4, <2>5, <2>6, <2>7, <2>8
<1>9. CASE Commit(m) /\ late' = late /\ work' = [work EXCEPT ![w] = Idle]
  <2>1. Sent(w, m, Idle)
    BY <1>3, <1>5, <1>9 DEF Sent
  <2> QED
    BY <1>3, <2>1, OverIs
<1>10. CASE /\ Commit(m) /\ late' = late /\ work[w].try < PolicyAttempts
            /\ work' = [work EXCEPT ![w] = NextTry(w, "rPolicy")]
  <2>1. PICK n : n = NextTry(w, "rPolicy")
    OBVIOUS
  <2>a. Retries(w, "rPolicy")
    BY <1>10 DEF Retries
  <2>2. /\ n \in Locals /\ LocalOK(o, n) /\ Onto(w, n) /\ Same(n, work[w]) /\ n.pc = "rPolicy"
        /\ Flags(n, work[w])
    BY <2>1, <2>a, AgainIs
  <2>3. Sent(w, m, n)
    BY <1>3, <1>5, <1>10, <2>1 DEF Sent
  <2> QED
    BY <1>3, <1>10, <2>2, <2>3 DEF Flags
<1> QED
  BY <1>6, <1>7, <1>8, <1>9, <1>10

\* A revoke reads the ACL, and has nothing to write if the user has no entry there.
LEMMA RevokeGetAclIs ==
    ASSUME NEW o \in Owners, Base(o), NEW w \in Workers, At(w, "rAcl"), RevokeAcl(w)
    PROVE  \E n \in Locals :
             /\ Moved(w, n) /\ LocalOK(o, n) /\ Onto(w, n) /\ Same(n, work[w])
             /\ n.own => work[w].own
             /\ work[w].own => n.own
             /\ n.pc \in {"rPutAcl", "rPolicy", "rDelUser", "rDone"}
             /\ n.pc = "rPolicy" => work[w].pol
             /\ n.pc = "rDone" => ~n.own
             /\ n.pc # "rPutAcl" => bucket.root = 0 \/ EntriesOf(work[w].id, acl.entries) = {}
<1>0. PICK k \in Locals : k = work[w] /\ LocalOK(o, k)
  BY DEF Base
<1>1. k.pc = "rAcl" /\ "rPutAcl" \in Points /\ k.pc \in RevokePoints
  BY <1>0 DEF At, Points, RevokePoints
<1>2. \/ /\ bucket.root = 0 \/ EntriesOf(work[w].id, acl.entries) = {}
         /\ Move(w, Onward(AclDone(w)))
      \/ Move(w, [work[w] EXCEPT !.pc = "rPutAcl", !.etag = acl.etag, !.entries = acl.entries])
  BY DEF RevokeAcl, At, AclDone
<1>3. CASE /\ bucket.root = 0 \/ EntriesOf(work[w].id, acl.entries) = {}
           /\ Move(w, Onward(AclDone(w)))
  <2>1. PICK c : c = AclDone(w)
    OBVIOUS
  <2>2. /\ c \in Locals /\ Same(c, k) /\ c.try = 1 /\ ~c.dir
        /\ (c.own => k.own) /\ (k.own => c.own) /\ (c.pol => k.pol) /\ (k.pol => c.pol)
    BY <1>0, <2>1, AclDoneIs
  <2>3. PICK n : n = Onward(c)
    OBVIOUS
  <2>4. /\ n \in Locals /\ Same(n, c) /\ Flags(n, c) /\ n.try = c.try
        /\ \/ n.pc = "rPolicy" /\ c.pol
           \/ n.pc = "rAcl" /\ ~c.pol /\ c.dir
           \/ n.pc = "rDelUser" /\ ~c.pol /\ ~c.dir /\ c.own
           \/ n.pc = "rDone" /\ ~c.pol /\ ~c.dir /\ ~c.own
    BY <2>2, <2>3, OnwardIs
  <2>5. /\ Same(n, k) /\ n.try = 1 /\ (n.own => k.own) /\ (k.own => n.own)
        /\ n.pc \in {"rPolicy", "rDelUser", "rDone"}
        /\ n.pc = "rDone" => ~n.own
        /\ n.pc = "rPolicy" => k.pol
    BY <2>2, <2>4 DEF Same, Call, Flags
  <2>6. LocalOK(o, n) /\ Onto(w, n)
    BY <1>0, <1>1, <2>4, <2>5, RevokeGoesOn
  <2>7. Moved(w, n)
    BY <1>3, <2>1, <2>3 DEF Move, Moved
  <2> QED
    BY <1>0, <1>3, <2>4, <2>5, <2>6, <2>7
<1>5. CASE Move(w, [work[w] EXCEPT !.pc = "rPutAcl", !.etag = acl.etag, !.entries = acl.entries])
  <2>0. acl.etag \in Nat \ {0} /\ acl.entries \subseteq Grant /\ AclRead(acl.etag, acl.entries)
    BY DEF Base, CoreTypes, AclRead
  <2>1. PICK n : n = [k EXCEPT !.pc = "rPutAcl", !.etag = acl.etag, !.entries = acl.entries]
    OBVIOUS
  <2>2. n \in Locals
    BY <1>1, <2>0, <2>1 DEF Locals
  <2>3. /\ n.pc = "rPutAcl" /\ Same(n, k) /\ n.try = k.try
        /\ n.etag = acl.etag /\ n.entries = acl.entries
    BY <1>1, <2>0, <2>1 DEF Locals, Same, Call
  <2>a. (n.own => k.own) /\ (k.own => n.own)
    BY <1>1, <2>0, <2>1 DEF Locals
  <2>4. Moved(w, n)
    BY <1>0, <1>5, <2>1 DEF Move, Moved
  <2>5. LocalOK(o, n)
    BY <1>0, <1>1, <2>0, <2>3 DEF LocalOK, Same, Call, UserPoints, KeyPoints, DropPoints,
       PutPolicyPoints, PutAclPoints, CleanPoints
  <2>6. Onto(w, n)
    BY <1>0, <1>1, <2>3 DEF Onto, Same, GrantPoints, RevokePoints, CleanPoints
  <2> QED
    BY <1>0, <2>2, <2>3, <2>a, <2>4, <2>5, <2>6
<1> QED
  BY <1>2, <1>3, <1>5

\* A revoke writes the ACL.
LEMMA RevokePutAclIs ==
    ASSUME NEW o \in Owners, Base(o), NEW w \in Workers, At(w, "rPutAcl"), RevokeAcl(w)
    PROVE  \E m : \E n \in Locals :
             /\ Sent(w, m, n) /\ LocalOK(o, n) /\ m.op = "acl"
             /\ \/ Over(w, n)
                \/ /\ Onto(w, n) /\ Same(n, work[w])
                   /\ n.own => work[w].own
                   /\ work[w].own => n.own
                   /\ \/ n = work[w] /\ UNCHANGED core /\ late' = late \cup {m}
                      \/ /\ n.pc \in {"rPolicy", "rDelUser", "rDone"}
                         /\ n.pc = "rPolicy" => work[w].pol
                         /\ n.pc = "rDone" => ~n.own
                         /\ Taken(m) \/ (bucket.root = 0 /\ UNCHANGED core /\ late' = late)
                      \/ n.pc = "rAcl" /\ Commit(m) /\ late' = late
<1>0. PICK k \in Locals : k = work[w] /\ LocalOK(o, k)
  BY DEF Base
<1>1. k.pc = "rPutAcl" /\ k.pc \in RevokePoints
  BY <1>0 DEF At, RevokePoints
<1>2. PICK m : m = [op |-> "acl", access |-> work[w].access, entries |-> EntriesToPut(w),
                    etag |-> work[w].etag]
  OBVIOUS
<1>3. m.op = "acl" /\ Sends(w, m)
  BY <1>0, <1>1, <1>2 DEF Sends, At, PutAclPoints
<1>4. Answer(m) \in {"missing", "stale", "ok"} /\ (Answer(m) = "missing" => bucket.root = 0)
  BY <1>3 DEF Answer
<1>a. EntriesToPut(w) = work[w].entries \ EntriesOf(work[w].id, work[w].entries)
  BY <1>0, <1>1 DEF EntriesToPut, At
<1>5. UNCHANGED hist /\
      Send(w, m, [ok |-> Onward(AclDone(w)), missing |-> Onward(AclDone(w)),
                  stale |-> Again(w, "rAcl", AclAttempts, Idle), lost |-> work[w]])
  BY <1>0, <1>1, <1>2, <1>a DEF RevokeAcl, At, PutAcl, AclDone
<1>6. \/ UNCHANGED core /\ late' = late \cup {m} /\ work' = [work EXCEPT ![w] = work[w]]
      \/ /\ Commit(m) /\ late' = late
         /\ \/ Answer(m) \in {"ok", "missing"} /\ work' = [work EXCEPT ![w] = Onward(AclDone(w))]
            \/ work' = [work EXCEPT ![w] = Idle]
            \/ work[w].try < AclAttempts /\ work' = [work EXCEPT ![w] = NextTry(w, "rAcl")]
  BY <1>4, <1>5 DEF Send, Again, NextTry
<1>7. CASE UNCHANGED core /\ late' = late \cup {m} /\ work' = [work EXCEPT ![w] = work[w]]
  BY <1>3, <1>5, <1>7, StaysIs DEF Sent
<1>8. CASE /\ Commit(m) /\ late' = late /\ Answer(m) \in {"ok", "missing"}
           /\ work' = [work EXCEPT ![w] = Onward(AclDone(w))]
  <2>1. PICK c : c = AclDone(w)
    OBVIOUS
  <2>2. /\ c \in Locals /\ Same(c, k) /\ c.try = 1 /\ ~c.dir
        /\ (c.own => k.own) /\ (k.own => c.own) /\ (c.pol => k.pol) /\ (k.pol => c.pol)
    BY <1>0, <2>1, AclDoneIs
  <2>3. PICK n : n = Onward(c)
    OBVIOUS
  <2>4. /\ n \in Locals /\ Same(n, c) /\ Flags(n, c) /\ n.try = c.try
        /\ \/ n.pc = "rPolicy" /\ c.pol
           \/ n.pc = "rAcl" /\ ~c.pol /\ c.dir
           \/ n.pc = "rDelUser" /\ ~c.pol /\ ~c.dir /\ c.own
           \/ n.pc = "rDone" /\ ~c.pol /\ ~c.dir /\ ~c.own
    BY <2>2, <2>3, OnwardIs
  <2>5. /\ Same(n, k) /\ n.try = 1 /\ (n.own => k.own) /\ (k.own => n.own)
        /\ n.pc \in {"rPolicy", "rDelUser", "rDone"}
        /\ n.pc = "rDone" => ~n.own
        /\ n.pc = "rPolicy" => k.pol
    BY <2>2, <2>4 DEF Same, Call, Flags
  <2>6. LocalOK(o, n) /\ Onto(w, n)
    BY <1>0, <1>1, <2>4, <2>5, RevokeGoesOn
  <2>7. Sent(w, m, n)
    BY <1>3, <1>5, <1>8, <2>1, <2>3 DEF Sent
  <2>8. Taken(m) \/ (bucket.root = 0 /\ UNCHANGED core /\ late' = late)
    BY <1>4, <1>8 DEF Taken, Commit
  <2> QED
    BY <1>0, <1>3, <2>4, <2>5, <2>6, <2>7, <2>8
<1>9. CASE Commit(m) /\ late' = late /\ work' = [work EXCEPT ![w] = Idle]
  <2>1. Sent(w, m, Idle)
    BY <1>3, <1>5, <1>9 DEF Sent
  <2> QED
    BY <1>3, <2>1, OverIs
<1>10. CASE /\ Commit(m) /\ late' = late /\ work[w].try < AclAttempts
            /\ work' = [work EXCEPT ![w] = NextTry(w, "rAcl")]
  <2>1. PICK n : n = NextTry(w, "rAcl")
    OBVIOUS
  <2>a. Retries(w, "rAcl")
    BY <1>10 DEF Retries
  <2>2. /\ n \in Locals /\ LocalOK(o, n) /\ Onto(w, n) /\ Same(n, work[w]) /\ n.pc = "rAcl"
        /\ Flags(n, work[w])
    BY <2>1, <2>a, AgainIs
  <2>3. Sent(w, m, n)
    BY <1>3, <1>5, <1>10, <2>1 DEF Sent
  <2> QED
    BY <1>3, <1>10, <2>2, <2>3 DEF Flags
<1> QED
  BY <1>6, <1>7, <1>8, <1>9, <1>10

\* A handler goes to a point at which nothing more is known than where it was.
LEMMA GoesTo ==
    ASSUME NEW o \in Owners, Base(o), NEW w \in Workers, NEW p, NEW n,
           <<work[w].pc, p>> \in {<<"gList", "gKey">>, <<"rList", "rBucket">>,
                                  <<"gKey", "cList">>, <<"rDelUser", "rDone">>},
           n = Go(w, p)
    PROVE  n \in Locals /\ LocalOK(o, n) /\ Onto(w, n) /\ Same(n, work[w]) /\ Flags(n, work[w])
           /\ n.pc = p
<1>0. PICK k \in Locals : k = work[w] /\ LocalOK(o, k)
  BY DEF Base
<1>1. /\ p \in Points
      /\ \/ k.pc = "gList" /\ p = "gKey"
         \/ k.pc = "rList" /\ p = "rBucket"
         \/ k.pc = "gKey" /\ p = "cList"
         \/ k.pc = "rDelUser" /\ p = "rDone"
  BY <1>0 DEF Points, GrantPoints, RevokePoints, CleanPoints
<1>2. n \in Locals /\ n.pc = p /\ Same(n, k) /\ Flags(n, k) /\ n.try = k.try
  BY <1>0, <1>1, GoIs DEF Go
<1>3. LocalOK(o, n)
  BY <1>0, <1>1, <1>2 DEF LocalOK, Same, Call, UserPoints, KeyPoints, DropPoints,
     PutPolicyPoints, PutAclPoints, CleanPoints
<1>4. Onto(w, n)
  BY <1>0, <1>1, <1>2 DEF Onto, Same, GrantPoints, RevokePoints, CleanPoints
<1> QED
  BY <1>0, <1>2, <1>3, <1>4

\* The keys of the user are listed, or there are none.
LEMMA ListKeysIs ==
    ASSUME NEW o \in Owners, Base(o), NEW w \in Workers, NEW at, NEW drop, NEW to,
           \/ /\ <<at, drop, to>> \in {<<"gList", "gDrop", "gKey">>, <<"rList", "rDrop", "rBucket">>}
              /\ ListKeys(w, at, drop, Go(w, to))
           \/ <<at, drop, to>> = <<"cList", "cDrop", "idle">> /\ ListKeys(w, at, drop, Idle)
    PROVE  \E n \in Locals :
             /\ Moved(w, n) /\ LocalOK(o, n)
             /\ \/ Over(w, n)
                \/ /\ Onto(w, n) /\ Same(n, work[w]) /\ Flags(n, work[w])
                   /\ \/ n.pc = drop /\ \A j \in KeysOf(work[w].id) : j.id \in n.todo
                      \/ n.pc = to /\ KeysOf(work[w].id) = {}
<1>0. At(w, at)
  BY DEF ListKeys
<1>1. CASE KeysOf(work[w].id) # {}
  <2>1. {j.id : j \in KeysOf(work[w].id)} # {}
    BY <1>1
  <2>2. Move(w, Listed(w, drop))
    BY <2>1 DEF ListKeys, Listed
  <2>3. <<work[w].pc, drop>> \in {<<"gList", "gDrop">>, <<"rList", "rDrop">>, <<"cList", "cDrop">>}
    BY <1>0 DEF At
  <2>4. PICK n \in Locals :
             /\ Moved(w, n) /\ LocalOK(o, n) /\ Onto(w, n) /\ Same(n, work[w]) /\ Flags(n, work[w])
             /\ n.pc = drop /\ \A j \in KeysOf(work[w].id) : j.id \in n.todo
    BY <1>1, <2>2, <2>3, ListedIs
  <2> QED
    BY <2>4
<1>2. CASE KeysOf(work[w].id) = {}
  <2>1. {j.id : j \in KeysOf(work[w].id)} = {}
    BY <1>2
  <2>2. \/ /\ <<at, drop, to>> \in {<<"gList", "gDrop", "gKey">>, <<"rList", "rDrop", "rBucket">>}
           /\ Move(w, Go(w, to))
        \/ Move(w, Idle)
    BY <2>1 DEF ListKeys
  <2>3. CASE Move(w, Idle)
    BY <2>3, OverIs DEF Move, Moved
  <2>4. CASE /\ <<at, drop, to>> \in {<<"gList", "gDrop", "gKey">>, <<"rList", "rDrop", "rBucket">>}
             /\ Move(w, Go(w, to))
    <3>1. PICK n : n = Go(w, to)
      OBVIOUS
    <3>2. /\ n \in Locals /\ LocalOK(o, n) /\ Onto(w, n) /\ Same(n, work[w]) /\ Flags(n, work[w])
          /\ n.pc = to
      BY <1>0, <2>4, <3>1, GoesTo DEF At
    <3>3. Moved(w, n)
      BY <2>4, <3>1 DEF Move, Moved
    <3> QED
      BY <1>2, <3>2, <3>3
  <2> QED
    BY <2>2, <2>3, <2>4
<1> QED
  BY <1>1, <1>2

\* The user of a revoke is deleted.
LEMMA RevokeDelUserIs ==
    ASSUME NEW o \in Owners, Base(o), NEW w \in Workers, RevokeDelUser(w)
    PROVE  \E m : \E n \in Locals :
             /\ Sent(w, m, n) /\ LocalOK(o, n) /\ m.op = "dropUser" /\ m.id = work[w].id
             /\ \/ Over(w, n)
                \/ /\ Onto(w, n) /\ Same(n, work[w]) /\ Flags(n, work[w]) /\ n.pc = "rDone"
                   /\ Commit(m) /\ late' = late
<1>1. PICK m : m = [op |-> "dropUser", access |-> work[w].access, id |-> work[w].id]
  OBVIOUS
<1>2. m.op = "dropUser" /\ m.id = work[w].id /\ Sends(w, m) /\ UNCHANGED hist
  BY <1>1 DEF RevokeDelUser, Sends
<1>3. Answer(m) \in {"missing", "ok"}
  BY <1>2 DEF Answer
<1>4. \/ Commit(m) /\ late' = late /\ work' = [work EXCEPT ![w] = Go(w, "rDone")]
      \/ UNCHANGED core /\ late' = late \cup {m} /\ work' = [work EXCEPT ![w] = Idle]
  BY <1>1, <1>3 DEF RevokeDelUser, Send
<1>5. CASE Commit(m) /\ late' = late /\ work' = [work EXCEPT ![w] = Go(w, "rDone")]
  <2>1. PICK n : n = Go(w, "rDone")
    OBVIOUS
  <2>2. n \in Locals /\ LocalOK(o, n) /\ Onto(w, n) /\ Same(n, work[w]) /\ n.pc = "rDone"
        /\ Flags(n, work[w])
    BY <2>1, GoesTo DEF RevokeDelUser, At
  <2>3. Sent(w, m, n)
    BY <1>2, <1>5, <2>1 DEF Sent
  <2> QED
    BY <1>2, <1>5, <2>2, <2>3
<1>6. CASE UNCHANGED core /\ late' = late \cup {m} /\ work' = [work EXCEPT ![w] = Idle]
  <2>1. Sent(w, m, Idle)
    BY <1>2, <1>6 DEF Sent
  <2> QED
    BY <1>2, <2>1, OverIs
<1> QED
  BY <1>4, <1>5, <1>6

\* The cleanup deletes the key of the grant and is over.
LEMMA CleanupOwnIs ==
    ASSUME NEW o \in Owners, Base(o), NEW w \in Workers, At(w, "cOwn"), Cleanup(w)
    PROVE  \E m : \E n \in Locals :
             /\ Sent(w, m, n) /\ LocalOK(o, n) /\ m.op = "dropKey" /\ m.id = work[w].key
             /\ Over(w, n)
<1>1. PICK m : m = [op |-> "dropKey", access |-> work[w].access, id |-> work[w].key]
  OBVIOUS
<1>2. m.op = "dropKey" /\ m.id = work[w].key /\ Sends(w, m)
  BY <1>1 DEF Sends
<1>3. Answer(m) \in {"missing", "ok"}
  BY <1>2 DEF Answer
<1>a. UNCHANGED hist /\ Send(w, m, [ok |-> Idle, missing |-> Idle, lost |-> Idle])
  BY <1>1 DEF Cleanup, ListKeys, DropKeys, At
<1>4. \/ Commit(m) /\ late' = late /\ work' = [work EXCEPT ![w] = Idle]
      \/ UNCHANGED core /\ late' = late \cup {m} /\ work' = [work EXCEPT ![w] = Idle]
  BY <1>3, <1>a DEF Send
<1>5. Sent(w, m, Idle)
  BY <1>2, <1>4, <1>a DEF Sent
<1> QED
  BY <1>2, <1>5, OverIs

\* A call fails: it is over, or its cleanup starts.
LEMMA RequestFailsIs ==
    ASSUME NEW o \in Owners, Base(o), NEW w \in Workers, RequestFails(w)
    PROVE  \E n \in Locals :
             /\ Moved(w, n) /\ LocalOK(o, n)
             /\ \/ Over(w, n)
                \/ Onto(w, n) /\ Same(n, work[w]) /\ n.pc \in {"cList", "cOwn"}
<1>1. CASE Move(w, Idle)
  BY <1>1, OverIs DEF Move, Moved
<1>2. CASE At(w, "gKey") /\ Move(w, Go(w, "cList"))
  <2>1. PICK n : n = Go(w, "cList")
    OBVIOUS
  <2>2. n \in Locals /\ LocalOK(o, n) /\ Onto(w, n) /\ Same(n, work[w]) /\ n.pc = "cList"
    BY <1>2, <2>1, GoesTo DEF At
  <2> QED
    BY <1>2, <2>1, <2>2 DEF Move, Moved
<1>3. CASE work[w].pc \in {"gPolicy", "gPutPolicy", "gAcl", "gPutAcl"} /\ Move(w, Undo(w))
  <2>1. PICK n : n = Undo(w)
    OBVIOUS
  <2>2. n \in Locals /\ LocalOK(o, n) /\ Onto(w, n) /\ Same(n, work[w]) /\ n.pc = "cOwn"
    BY <1>3, <2>1, UndoIs
  <2> QED
    BY <1>3, <2>1, <2>2 DEF Move, Moved
<1> QED
  BY <1>1, <1>2, <1>3 DEF RequestFails

\* A caller leaves its cleanup alone.
LEMMA CallerLeavesIs ==
    ASSUME NEW o \in Owners, Base(o), NEW w \in Workers, CallerLeaves(w)
    PROVE  \E n \in Locals :
             /\ Moved(w, n) /\ LocalOK(o, n)
             /\ n.access = work[w].access /\ n.id = work[w].id /\ n.pc = work[w].pc
             /\ n.pc \in CleanPoints
<1>0. PICK k \in Locals : k = work[w] /\ LocalOK(o, k)
  BY DEF Base
<1>1. k.pc \in CleanPoints /\ ~k.left
  BY <1>0 DEF CallerLeaves
<1>2. PICK n : n = [k EXCEPT !.left = TRUE]
  OBVIOUS
<1>3. n \in Locals
  BY <1>2 DEF Locals
<1>4. /\ n.pc = k.pc /\ n.access = k.access /\ n.id = k.id /\ n.key = k.key /\ n.try = k.try
      /\ n.todo = k.todo
  BY <1>2 DEF Locals
<1>5. LocalOK(o, n)
  BY <1>0, <1>1, <1>4 DEF LocalOK, UserPoints, KeyPoints, DropPoints,
     PutPolicyPoints, PutAclPoints, CleanPoints
<1>6. Moved(w, n)
  <2>1. work' = [work EXCEPT ![w].left = TRUE] /\ UNCHANGED <<core, late, hist>>
    BY DEF CallerLeaves
  <2>2. work' = [work EXCEPT ![w] = n]
    BY <1>0, <1>2, <2>1
  <2> QED
    BY <2>1, <2>2 DEF Moved
<1> QED
  BY <1>0, <1>1, <1>3, <1>4, <1>5, <1>6

\* A step that changes what is known of callers and operators, deletes users or the
\* bucket, and leaves the rest of Core alone.
LEMMA OutsideOK ==
    ASSUME NEW o \in Owners, World(o),
           keys' = keys, policy' = policy, acl' = acl, next' = next,
           users' \in [Accesses -> Nat], \A a \in Accesses : users'[a] \in {users[a], 0},
           bucket' \in [open : BOOLEAN, root : {0, 1}], bucket'.open => bucket.open,
           bucket'.open => bucket'.root = 1, bucket.root = 0 => bucket'.root = 0,
           hist' \in [accounts : SUBSET Accounts, given : SUBSET Grants,
                      revoked : SUBSET Accounts, removed : SUBSET Nat],
           \A r \in hist'.accounts : UserOf(o, r.id, r.access),
           \A r \in hist'.revoked : UserOf(o, r.id, r.access),
           \A g \in hist'.given : UserOf(o, g.id, g.access) /\ g.key < next.key
    PROVE  World(o)' /\ Evolves
<1>1. CoreTypes'
  BY DEF World, CoreTypes
<1>2. Evolves
  BY DEF Evolves, World, CoreTypes
<1>3. /\ \A a \in Accesses : users'[a] # 0 => UserOf(o, users[a], a) /\ users'[a] = users[a]
      /\ \A k \in keys : k.id # 0 /\ k.id < next.key /\ k.owner # 0 /\ k.owner < next.user
      /\ \A j, k \in keys : j.id = k.id => j = k
      /\ IsFiniteSet(keys) /\ \A id \in Nat : Cardinality(KeysOf(id)) <= KeyLimit
      /\ \A e \in acl.entries : e.id # 0 /\ e.id < next.user
      /\ policy.etag = 0 => policy.stmts = NoStatements
  BY DEF World, CoreOK
<1>4. \A id \in Nat : Cardinality(KeysOf(id)') <= KeyLimit
  <2>1. \A id : KeysOf(id)' = KeysOf(id)
    BY DEF KeysOf
  <2> QED
    BY <1>3, <2>1
<1>5. \A id, a : UserOf(o, id, a) => UserOf(o, id, a)'
  BY DEF UserOf
<1>6. \A a \in Accesses : users'[a] # 0 => UserOf(o, users[a], a)'
  BY <1>3, <1>5
<1>7. CoreOK(o)'
  BY <1>3, <1>4, <1>5, <1>6 DEF CoreOK
<1> QED
  BY <1>1, <1>2, <1>7 DEF World

\* Likewise if Core is as it was.
LEMMA ToldOK ==
    ASSUME NEW o \in Owners, World(o), UNCHANGED core,
           hist' \in [accounts : SUBSET Accounts, given : SUBSET Grants,
                      revoked : SUBSET Accounts, removed : SUBSET Nat],
           \A r \in hist'.accounts : r \in hist.accounts \/ UserOf(o, r.id, r.access),
           \A r \in hist'.revoked : r \in hist.revoked \/ UserOf(o, r.id, r.access),
           \A g \in hist'.given : \/ g \in hist.given
                                  \/ UserOf(o, g.id, g.access) /\ g.key < next.key
    PROVE  World(o)' /\ Evolves
<1>1. /\ keys' = keys /\ policy' = policy /\ acl' = acl /\ next' = next
      /\ users' = users /\ bucket' = bucket
  BY DEF core
<1>2. /\ users' \in [Accesses -> Nat] /\ bucket' \in [open : BOOLEAN, root : {0, 1}]
      /\ bucket'.open => bucket'.root = 1
  BY <1>1 DEF World, CoreTypes, CoreOK
<1>3. /\ \A r \in hist'.accounts : UserOf(o, r.id, r.access)
      /\ \A r \in hist'.revoked : UserOf(o, r.id, r.access)
      /\ \A g \in hist'.given : UserOf(o, g.id, g.access) /\ g.key < next.key
  BY DEF World, CoreOK
<1>4. \A a \in Accesses : users'[a] \in {users[a], 0}
  BY <1>1
<1> QED
  BY <1>1, <1>2, <1>3, <1>4, OutsideOK

\* A grant starts, and takes back what was given for the access.
LEMMA StartGrantIs ==
    ASSUME NEW o \in Owners, Base(o), NEW w \in Workers, StartGrant(w)
    PROVE  \E n \in Locals :
             /\ work' = [work EXCEPT ![w] = n] /\ UNCHANGED <<core, late>> /\ LocalOK(o, n)
             /\ At(w, "idle") /\ Quiet(n.access) /\ (n.calm => ~Disturbed(n.access))
             /\ n.pc = "gBucket" /\ n.id = 0
             /\ hist' = [hist EXCEPT !.given = {g \in hist.given : g.access # n.access}]
<1>1. PICK a \in Accesses : \E mm \in ModesOf[a] :
        /\ StartCall(w, [Idle EXCEPT !.pc = "gBucket", !.access = a, !.mode = mm,
                                     !.calm = ~Disturbed(a)])
        /\ hist' = [hist EXCEPT !.given = {g \in hist.given : g.access # a}]
  BY DEF StartGrant
<1>2. PICK mm \in ModesOf[a] :
        StartCall(w, [Idle EXCEPT !.pc = "gBucket", !.access = a, !.mode = mm,
                                  !.calm = ~Disturbed(a)])
  BY <1>1
<1>3. mm \in Modes /\ "gBucket" \in Points
  BY <1>2 DEF Modes, Points, GrantPoints
<1>4. PICK b \in BOOLEAN : b = ~Disturbed(a)
  BY Zenon
<1>5. PICK n : n = [Idle EXCEPT !.pc = "gBucket", !.access = a, !.mode = mm, !.calm = b]
  OBVIOUS
<1>6. n \in Locals
  BY <1>3, <1>5, IdleType DEF Locals
<1>7. /\ n.pc = "gBucket" /\ n.access = a /\ n.id = 0 /\ n.key = 0 /\ n.try = 1
  BY <1>3, <1>5, IdleType DEF Locals
<1>8. ~n.left
  BY <1>3, <1>5, IdleType DEF Locals
<1>9. n.calm => ~Disturbed(a)
  <2>1. n.calm => b
    BY <1>3, <1>5, IdleType DEF Locals
  <2> QED
    BY <1>4, <2>1
<1>10. StartCall(w, n)
  BY <1>2, <1>4, <1>5, Zenon
<1>11. /\ work' = [work EXCEPT ![w] = n] /\ UNCHANGED <<core, late>> /\ At(w, "idle")
       /\ Quiet(n.access)
  BY <1>10 DEF StartCall
<1>12. LocalOK(o, n)
  <2>1. next.user \in Nat \ {0} /\ next.key \in Nat \ {0}
    BY DEF Base, CoreTypes
  <2> QED
    BY <1>7, <1>8, <2>1 DEF LocalOK, UserPoints, KeyPoints, DropPoints, PutPolicyPoints,
       PutAclPoints
<1>13. hist' = [hist EXCEPT !.given = {g \in hist.given : g.access # n.access}]
  BY <1>1, <1>7
<1> QED
  BY <1>6, <1>7, <1>9, <1>11, <1>12, <1>13

\* A revoke starts for an account that was given once, and takes it back.
LEMMA StartRevokeIs ==
    ASSUME NEW o \in Owners, Base(o), NEW w \in Workers, StartRevoke(w)
    PROVE  \E n \in Locals :
             /\ work' = [work EXCEPT ![w] = n] /\ UNCHANGED <<core, late>> /\ LocalOK(o, n)
             /\ At(w, "idle") /\ Quiet(n.access) /\ (n.calm => ~Disturbed(n.access))
             /\ n.pc = "rUser"
             /\ hist' = [hist EXCEPT !.given =
                           {g \in hist.given : g.access # n.access
                                               \/ (g.id # n.id /\ RootOf[n.access] # 0)}]
<1>1. PICK r \in hist.accounts :
        /\ StartCall(w, [Idle EXCEPT !.pc = "rUser", !.access = r.access,
                                     !.calm = ~Disturbed(r.access),
                                     !.id = IF RootOf[r.access] = 0 THEN 0 ELSE r.id])
        /\ hist' = [hist EXCEPT !.given =
                      {g \in hist.given : g.access # r.access
                                          \/ (g.id # r.id /\ RootOf[r.access] # 0)}]
  BY DEF StartRevoke
<1>2. r.access \in Accesses /\ r.id \in Nat /\ UserOf(o, r.id, r.access) /\ "rUser" \in Points
  BY DEF Base, CoreTypes, CoreOK, Accounts, Points, RevokePoints
<1>3. PICK i \in Nat : i = (IF RootOf[r.access] = 0 THEN 0 ELSE r.id)
  BY <1>2
<1>4. PICK b \in BOOLEAN : b = ~Disturbed(r.access)
  BY Zenon
<1>5. PICK n : n = [Idle EXCEPT !.pc = "rUser", !.access = r.access, !.calm = b, !.id = i]
  OBVIOUS
<1>6. n \in Locals
  BY <1>2, <1>3, <1>5, IdleType DEF Locals
<1>7. /\ n.pc = "rUser" /\ n.access = r.access /\ n.id = i /\ n.key = 0 /\ n.try = 1
  BY <1>2, <1>3, <1>5, IdleType DEF Locals
<1>8. ~n.left
  BY <1>2, <1>3, <1>5, IdleType DEF Locals
<1>9. n.calm => ~Disturbed(r.access)
  <2>1. n.calm => b
    BY <1>2, <1>3, <1>5, IdleType DEF Locals
  <2> QED
    BY <1>4, <2>1
<1>10. StartCall(w, n)
  BY <1>1, <1>3, <1>4, <1>5, Zenon
<1>11. /\ work' = [work EXCEPT ![w] = n] /\ UNCHANGED <<core, late>> /\ At(w, "idle")
       /\ Quiet(n.access)
  BY <1>10 DEF StartCall
<1>12. LocalOK(o, n)
  <2>1. next.user \in Nat \ {0} /\ next.key \in Nat \ {0}
    BY DEF Base, CoreTypes
  <2>2. i = 0 \/ (i = r.id /\ UserOf(o, i, r.access))
    BY <1>2, <1>3
  <2> QED
    BY <1>7, <1>8, <2>1, <2>2 DEF LocalOK, UserPoints, KeyPoints, DropPoints, PutPolicyPoints,
       PutAclPoints, UserOf
<1>13. hist' = [hist EXCEPT !.given =
                  {g \in hist.given : g.access # n.access
                                      \/ (g.id # n.id /\ RootOf[n.access] # 0)}]
  <2>1. {g \in hist.given : g.access # r.access \/ (g.id # r.id /\ RootOf[r.access] # 0)}
         = {g \in hist.given : g.access # n.access \/ (g.id # n.id /\ RootOf[n.access] # 0)}
    BY <1>3, <1>7
  <2> QED
    BY <1>1, <2>1
<1> QED
  BY <1>6, <1>7, <1>9, <1>11, <1>12, <1>13

\* A call that starts takes back what was given.
LEMMA TakenBack ==
    ASSUME NEW o \in Owners, Base(o), UNCHANGED core, NEW given, given \subseteq hist.given,
           hist' = [hist EXCEPT !.given = given]
    PROVE  /\ World(o)' /\ Evolves
           /\ hist'.given = given /\ hist'.accounts = hist.accounts
           /\ hist'.revoked = hist.revoked /\ hist'.removed = hist.removed
<1>1. World(o) /\ hist \in [accounts : SUBSET Accounts, given : SUBSET Grants,
                            revoked : SUBSET Accounts, removed : SUBSET Nat]
  BY DEF Base, World, CoreTypes
<1>2. /\ hist'.given = given /\ hist'.accounts = hist.accounts
      /\ hist'.revoked = hist.revoked /\ hist'.removed = hist.removed
      /\ hist' \in [accounts : SUBSET Accounts, given : SUBSET Grants,
                    revoked : SUBSET Accounts, removed : SUBSET Nat]
  BY <1>1
<1>3. World(o)' /\ Evolves
  BY <1>1, <1>2, ToldOK
<1> QED
  BY <1>2, <1>3

\* A grant returns: what it gives is the user and the key of its call.
LEMMA GrantReturnsIs ==
    ASSUME NEW o \in Owners, Base(o), NEW w \in Workers, GrantReturns(w)
    PROVE  /\ At(w, "gDone") /\ work' = [work EXCEPT ![w] = Idle] /\ UNCHANGED <<core, late>>
           /\ World(o)' /\ Evolves
           /\ hist'.revoked = hist.revoked /\ hist'.removed = hist.removed
           /\ \E g \in Grants :
                /\ hist'.given = hist.given \cup {g}
                /\ g.access = work[w].access /\ g.id = work[w].id /\ g.mode = work[w].mode
                /\ g.key = work[w].key /\ (g.calm => work[w].calm)
                /\ (work[w].blind => g.blind)
<1>0. PICK k \in Locals : k = work[w] /\ LocalOK(o, k)
  BY DEF Base
<1>1. k.pc = "gDone" /\ k.id # 0 /\ UserOf(o, k.id, k.access) /\ k.key < next.key
  BY <1>0 DEF GrantReturns, At, LocalOK, UserPoints
<1>2. /\ At(w, "gDone") /\ work' = [work EXCEPT ![w] = Idle] /\ UNCHANGED <<core, late>>
  BY DEF GrantReturns
<1>3. PICK g : g = [access |-> work[w].access, id |-> work[w].id, mode |-> work[w].mode,
                    key |-> work[w].key, calm |-> work[w].calm, blind |-> work[w].blind]
  OBVIOUS
<1>4. g \in Grants
  BY <1>0, <1>3 DEF Grants, Locals
<1>5. g.access = k.access /\ g.id = k.id /\ g.mode = k.mode /\ g.key = k.key
  BY <1>0, <1>3
<1>6. (g.calm => k.calm) /\ (k.blind => g.blind)
  BY <1>0, <1>3
<1>7. PICK acc : acc = [access |-> g.access, id |-> g.id]
  OBVIOUS
<1>8. acc \in Accounts /\ acc.access = k.access /\ acc.id = k.id
  BY <1>0, <1>5, <1>7 DEF Accounts, Locals
<1>9. hist' = [hist EXCEPT !.given = hist.given \cup {g}, !.accounts = hist.accounts \cup {acc}]
  BY <1>3, <1>7 DEF GrantReturns
<1>10. hist \in [accounts : SUBSET Accounts, given : SUBSET Grants,
                 revoked : SUBSET Accounts, removed : SUBSET Nat]
  BY DEF Base, CoreTypes
<1>11. PICK gs \in SUBSET Grants, as \in SUBSET Accounts :
         /\ gs = hist.given \cup {g} /\ as = hist.accounts \cup {acc}
  BY <1>4, <1>8, <1>10
<1>12. hist' = [hist EXCEPT !.given = gs, !.accounts = as]
  BY <1>9, <1>11, Zenon
<1>13. /\ hist'.given = gs /\ hist'.accounts = as
       /\ hist'.revoked = hist.revoked /\ hist'.removed = hist.removed
       /\ hist' \in [accounts : SUBSET Accounts, given : SUBSET Grants,
                     revoked : SUBSET Accounts, removed : SUBSET Nat]
  BY <1>10, <1>11, <1>12
<1>14. World(o)' /\ Evolves
  <2>1. World(o) /\ UNCHANGED core
    BY <1>2 DEF Base, World
  <2>2. \A r \in hist'.accounts : r \in hist.accounts \/ UserOf(o, r.id, r.access)
    BY <1>1, <1>8, <1>11, <1>13
  <2>3. \A r \in hist'.given : \/ r \in hist.given
                               \/ UserOf(o, r.id, r.access) /\ r.key < next.key
    BY <1>1, <1>5, <1>11, <1>13
  <2> QED
    BY <1>13, <2>1, <2>2, <2>3, ToldOK
<1> QED
  BY <1>0, <1>2, <1>4, <1>5, <1>6, <1>11, <1>13, <1>14

\* A revoke returns: the identity that is gone is that of its call.
LEMMA RevokeReturnsIs ==
    ASSUME NEW o \in Owners, Base(o), NEW w \in Workers, RevokeReturns(w)
    PROVE  /\ At(w, "rDone") /\ work' = [work EXCEPT ![w] = Idle] /\ UNCHANGED <<core, late>>
           /\ World(o)' /\ Evolves
           /\ hist'.given = hist.given /\ hist'.removed = hist.removed
           /\ \A r \in hist'.revoked :
                \/ r \in hist.revoked
                \/ /\ r.access = work[w].access /\ r.id = work[w].id
                   /\ r.id # 0 /\ work[w].calm
<1>0. PICK k \in Locals : k = work[w] /\ LocalOK(o, k)
  BY DEF Base
<1>1. k.id # 0 => UserOf(o, k.id, k.access)
  BY <1>0 DEF LocalOK
<1>2. /\ At(w, "rDone") /\ work' = [work EXCEPT ![w] = Idle] /\ UNCHANGED <<core, late>>
  BY DEF RevokeReturns
<1>3. World(o) /\ UNCHANGED core
  BY <1>2 DEF Base, World
<1>10. hist \in [accounts : SUBSET Accounts, given : SUBSET Grants,
                 revoked : SUBSET Accounts, removed : SUBSET Nat]
  BY DEF Base, CoreTypes
<1>4. CASE work[w].id = 0 \/ ~work[w].calm
  <2>1. hist' = hist
    BY <1>4 DEF RevokeReturns
  <2>2. World(o)' /\ Evolves
    BY <1>3, <1>10, <2>1, ToldOK
  <2> QED
    BY <1>2, <2>1, <2>2
<1>5. CASE ~(work[w].id = 0 \/ ~work[w].calm)
  <2>1. PICK acc : acc = [access |-> work[w].access, id |-> work[w].id]
    OBVIOUS
  <2>2. acc \in Accounts /\ acc.access = k.access /\ acc.id = k.id
    BY <1>0, <2>1 DEF Accounts, Locals
  <2>3. PICK as \in SUBSET Accounts : as = hist.revoked \cup {acc}
    BY <1>10, <2>2
  <2>4. hist' = [hist EXCEPT !.revoked = as]
    BY <1>5, <2>1, <2>3 DEF RevokeReturns
  <2>5. /\ hist'.given = hist.given /\ hist'.accounts = hist.accounts
        /\ hist'.revoked = as /\ hist'.removed = hist.removed
        /\ hist' \in [accounts : SUBSET Accounts, given : SUBSET Grants,
                      revoked : SUBSET Accounts, removed : SUBSET Nat]
    BY <1>10, <2>3, <2>4
  <2>6. /\ k.id # 0 /\ k.calm
        /\ \A r \in hist'.revoked : r \in hist.revoked \/ r = acc
    BY <1>0, <1>5, <2>3, <2>5
  <2>7. World(o)' /\ Evolves
    <3>1. \A r \in hist'.revoked : r \in hist.revoked \/ UserOf(o, r.id, r.access)
      BY <1>1, <2>2, <2>6
    <3> QED
      BY <1>3, <2>5, <3>1, ToldOK
  <2> QED
    BY <1>0, <1>2, <2>2, <2>5, <2>6, <2>7
<1> QED
  BY <1>4, <1>5

\* An operator deletes a user.
LEMMA OperatorIs ==
    ASSUME NEW o \in Owners, Base(o), NEW a \in Accesses, users[a] # 0,
           users' = [users EXCEPT ![a] = 0],
           hist' = [hist EXCEPT !.removed = @ \cup {users[a]}],
           keys' = keys, policy' = policy, acl' = acl, next' = next, bucket' = bucket
    PROVE  /\ World(o)' /\ Evolves
           /\ hist'.given = hist.given /\ hist'.revoked = hist.revoked
           /\ hist'.removed = hist.removed \cup {users[a]}
<1>1. /\ hist \in [accounts : SUBSET Accounts, given : SUBSET Grants,
                   revoked : SUBSET Accounts, removed : SUBSET Nat]
      /\ users \in [Accesses -> Nat] /\ bucket \in [open : BOOLEAN, root : {0, 1}]
      /\ World(o)
  BY DEF Base, CoreTypes, World
<1>2. PICK rs \in SUBSET Nat : rs = hist.removed \cup {users[a]}
  BY <1>1
<1>3. hist' = [hist EXCEPT !.removed = rs]
  BY <1>2
<1>4. /\ hist'.given = hist.given /\ hist'.accounts = hist.accounts
      /\ hist'.revoked = hist.revoked /\ hist'.removed = rs
      /\ hist' \in [accounts : SUBSET Accounts, given : SUBSET Grants,
                    revoked : SUBSET Accounts, removed : SUBSET Nat]
  BY <1>1, <1>2, <1>3
<1>5. users' \in [Accesses -> Nat] /\ \A b \in Accesses : users'[b] \in {users[b], 0}
  BY <1>1
<1>6. /\ \A r \in hist'.accounts : UserOf(o, r.id, r.access)
      /\ \A r \in hist'.revoked : UserOf(o, r.id, r.access)
      /\ \A g \in hist'.given : UserOf(o, g.id, g.access) /\ g.key < next.key
      /\ bucket'.open => bucket'.root = 1
  BY <1>1, <1>4 DEF World, CoreOK
<1>7. World(o)' /\ Evolves
  BY <1>1, <1>4, <1>5, <1>6, OutsideOK
<1> QED
  BY <1>2, <1>4, <1>7

\* The bucket is deleted.
LEMMA DeletedIs ==
    ASSUME NEW o \in Owners, Base(o), BucketDeleted
    PROVE  /\ World(o)' /\ Evolves
           /\ UNCHANGED <<users, keys, policy, acl, next, late, work, hist>>
           /\ ~bucket'.open /\ bucket'.root \in {0, bucket.root}
<1>1. /\ hist \in [accounts : SUBSET Accounts, given : SUBSET Grants,
                   revoked : SUBSET Accounts, removed : SUBSET Nat]
      /\ users \in [Accesses -> Nat] /\ bucket \in [open : BOOLEAN, root : {0, 1}]
      /\ World(o)
  BY DEF Base, CoreTypes, World
<1>2. /\ UNCHANGED <<users, keys, policy, acl, next, late, work, hist>>
      /\ bucket' \in [open : {FALSE}, root : {0, bucket.root}]
  BY DEF BucketDeleted, Outside
<1>3. /\ ~bucket'.open /\ bucket'.root \in {0, bucket.root}
      /\ bucket' \in [open : BOOLEAN, root : {0, 1}]
  BY <1>1, <1>2
<1>6. /\ \A r \in hist'.accounts : UserOf(o, r.id, r.access)
      /\ \A r \in hist'.revoked : UserOf(o, r.id, r.access)
      /\ \A g \in hist'.given : UserOf(o, g.id, g.access) /\ g.key < next.key
  BY <1>1, <1>2 DEF World, CoreOK
<1>7. World(o)' /\ Evolves
  BY <1>1, <1>2, <1>3, <1>6, OutsideOK
<1> QED
  BY <1>2, <1>3, <1>7

\* A step of a handler between its start and its return.
HandlerStep(w) ==
    \/ GrantBucket(w) \/ GrantAttrs(w) \/ GrantUser(w) \/ GrantLookup(w) \/ GrantRotate(w)
    \/ GrantKey(w) \/ GrantPolicy(w) \/ GrantAcl(w) \/ Cleanup(w)
    \/ RevokeUser(w) \/ RevokeKeys(w) \/ RevokeBucket(w) \/ RevokePolicy(w) \/ RevokeAcl(w)
    \/ RevokeDelUser(w) \/ RequestFails(w) \/ CallerLeaves(w)

\* Its call goes on, or its caller leaves its cleanup alone.
Follows(w, n) ==
    \/ Onto(w, n)
    \/ /\ n.access = work[w].access /\ n.id = work[w].id
       /\ n.pc = work[w].pc /\ n.pc \in CleanPoints

\* It sends nothing, or one write.
MovesOn(o, w) == \E n \in Locals : Moved(w, n) /\ LocalOK(o, n) /\ Follows(w, n)

SendsOn(o, p, w) ==
    \E m : \E n \in Locals :
      Sent(w, m, n) /\ (LocalOK(o, n) \/ LocalOK(p, n)') /\ Follows(w, n)

\* Every step of a handler is of one of the two forms.
LEMMA HandlerStepIs ==
    ASSUME NEW o \in Owners, NEW p \in Owners, Agree(o, p), Base(o), NEW w \in Workers,
           p[next.user] = work[w].access, HandlerStep(w)
    PROVE  MovesOn(o, w) \/ SendsOn(o, p, w)
<1>1. CASE GrantBucket(w) \/ GrantAttrs(w)
  BY <1>1, GrantBucketIs DEF MovesOn, Follows, Over
<1>2. CASE GrantUser(w)
  BY <1>2, GrantUserIs DEF SendsOn, Follows, Over
<1>3. CASE GrantLookup(w)
  BY <1>3, GrantLookupIs DEF MovesOn, Follows, Over
<1>4. CASE ListKeys(w, "gList", "gDrop", Go(w, "gKey"))
  BY <1>4, ListKeysIs DEF MovesOn, Follows, Over
<1>5. CASE ListKeys(w, "rList", "rDrop", Go(w, "rBucket"))
  BY <1>5, ListKeysIs DEF MovesOn, Follows, Over
<1>6. CASE ListKeys(w, "cList", "cDrop", Idle)
  BY <1>6, ListKeysIs DEF MovesOn, Follows, Over
<1>7. CASE DropKeys(w, "gDrop", [work[w] EXCEPT !.todo = {}, !.pc = "gKey"])
  <2>1. DropsKey(o, w, "gDrop", "gKey")
    BY <1>7, DropKeysIs
  <2> QED
    BY <2>1 DEF DropsKey, SendsOn, Follows, Over
<1>8. CASE DropKeys(w, "rDrop", [work[w] EXCEPT !.todo = {}, !.pc = "rBucket"])
  <2>1. DropsKey(o, w, "rDrop", "rBucket")
    BY <1>8, DropKeysIs
  <2> QED
    BY <2>1 DEF DropsKey, SendsOn, Follows, Over
<1>9. CASE DropKeys(w, "cDrop", Idle)
  <2>1. DropsKey(o, w, "cDrop", "idle")
    BY <1>9, DropKeysIs
  <2> QED
    BY <2>1 DEF DropsKey, SendsOn, Follows, Over
<1>10. CASE GrantKey(w)
  BY <1>10, GrantKeyIs DEF SendsOn, Follows, Over
<1>11. CASE GetPolicy(w, "gPolicy", "gPutPolicy")
  BY <1>11, GetPolicyIs DEF MovesOn, Follows, Over
<1>12. CASE GetPolicy(w, "rPolicy", "rPutPolicy")
  BY <1>12, GetPolicyIs DEF MovesOn, Follows, Over
<1>13. CASE At(w, "gPutPolicy") /\ GrantPolicy(w)
  BY <1>13, GrantPutPolicyIs DEF SendsOn, Follows, Over
<1>14. CASE At(w, "rPutPolicy") /\ RevokePolicy(w)
  BY <1>14, RevokePutPolicyIs DEF SendsOn, Follows, Over
<1>15. CASE At(w, "gAcl") /\ GrantAcl(w)
  BY <1>15, GrantGetAclIs DEF MovesOn, Follows, Over
<1>16. CASE At(w, "gPutAcl") /\ GrantAcl(w)
  BY <1>16, GrantPutAclIs DEF SendsOn, Follows, Over
<1>17. CASE At(w, "rAcl") /\ RevokeAcl(w)
  BY <1>17, RevokeGetAclIs DEF MovesOn, Follows, Over
<1>18. CASE At(w, "rPutAcl") /\ RevokeAcl(w)
  BY <1>18, RevokePutAclIs DEF SendsOn, Follows, Over
<1>19. CASE At(w, "cOwn") /\ Cleanup(w)
  BY <1>19, CleanupOwnIs DEF SendsOn, Follows, Over
<1>20. CASE RevokeUser(w)
  BY <1>20, RevokeUserIs DEF MovesOn, Follows, Over
<1>21. CASE RevokeBucket(w)
  BY <1>21, RevokeBucketIs DEF MovesOn, Follows, Over
<1>22. CASE RevokeDelUser(w)
  BY <1>22, RevokeDelUserIs DEF SendsOn, Follows, Over
<1>23. CASE RequestFails(w)
  BY <1>23, RequestFailsIs DEF MovesOn, Follows, Over
<1>24. CASE CallerLeaves(w)
  BY <1>24, CallerLeavesIs DEF MovesOn, Follows, Over
<1>25. /\ GrantRotate(w) => \/ ListKeys(w, "gList", "gDrop", Go(w, "gKey"))
                            \/ DropKeys(w, "gDrop", [work[w] EXCEPT !.todo = {}, !.pc = "gKey"])
       /\ RevokeKeys(w) => \/ ListKeys(w, "rList", "rDrop", Go(w, "rBucket"))
                           \/ DropKeys(w, "rDrop", [work[w] EXCEPT !.todo = {}, !.pc = "rBucket"])
  BY DEF GrantRotate, RevokeKeys
<1>26. /\ GrantPolicy(w) => GetPolicy(w, "gPolicy", "gPutPolicy") \/ At(w, "gPutPolicy")
       /\ RevokePolicy(w) => GetPolicy(w, "rPolicy", "rPutPolicy") \/ At(w, "rPutPolicy")
       /\ GrantAcl(w) => At(w, "gAcl") \/ At(w, "gPutAcl")
       /\ RevokeAcl(w) => At(w, "rAcl") \/ At(w, "rPutAcl")
       /\ Cleanup(w) => ListKeys(w, "cList", "cDrop", Idle) \/ DropKeys(w, "cDrop", Idle)
                        \/ At(w, "cOwn")
  BY DEF GrantPolicy, RevokePolicy, GrantAcl, RevokeAcl, Cleanup
<1> QED
  BY <1>1, <1>2, <1>3, <1>4, <1>5, <1>6, <1>7, <1>8, <1>9, <1>10, <1>11, <1>12, <1>13, <1>14,
     <1>15, <1>16, <1>17, <1>18, <1>19, <1>20, <1>21, <1>22, <1>23, <1>24, <1>25, <1>26
     DEF HandlerStep

\* The owner map with the next user made for this access.
NextOwner(o, a) == [o EXCEPT ![next.user] = a]

\* The next user gets an owner; those that exist keep theirs.
LEMMA NextOwnerIs ==
    ASSUME NEW o \in Owners, CoreTypes, NEW a \in Accesses, NEW p, p = NextOwner(o, a)
    PROVE  p \in Owners /\ Agree(o, p) /\ p[next.user] = a
<1>1. next.user \in Nat
  BY DEF CoreTypes
<1> QED
  BY <1>1 DEF NextOwner, Owners, Agree

\* A handler's step leaves the invariant true.
LEMMA HandlerBase ==
    ASSUME NEW o \in Owners, Base(o), NEW w \in Workers, HandlerStep(w)
    PROVE  \E p \in Owners : Agree(o, p) /\ Base(p)' /\ Evolves
<1>1. work[w].access \in Accesses /\ CoreTypes
  BY DEF Base, Locals
<1>2. PICK p : p = NextOwner(o, work[w].access)
  OBVIOUS
<1>3. p \in Owners /\ Agree(o, p) /\ p[next.user] = work[w].access
  BY <1>1, <1>2, NextOwnerIs
<1>4. CASE MovesOn(o, w)
  <2>1. Base(o)' /\ Evolves /\ Agree(o, o)
    BY <1>4, MovedOK DEF MovesOn, Agree
  <2> QED
    BY <2>1
<1>5. CASE SendsOn(o, p, w)
  <2>1. Base(p)' /\ Evolves
    BY <1>3, <1>5, SentOK DEF SendsOn
  <2> QED
    BY <1>3, <2>1
<1> QED
  BY <1>3, <1>4, <1>5, HandlerStepIs

\* A call starts.
LEMMA StartBase ==
    ASSUME NEW o \in Owners, Base(o), NEW w \in Workers, StartGrant(w) \/ StartRevoke(w)
    PROVE  Base(o)' /\ Evolves
<1>1. PICK n \in Locals :
        /\ work' = [work EXCEPT ![w] = n] /\ UNCHANGED <<core, late>> /\ LocalOK(o, n)
        /\ \E given : given \subseteq hist.given /\ hist' = [hist EXCEPT !.given = given]
  <2>1. CASE StartGrant(w)
    <3>1. PICK n \in Locals :
             /\ work' = [work EXCEPT ![w] = n] /\ UNCHANGED <<core, late>> /\ LocalOK(o, n)
             /\ hist' = [hist EXCEPT !.given = {g \in hist.given : g.access # n.access}]
      BY <2>1, StartGrantIs
    <3>2. {g \in hist.given : g.access # n.access} \subseteq hist.given
      OBVIOUS
    <3> QED
      BY <3>1, <3>2
  <2>2. CASE StartRevoke(w)
    <3>1. PICK n \in Locals :
             /\ work' = [work EXCEPT ![w] = n] /\ UNCHANGED <<core, late>> /\ LocalOK(o, n)
             /\ hist' = [hist EXCEPT !.given =
                           {g \in hist.given : g.access # n.access
                                               \/ (g.id # n.id /\ RootOf[n.access] # 0)}]
      BY <2>2, StartRevokeIs
    <3>2. {g \in hist.given : g.access # n.access \/ (g.id # n.id /\ RootOf[n.access] # 0)}
            \subseteq hist.given
      OBVIOUS
    <3> QED
      BY <3>1, <3>2
  <2> QED
    BY <2>1, <2>2
<1>2. World(o)' /\ Evolves
  BY <1>1, TakenBack
<1>3. /\ work' \in [Workers -> Locals] /\ late' = late
      /\ \A v \in Workers : work'[v] \in {work[v], n}
  BY <1>1 DEF Base
<1>4. \A v \in Workers : work[v] \in Locals /\ LocalOK(o, work[v])
  BY DEF Base
<1>5. Agree(o, o)
  BY DEF Agree
<1> QED
  BY <1>1, <1>2, <1>3, <1>4, <1>5, BaseFrom

\* A call returns.
LEMMA ReturnBase ==
    ASSUME NEW o \in Owners, Base(o), NEW w \in Workers, GrantReturns(w) \/ RevokeReturns(w)
    PROVE  Base(o)' /\ Evolves
<1>1. /\ work' = [work EXCEPT ![w] = Idle] /\ UNCHANGED <<core, late>>
      /\ World(o)' /\ Evolves
  BY GrantReturnsIs, RevokeReturnsIs
<1>2. Idle \in Locals /\ LocalOK(o, Idle)
  BY IdleOK
<1>3. /\ work' \in [Workers -> Locals] /\ late' = late
      /\ \A v \in Workers : work'[v] \in {work[v], Idle}
  BY <1>1, <1>2 DEF Base
<1>4. \A v \in Workers : work[v] \in Locals /\ LocalOK(o, work[v])
  BY DEF Base
<1>5. Agree(o, o)
  BY DEF Agree
<1> QED
  BY <1>1, <1>2, <1>3, <1>4, <1>5, BaseFrom

\* A late write reaches Core.
LEMMA LateBase ==
    ASSUME NEW o \in Owners, Base(o), LateWrite
    PROVE  \E p \in Owners : Agree(o, p) /\ Base(p)' /\ Evolves
<1>1. PICK m \in late : Commit(m) /\ late' = late \ {m} /\ UNCHANGED <<work, count, hist>>
  BY DEF LateWrite
<1>2. MsgOK(o, m) /\ CoreTypes /\ World(o)
  BY DEF Base, World
<1>3. m.access \in Accesses
  BY <1>2 DEF MsgOK
<1>4. PICK p : p = NextOwner(o, m.access)
  OBVIOUS
<1>5. p \in Owners /\ Agree(o, p) /\ p[next.user] = m.access
  BY <1>2, <1>3, <1>4, NextOwnerIs
<1>6. World(p)' /\ Evolves
  BY <1>1, <1>2, <1>5, CommitOK
<1>7. /\ work' \in [Workers -> Locals] /\ work' = work
      /\ \A l \in late' : l \in late
      /\ \A v \in Workers : work[v] \in Locals /\ LocalOK(o, work[v])
  BY <1>1 DEF Base
<1>8. Base(p)'
  BY <1>5, <1>6, <1>7, BaseFrom
<1> QED
  BY <1>5, <1>6, <1>8

\* Somebody else deletes a user, or the bucket.
LEMMA OutsideBase ==
    ASSUME NEW o \in Owners, Base(o), OperatorDeletesUser \/ BucketDeleted
    PROVE  Base(o)' /\ Evolves
<1>1. World(o)' /\ Evolves /\ work' = work /\ late' = late
  <2>1. CASE OperatorDeletesUser
    <3>1. PICK a \in Accesses :
            /\ users[a] # 0 /\ users' = [users EXCEPT ![a] = 0]
            /\ hist' = [hist EXCEPT !.removed = @ \cup {users[a]}]
            /\ keys' = keys /\ policy' = policy /\ acl' = acl /\ next' = next
            /\ bucket' = bucket /\ work' = work /\ late' = late
      BY <2>1 DEF OperatorDeletesUser, Outside
    <3> QED
      BY <3>1, OperatorIs
  <2>2. CASE BucketDeleted
    BY <2>2, DeletedIs
  <2> QED
    BY <2>1, <2>2
<1>2. /\ work' \in [Workers -> Locals]
      /\ \A l \in late' : l \in late
      /\ \A v \in Workers : work[v] \in Locals /\ LocalOK(o, work[v])
  BY <1>1 DEF Base
<1>3. Agree(o, o)
  BY DEF Agree
<1> QED
  BY <1>1, <1>2, <1>3, BaseFrom

\* A step is that of a handler, a start, a return, a late write, or of somebody else.
LEMMA NextIs ==
    ASSUME Next
    PROVE  \/ \E w \in Workers : HandlerStep(w)
           \/ \E w \in Workers : StartGrant(w) \/ StartRevoke(w)
           \/ \E w \in Workers : GrantReturns(w) \/ RevokeReturns(w)
           \/ LateWrite
           \/ OperatorDeletesUser \/ BucketDeleted
BY Zenon DEF Next, GrantStep, RevokeStep, HandlerStep

\* Every step leaves the invariant true.
LEMMA BaseStep ==
    ASSUME NEW o \in Owners, Base(o), Next
    PROVE  \E p \in Owners : Agree(o, p) /\ Base(p)'
<1>1. Agree(o, o)
  BY DEF Agree
<1> QED
  BY <1>1, NextIs, HandlerBase, StartBase, ReturnBase, LateBase, OutsideBase

\* Users have owners that fit the whole state.
Based == \E o \in Owners : Base(o)

\* At first Core has no users, no keys and nothing on its way.
LEMMA BaseInit == Init => Based
<1> SUFFICES ASSUME Init PROVE Based
  OBVIOUS
<1>1. PICK a \in Accesses : TRUE
  BY AccessAssumption
<1>2. PICK o : o = [id \in Nat |-> a]
  OBVIOUS
<1>3. o \in Owners
  BY <1>2 DEF Owners
<1>4. CoreTypes
  BY NobodyType DEF Init, CoreTypes
<1>5. CoreOK(o)
  <2>1. keys = {} /\ IsFiniteSet(keys) /\ KeyLimit \in Nat
    BY FS_EmptySet, AccessAssumption DEF Init
  <2>2. \A id \in Nat : Cardinality(KeysOf(id)) <= KeyLimit
    <3>1. \A id : KeysOf(id) = {}
      BY <2>1 DEF KeysOf
    <3> QED
      BY <2>1, <3>1, FS_EmptySet
  <2> QED
    BY <2>1, <2>2 DEF Init, CoreOK
<1>6. \A m \in late : MsgOK(o, m)
  BY DEF Init
<1>7. Idle \in Locals /\ LocalOK(o, Idle)
  <2>1. next.user \in Nat \ {0} /\ next.key \in Nat \ {0}
    BY <1>4 DEF CoreTypes
  <2> QED
    BY <2>1, IdleType DEF LocalOK, UserPoints, KeyPoints, DropPoints, PutPolicyPoints, PutAclPoints
<1>8. work \in [Workers -> Locals] /\ \A w \in Workers : LocalOK(o, work[w])
  BY <1>7 DEF Init
<1> QED
  BY <1>3, <1>4, <1>5, <1>6, <1>8 DEF Based, Base

\* Nothing happens.
LEMMA StutterBase ==
    ASSUME NEW o \in Owners, Base(o), UNCHANGED vars
    PROVE  Base(o)' /\ Evolves
<1>1. World(o) /\ Agree(o, o)
  BY DEF Base, World, Agree
<1>2. UNCHANGED <<core, hist>> /\ work' = work /\ late' = late
  BY DEF vars
<1>3. World(o)' /\ Evolves
  BY <1>1, <1>2, NothingChanges
<1>4. /\ work' \in [Workers -> Locals]
      /\ \A l \in late' : l \in late
      /\ \A v \in Workers : work[v] \in Locals /\ LocalOK(o, work[v])
  BY <1>2 DEF Base
<1> QED
  BY <1>1, <1>2, <1>3, <1>4, BaseFrom

\* Users have owners, always.
THEOREM Belonging == Spec => []Based
<1>1. Based /\ [Next]_vars => Based'
  <2> SUFFICES ASSUME Based, [Next]_vars PROVE Based'
    OBVIOUS
  <2>1. CASE Next
    BY <2>1, BaseStep DEF Based
  <2>2. CASE UNCHANGED vars
    BY <2>2, StutterBase DEF Based
  <2> QED
    BY <2>1, <2>2
<1> QED
  BY <1>1, BaseInit, PTL DEF Spec

\* What has an owner has its type.
LEMMA BasedTypes == Based => TypeOK
<1> SUFFICES ASSUME NEW o \in Owners, Base(o) PROVE TypeOK
  BY DEF Based
<1>0. CoreTypes /\ CoreOK(o) /\ next.user \in Nat \ {0} /\ next.key \in Nat \ {0}
  BY DEF Base, CoreTypes
<1>1. users \in [Accesses -> 0..(next.user - 1)]
  <2>1. \A a \in Accesses : users[a] \in Nat /\ (users[a] # 0 => users[a] < next.user)
    BY <1>0 DEF CoreTypes, CoreOK, UserOf
  <2> QED
    BY <1>0, <2>1 DEF CoreTypes
<1>2. keys \subseteq [id : 1..(next.key - 1), owner : 1..(next.user - 1)]
  <2> SUFFICES ASSUME NEW k \in keys
               PROVE  k \in [id : 1..(next.key - 1), owner : 1..(next.user - 1)]
    OBVIOUS
  <2>1. k \in [id : Nat, owner : Nat] /\ k.id # 0 /\ k.id < next.key
        /\ k.owner # 0 /\ k.owner < next.user
    BY <1>0 DEF CoreTypes, CoreOK
  <2>2. k.id \in 1..(next.key - 1) /\ k.owner \in 1..(next.user - 1)
    BY <1>0, <2>1
  <2> QED
    BY <2>1, <2>2
<1>3. \A j, k \in keys : j.id = k.id => j = k
  BY <1>0 DEF CoreOK
<1>4. \A k \in keys : Cardinality({j \in keys : j.owner = k.owner}) <= KeyLimit
  BY <1>0 DEF CoreTypes, CoreOK, KeysOf
<1>5. /\ bucket.open \in BOOLEAN /\ bucket.root \in {0, 1}
      /\ policy.stmts \in [Accesses -> Grant] /\ policy.etag \in Nat
      /\ policy.etag = 0 => policy.stmts = NoStatements
      /\ acl.entries \subseteq Grant /\ acl.etag \in Nat \ {0}
  BY <1>0 DEF CoreTypes, CoreOK
<1>6. ASSUME NEW w \in Workers
      PROVE  /\ work[w].pc \in {"idle"} \cup GrantPoints \cup RevokePoints \cup CleanPoints
             /\ work[w].pc \in {"gPolicy", "gPutPolicy", "rPolicy", "rPutPolicy"} =>
                  work[w].try \in 1..PolicyAttempts
             /\ work[w].pc \in {"gAcl", "gPutAcl", "rAcl", "rPutAcl"} =>
                  work[w].try \in 1..AclAttempts
             /\ work[w].pc \in {"gDrop", "rDrop", "cDrop"} => work[w].todo # {}
             /\ work[w].pc \in {"gKey", "gPolicy", "gPutPolicy", "gAcl", "gPutAcl"} =>
                  work[w].id \in 1..(next.user - 1)
  <2>1. PICK k \in Locals : k = work[w] /\ LocalOK(o, k)
    BY DEF Base
  <2>2. k.pc \in Points /\ k.id \in Nat
    BY DEF Locals
  <2>3. /\ k.pc \in {"gPolicy", "gPutPolicy", "rPolicy", "rPutPolicy"} => k.try \in 1..PolicyAttempts
        /\ k.pc \in {"gAcl", "gPutAcl", "rAcl", "rPutAcl"} => k.try \in 1..AclAttempts
        /\ k.pc \in {"gDrop", "rDrop", "cDrop"} => k.todo # {}
    BY <2>1 DEF LocalOK, DropPoints, PutPolicyPoints, PutAclPoints
  <2>4. k.pc \in {"gKey", "gPolicy", "gPutPolicy", "gAcl", "gPutAcl"} =>
          k.id # 0 /\ k.id < next.user
    BY <2>1 DEF LocalOK, UserPoints
  <2>5. k.pc \in {"gKey", "gPolicy", "gPutPolicy", "gAcl", "gPutAcl"} => k.id \in 1..(next.user - 1)
    BY <1>0, <2>2, <2>4
  <2> QED
    BY <2>1, <2>2, <2>3, <2>5 DEF Points
<1> QED
  BY <1>1, <1>2, <1>3, <1>4, <1>5, <1>6 DEF TypeOK

\* The variables keep their types: Core hands out numbers it has not used, a user has
\* no more keys than Core allows, no attempt is made after the last one.
THEOREM Typing == Spec => []TypeOK
BY Belonging, BasedTypes, PTL

\* A write of a handler changes the statement of its access and the entries of its
\* user only, unless it was read without ETag.
Spared(w) ==
    \/ \A a \in Accesses \ {work[w].access} : policy'.stmts[a] = policy.stmts[a]
    \/ work[w].pc \in {"gPutPolicy", "rPutPolicy"} /\ work[w].etag = 0

LEMMA SentSeparate ==
    ASSUME NEW o \in Owners, Base(o), NEW w \in Workers, NEW m, Sends(w, m), Commit(m)
    PROVE  /\ Spared(w)
           /\ \A e \in (acl.entries \cup acl'.entries) :
                e.id # work[w].id => (e \in acl.entries <=> e \in acl'.entries)
<1>0. PICK k \in Locals : k = work[w] /\ LocalOK(o, k)
  BY DEF Base
<1>1. /\ policy.etag \in Nat /\ acl.etag \in Nat \ {0} /\ (bucket.open => bucket.root = 1)
      /\ k.stmts \in [Accesses -> Grant]
      /\ policy.stmts \in [Accesses -> Grant] /\ k.access \in Accesses
  BY DEF Base, CoreTypes, CoreOK, Locals
<1>2. MsgOK(o, m) /\ m.access = k.access
  BY <1>0, SendsOK DEF Sends
<1>3. CASE policy' = policy /\ acl' = acl
  BY <1>3 DEF Spared
<1>4. CASE Answer(m) = "ok" /\ Effect(m) /\ m.op = "policy"
  <2>1. policy'.stmts = m.stmts /\ acl' = acl /\ bucket.open /\ m.etag \in {0, policy.etag}
    BY <1>4 DEF Effect, Answer
  <2>2. m.etag = policy.etag => \A b \in Accesses \ {m.access} : m.stmts[b] = policy.stmts[b]
    BY <1>2, <1>4, <2>1 DEF MsgOK, PolicyFor
  <2>3. k.pc \in {"gPutPolicy", "rPutPolicy"} /\ m.etag = k.etag
    BY <1>0, <1>4 DEF Sends, PutPolicyPoints
  <2>4. Spared(w)
    BY <1>0, <1>2, <2>1, <2>2, <2>3 DEF Spared
  <2> QED
    BY <2>1, <2>4
<1>5. CASE Answer(m) = "ok" /\ Effect(m) /\ m.op = "acl"
  <2>1. acl'.entries = m.entries /\ policy' = policy /\ m.etag = acl.etag
    BY <1>5 DEF Effect, Answer
  <2>2. k.pc \in PutAclPoints /\ m.etag = k.etag /\ m.entries = EntriesToPut(w)
    BY <1>0, <1>5 DEF Sends
  <2>3. k.entries = acl.entries
    BY <1>0, <2>1, <2>2 DEF LocalOK, AclRead
  <2>4. \A e : e.id # k.id => (e \in m.entries <=> e \in k.entries)
    BY <1>0, <2>2 DEF EntriesToPut, EntriesOf, Exact
  <2>5. Spared(w)
    BY <2>1 DEF Spared
  <2> QED
    BY <1>0, <2>1, <2>3, <2>4, <2>5
<1>6. \/ policy' = policy /\ acl' = acl
      \/ Answer(m) = "ok" /\ Effect(m) /\ m.op = "policy"
      \/ Answer(m) = "ok" /\ Effect(m) /\ m.op = "acl"
  BY DEF Commit, Effect, core
<1> QED
  BY <1>3, <1>4, <1>5, <1>6

\* A worker whose local variables a step changes, and no other, may have written.
LEMMA StepSeparate ==
    ASSUME NEW o \in Owners, Base(o), Next, NEW w \in Workers, work'[w] # work[w]
    PROVE  /\ Spared(w)
           /\ \A e \in (acl.entries \cup acl'.entries) :
                e.id # work[w].id => (e \in acl.entries <=> e \in acl'.entries)
<1>1. ASSUME UNCHANGED core
      PROVE  /\ Spared(w)
             /\ \A e \in (acl.entries \cup acl'.entries) :
                  e.id # work[w].id => (e \in acl.entries <=> e \in acl'.entries)
  BY <1>1 DEF core, Spared
<1>2. ASSUME NEW v \in Workers, NEW n, work' = [work EXCEPT ![v] = n]
      PROVE  v = w
  BY <1>2 DEF Base
<1>3. ASSUME NEW v \in Workers, HandlerStep(v)
      PROVE  /\ Spared(w)
             /\ \A e \in (acl.entries \cup acl'.entries) :
                  e.id # work[w].id => (e \in acl.entries <=> e \in acl'.entries)
  <2>1. work[v].access \in Accesses /\ CoreTypes
    BY DEF Base, Locals
  <2>2. PICK p : p = NextOwner(o, work[v].access)
    OBVIOUS
  <2>3. p \in Owners /\ Agree(o, p) /\ p[next.user] = work[v].access
    BY <2>1, <2>2, NextOwnerIs
  <2>4. MovesOn(o, v) \/ SendsOn(o, p, v)
    BY <1>3, <2>3, HandlerStepIs
  <2>5. CASE MovesOn(o, v)
    BY <1>1, <2>5 DEF MovesOn, Moved
  <2>6. CASE SendsOn(o, p, v)
    <3>1. PICK m : \E n \in Locals : Sent(v, m, n)
      BY <2>6 DEF SendsOn
    <3>2. PICK n \in Locals : Sent(v, m, n)
      BY <3>1
    <3>3. v = w /\ Sends(v, m) /\ (Commit(m) \/ UNCHANGED core)
      BY <1>2, <3>2 DEF Sent
    <3> QED
      BY <1>1, <3>3, SentSeparate
  <2> QED
    BY <2>4, <2>5, <2>6
<1>4. \A v \in Workers : StartGrant(v) \/ StartRevoke(v) => UNCHANGED core
  BY DEF StartGrant, StartRevoke, StartCall
<1>5. \A v \in Workers : GrantReturns(v) \/ RevokeReturns(v) => UNCHANGED core
  BY DEF GrantReturns, RevokeReturns
<1>6. LateWrite \/ OperatorDeletesUser \/ BucketDeleted => work' = work
  BY DEF LateWrite, OperatorDeletesUser, BucketDeleted, Outside
<1> QED
  BY <1>1, <1>3, <1>4, <1>5, <1>6, NextIs

\* A handler's write, at whatever moment it is accepted, changes what policy and ACL say
\* of its own access only.  Excepted is a policy that was read when the bucket had none.
THEOREM GrantsAreSeparate == Spec => OthersUntouched
<1>1. Based /\ [Next]_vars =>
        [\A w \in Workers :
         work'[w] # work[w] =>
            /\ \/ \A a \in Accesses \ {work[w].access} : policy'.stmts[a] = policy.stmts[a]
               \/ work[w].pc \in {"gPutPolicy", "rPutPolicy"} /\ work[w].etag = 0
            /\ \A e \in (acl.entries \cup acl'.entries) :
                 e.id # work[w].id => (e \in acl.entries <=> e \in acl'.entries)]_vars
  BY StepSeparate DEF Based, Spared
<1> QED
  BY <1>1, Belonging, PTL DEF Spec, OthersUntouched

\* Core has a policy, and no call of another access writes one without ETag.
NoBlind(a) == bucket.open => policy.etag # 0 /\ ~BlindWrite(a)

WrittenPoints == {"gAcl", "gPutAcl", "gDone"}

\* So it is of a grant that wrote its statement when nobody else was about to write
\* without ETag, and of one that has returned.
Unblind ==
    /\ \A w \in Workers, a \in Accesses :
         work[w].access = a /\ work[w].pc \in WrittenPoints /\ ~work[w].blind => NoBlind(a)
    /\ \A g \in hist.given : ~g.blind => NoBlind(g.access)

\* A handler is where it was, or is about to write what it has just read.
ReadAgain(w) ==
    work'[w].pc \in PutPolicyPoints =>
      \/ work'[w] = work[w]
      \/ /\ work'[w].etag = (IF bucket.open THEN policy.etag ELSE 0)
         /\ work'[w].access = work[w].access

\* A grant has written its statement before, or writes it now.
WroteIt(w) ==
    work'[w].pc \in WrittenPoints /\ ~work'[w].blind =>
      /\ work'[w].access = work[w].access
      /\ \/ work[w].pc \in WrittenPoints /\ ~work[w].blind
         \/ policy'.etag # 0 /\ ~BlindWrite(work[w].access) /\ late' = late

\* Both hold of every step of a handler.
LEMMA HandlerNotes ==
    ASSUME NEW o \in Owners, NEW p \in Owners, Agree(o, p), Base(o), NEW w \in Workers,
           p[next.user] = work[w].access, HandlerStep(w)
    PROVE  ReadAgain(w) /\ WroteIt(w)
<1>0. policy.etag \in Nat /\ Idle.pc = "idle"
  BY IdleType DEF Base, CoreTypes
<1>a. \A n : work' = [work EXCEPT ![w] = n] => work'[w] = n
  BY DEF Base
<1>b. ASSUME NEW n, work' = [work EXCEPT ![w] = n],
             n.pc \notin PutPolicyPoints \cup WrittenPoints
      PROVE  ReadAgain(w) /\ WroteIt(w)
  BY <1>a, <1>b DEF ReadAgain, WroteIt
<1>c. ASSUME NEW n, work' = [work EXCEPT ![w] = n], n = Idle \/ n.pc \in
               {"gBucket", "gAttrs", "gUser", "gLookup", "gList", "gDrop", "gKey", "gPolicy"}
                 \cup (RevokePoints \ {"rPutPolicy"}) \cup CleanPoints
      PROVE  ReadAgain(w) /\ WroteIt(w)
  BY <1>0, <1>b, <1>c DEF PutPolicyPoints, WrittenPoints, RevokePoints, CleanPoints
<1>d. ASSUME work' = [work EXCEPT ![w] = work[w]], work[w].pc \in PutPolicyPoints
      PROVE  ReadAgain(w) /\ WroteIt(w)
  BY <1>a, <1>d DEF ReadAgain, WroteIt, PutPolicyPoints, WrittenPoints
<1>1. CASE GrantBucket(w) \/ GrantAttrs(w)
  BY <1>1, <1>c, GrantBucketIs DEF Moved, Over
<1>2. CASE GrantUser(w)
  BY <1>2, <1>c, GrantUserIs DEF Sent, Over
<1>3. CASE GrantLookup(w)
  BY <1>3, <1>c, GrantLookupIs DEF Moved, Over
<1>4. CASE ListKeys(w, "gList", "gDrop", Go(w, "gKey"))
  BY <1>4, <1>c, ListKeysIs DEF Moved, Over
<1>5. CASE ListKeys(w, "rList", "rDrop", Go(w, "rBucket"))
  BY <1>5, <1>c, ListKeysIs DEF Moved, Over, RevokePoints
<1>6. CASE ListKeys(w, "cList", "cDrop", Idle)
  <2>1. PICK n : work' = [work EXCEPT ![w] = n] /\ n.pc \in {"idle", "cDrop"}
    BY <1>0, <1>6, ListKeysIs DEF Moved, Over
  <2> QED
    BY <1>b, <2>1 DEF PutPolicyPoints, WrittenPoints
<1>7. CASE DropKeys(w, "gDrop", [work[w] EXCEPT !.todo = {}, !.pc = "gKey"])
  <2>1. DropsKey(o, w, "gDrop", "gKey")
    BY <1>7, DropKeysIs
  <2> QED
    BY <1>c, <2>1 DEF DropsKey, Sent, Over
<1>8. CASE DropKeys(w, "rDrop", [work[w] EXCEPT !.todo = {}, !.pc = "rBucket"])
  <2>1. DropsKey(o, w, "rDrop", "rBucket")
    BY <1>8, DropKeysIs
  <2> QED
    BY <1>c, <2>1 DEF DropsKey, Sent, Over, RevokePoints
<1>9. CASE DropKeys(w, "cDrop", Idle)
  <2>1. DropsKey(o, w, "cDrop", "idle")
    BY <1>9, DropKeysIs
  <2>2. PICK n : /\ work' = [work EXCEPT ![w] = n]
                 /\ n.pc \in {"idle", "cDrop"}
    BY <1>0, <2>1 DEF DropsKey, Sent, Over
  <2> QED
    BY <1>b, <2>2 DEF PutPolicyPoints, WrittenPoints
<1>10. CASE GrantKey(w)
  BY <1>10, <1>c, GrantKeyIs DEF Sent, CleanPoints
<1>11. CASE GetPolicy(w, "gPolicy", "gPutPolicy")
  BY <1>11, <1>a, GetPolicyIs DEF Moved, Same, Call, ReadAgain, WroteIt, WrittenPoints
<1>12. CASE GetPolicy(w, "rPolicy", "rPutPolicy")
  BY <1>12, <1>a, GetPolicyIs DEF Moved, Same, Call, ReadAgain, WroteIt, WrittenPoints
<1>13. CASE At(w, "gPutPolicy") /\ GrantPolicy(w)
  <2>1. PICK m : \E n \in Locals :
             /\ Sent(w, m, n) /\ Same(n, work[w]) /\ m.op = "policy"
             /\ \/ n = work[w]
                \/ n.pc = "gAcl" /\ Taken(m) /\ (BlindWrite(work[w].access) => n.blind)
                \/ n.pc \in {"cOwn", "gPolicy"}
    BY <1>13, GrantPutPolicyIs
  <2>2. PICK n \in Locals :
             /\ Sent(w, m, n) /\ Same(n, work[w]) /\ m.op = "policy"
             /\ \/ n = work[w]
                \/ n.pc = "gAcl" /\ Taken(m) /\ (BlindWrite(work[w].access) => n.blind)
                \/ n.pc \in {"cOwn", "gPolicy"}
    BY <2>1
  <2>3. CASE n = work[w]
    BY <1>13, <1>d, <2>2, <2>3 DEF Sent, PutPolicyPoints, At
  <2>4. CASE n.pc \in {"cOwn", "gPolicy"}
    BY <1>c, <2>2, <2>4 DEF Sent, CleanPoints
  <2>5. CASE n.pc = "gAcl" /\ Taken(m) /\ (BlindWrite(work[w].access) => n.blind)
    <3>1. policy' = [stmts |-> m.stmts, etag |-> policy.etag + 1]
      BY <2>2, <2>5 DEF Taken, Effect
    <3>2. policy'.etag # 0 /\ late' = late
      BY <1>0, <2>5, <3>1 DEF Taken
    <3>3. work'[w] = n /\ n.access = work[w].access
      BY <1>a, <2>2 DEF Sent, Same, Call
    <3> QED
      BY <1>13, <2>5, <3>2, <3>3 DEF ReadAgain, WroteIt, PutPolicyPoints, At
  <2> QED
    BY <2>2, <2>3, <2>4, <2>5
<1>14. CASE At(w, "rPutPolicy") /\ RevokePolicy(w)
  <2>1. PICK n : /\ work' = [work EXCEPT ![w] = n]
                 /\ n = work[w] \/ n = Idle \/ n.pc \in {"rAcl", "rDelUser", "rDone", "rPolicy"}
    BY <1>14, RevokePutPolicyIs DEF Sent, Over
  <2> QED
    BY <1>14, <1>c, <1>d, <2>1 DEF RevokePoints, PutPolicyPoints, At
<1>15. CASE At(w, "gAcl") /\ GrantAcl(w)
  <2>1. PICK n \in Locals : /\ Moved(w, n) /\ Same(n, work[w]) /\ (work[w].blind => n.blind)
                            /\ n.pc \in {"cOwn", "gPutAcl", "gDone"}
    BY <1>15, GrantGetAclIs
  <2>2. work'[w] = n /\ n.access = work[w].access
    BY <1>a, <2>1 DEF Moved, Same, Call
  <2> QED
    BY <1>15, <2>1, <2>2 DEF ReadAgain, WroteIt, PutPolicyPoints, WrittenPoints, At
<1>16. CASE At(w, "gPutAcl") /\ GrantAcl(w)
  <2>1. PICK n \in Locals : /\ work' = [work EXCEPT ![w] = n] /\ Same(n, work[w])
                            /\ (work[w].blind => n.blind)
                            /\ n.pc \in {"cOwn", "gPutAcl", "gAcl", "gDone"}
    BY <1>16, GrantPutAclIs DEF Sent, At
  <2>2. work'[w] = n /\ n.access = work[w].access
    BY <1>a, <2>1 DEF Same, Call
  <2> QED
    BY <1>16, <2>1, <2>2 DEF ReadAgain, WroteIt, PutPolicyPoints, WrittenPoints, At
<1>17. CASE At(w, "rAcl") /\ RevokeAcl(w)
  BY <1>17, <1>c, RevokeGetAclIs DEF Moved, RevokePoints
<1>18. CASE At(w, "rPutAcl") /\ RevokeAcl(w)
  <2>1. PICK n : /\ work' = [work EXCEPT ![w] = n]
                 /\ n = Idle \/ n.pc \in {"rPutAcl", "rPolicy", "rDelUser", "rDone", "rAcl"}
    BY <1>18, RevokePutAclIs DEF Sent, Over, At
  <2> QED
    BY <1>c, <2>1 DEF RevokePoints
<1>19. CASE At(w, "cOwn") /\ Cleanup(w)
  BY <1>19, <1>c, CleanupOwnIs DEF Sent, Over
<1>20. CASE RevokeUser(w)
  BY <1>20, <1>c, RevokeUserIs DEF Moved, RevokePoints
<1>21. CASE RevokeBucket(w)
  BY <1>21, <1>c, RevokeBucketIs DEF Moved, RevokePoints
<1>22. CASE RevokeDelUser(w)
  BY <1>22, <1>c, RevokeDelUserIs DEF Sent, Over, RevokePoints
<1>23. CASE RequestFails(w)
  BY <1>23, <1>c, RequestFailsIs DEF Moved, Over, CleanPoints
<1>24. CASE CallerLeaves(w)
  BY <1>24, <1>c, CallerLeavesIs DEF Moved
<1>25. /\ GrantRotate(w) => \/ ListKeys(w, "gList", "gDrop", Go(w, "gKey"))
                            \/ DropKeys(w, "gDrop", [work[w] EXCEPT !.todo = {}, !.pc = "gKey"])
       /\ RevokeKeys(w) => \/ ListKeys(w, "rList", "rDrop", Go(w, "rBucket"))
                           \/ DropKeys(w, "rDrop", [work[w] EXCEPT !.todo = {}, !.pc = "rBucket"])
  BY DEF GrantRotate, RevokeKeys
<1>26. /\ GrantPolicy(w) => GetPolicy(w, "gPolicy", "gPutPolicy") \/ At(w, "gPutPolicy")
       /\ RevokePolicy(w) => GetPolicy(w, "rPolicy", "rPutPolicy") \/ At(w, "rPutPolicy")
       /\ GrantAcl(w) => At(w, "gAcl") \/ At(w, "gPutAcl")
       /\ RevokeAcl(w) => At(w, "rAcl") \/ At(w, "rPutAcl")
       /\ Cleanup(w) => ListKeys(w, "cList", "cDrop", Idle) \/ DropKeys(w, "cDrop", Idle)
                        \/ At(w, "cOwn")
  BY DEF GrantPolicy, RevokePolicy, GrantAcl, RevokeAcl, Cleanup
<1> QED
  BY <1>1, <1>2, <1>3, <1>4, <1>5, <1>6, <1>7, <1>8, <1>9, <1>10, <1>11, <1>12, <1>13, <1>14,
     <1>15, <1>16, <1>17, <1>18, <1>19, <1>20, <1>21, <1>22, <1>23, <1>24, <1>25, <1>26
     DEF HandlerStep

\* A write on its way was there before, or a handler has just sent it.
NewsOK ==
    \A m \in late' : m \in late \/ m.op # "policy" \/ \E v \in Workers :
      work[v].pc \in PutPolicyPoints /\ m.etag = work[v].etag /\ m.access = work[v].access

\* Then nobody writes without ETag who did not before.
LEMMA NoBlindStays ==
    ASSUME CoreTypes, CoreTypes', Evolves, NewsOK, \A v \in Workers : ReadAgain(v),
           NEW a, NoBlind(a)
    PROVE  NoBlind(a)'
<1> SUFFICES ASSUME bucket'.open PROVE policy'.etag # 0 /\ ~BlindWrite(a)'
  BY DEF NoBlind
<1>1. bucket.open /\ policy.etag # 0 /\ ~BlindWrite(a)
  BY DEF Evolves, NoBlind
<1>2. policy'.etag # 0
  BY <1>1 DEF Evolves, CoreTypes
<1>3. ASSUME NEW v \in Workers, work'[v].pc \in PutPolicyPoints, work'[v].etag = 0
      PROVE  work'[v].access = a
  BY <1>1, <1>3 DEF ReadAgain, BlindWrite, PutPolicyPoints
<1>4. ASSUME NEW m \in late', m.op = "policy", m.etag = 0
      PROVE  m.access = a
  BY <1>1, <1>4 DEF NewsOK, BlindWrite, PutPolicyPoints
<1> QED
  BY <1>2, <1>3, <1>4 DEF BlindWrite, PutPolicyPoints

\* Nor when a grant has just written its statement, and nobody was about to.
LEMMA WrittenNoBlind ==
    ASSUME NEW a, ~BlindWrite(a), policy'.etag # 0, late' = late,
           \A v \in Workers : work'[v].pc \in PutPolicyPoints => work'[v] = work[v]
    PROVE  NoBlind(a)'
BY DEF NoBlind, BlindWrite, PutPolicyPoints

\* A step of a handler changes its own variables, and sends only writes of its own.
LEMMA HandlerNews ==
    ASSUME NEW o \in Owners, Base(o), NEW w \in Workers, HandlerStep(w)
    PROVE  /\ hist' = hist /\ NewsOK /\ Evolves /\ CoreTypes'
           /\ \A v \in Workers : v # w => work'[v] = work[v]
           /\ ReadAgain(w) /\ WroteIt(w)
<1>1. work[w].access \in Accesses /\ CoreTypes
  BY DEF Base, Locals
<1>2. PICK p : p = NextOwner(o, work[w].access)
  OBVIOUS
<1>3. p \in Owners /\ Agree(o, p) /\ p[next.user] = work[w].access
  BY <1>1, <1>2, NextOwnerIs
<1>4. MovesOn(o, w) \/ SendsOn(o, p, w)
  BY <1>3, HandlerStepIs
<1>5. PICK n : work' = [work EXCEPT ![w] = n] /\ UNCHANGED hist
  BY <1>4 DEF MovesOn, SendsOn, Moved, Sent
<1>6. NewsOK
  <2>1. CASE late' = late
    BY <2>1 DEF NewsOK
  <2>2. CASE \E m : Sends(w, m) /\ late' = late \cup {m}
    <3>1. PICK m : Sends(w, m) /\ late' = late \cup {m}
      BY <2>2
    <3>2. m.op = "policy" => /\ work[w].pc \in PutPolicyPoints /\ m.etag = work[w].etag
                             /\ m.access = work[w].access
      BY <3>1 DEF Sends
    <3> QED
      BY <3>1, <3>2 DEF NewsOK
  <2> QED
    BY <1>4, <2>1, <2>2 DEF MovesOn, SendsOn, Moved, Sent
<1>7. ReadAgain(w) /\ WroteIt(w)
  BY <1>3, HandlerNotes
<1>8. Evolves /\ CoreTypes'
  BY HandlerBase DEF Base
<1> QED
  BY <1>5, <1>6, <1>7, <1>8 DEF Base

\* What nobody was about to write without ETag, nobody is after any step.
LEMMA HandlerUnblind ==
    ASSUME NEW o \in Owners, Base(o), NEW w \in Workers, HandlerStep(w), Unblind
    PROVE  Unblind'
<1>1. /\ hist' = hist /\ NewsOK /\ Evolves /\ CoreTypes'
      /\ \A v \in Workers : v # w => work'[v] = work[v]
      /\ ReadAgain(w) /\ WroteIt(w)
  BY HandlerNews
<1>2. \A v \in Workers : ReadAgain(v)
  BY <1>1 DEF ReadAgain
<1>4. \A a : NoBlind(a) => NoBlind(a)'
  BY <1>1, <1>2, NoBlindStays DEF Base
<1>5. ASSUME NEW v \in Workers, NEW a \in Accesses, work'[v].access = a,
             work'[v].pc \in WrittenPoints, ~work'[v].blind
      PROVE  NoBlind(a)'
  <2>1. CASE /\ work[v].access = a /\ work[v].pc \in WrittenPoints /\ ~work[v].blind
    BY <1>4, <2>1 DEF Unblind
  <2>2. CASE /\ v = w /\ policy'.etag # 0 /\ ~BlindWrite(work[w].access) /\ late' = late
             /\ work'[w].access = work[w].access
    <3>1. \A u \in Workers : work'[u].pc \in PutPolicyPoints => work'[u] = work[u]
      BY <1>1, <1>5, <2>2 DEF WrittenPoints, PutPolicyPoints
    <3> QED
      BY <1>5, <2>2, <3>1, WrittenNoBlind
  <2> QED
    BY <1>1, <1>5, <2>1, <2>2 DEF WroteIt
<1>6. \A g \in hist'.given : ~g.blind => NoBlind(g.access)'
  BY <1>1, <1>4 DEF Unblind
<1> QED
  BY <1>5, <1>6 DEF Unblind

\* Nor after a step of somebody else, or of a call that starts or returns.
LEMMA OtherUnblind ==
    ASSUME CoreTypes, CoreTypes', Evolves, late' \subseteq late, Unblind,
           \A v \in Workers : work'[v] = work[v]
                              \/ work'[v].pc \notin PutPolicyPoints \cup WrittenPoints,
           \A g \in hist'.given :
             \/ g \in hist.given
             \/ ~g.blind => NoBlind(g.access)
    PROVE  Unblind'
<1>1. NewsOK /\ \A v \in Workers : ReadAgain(v)
  BY DEF NewsOK, ReadAgain
<1>3. \A a : NoBlind(a) => NoBlind(a)'
  BY <1>1, NoBlindStays
<1>4. ASSUME NEW v \in Workers, NEW a \in Accesses, work'[v].access = a,
             work'[v].pc \in WrittenPoints, ~work'[v].blind
      PROVE  NoBlind(a)'
  BY <1>3, <1>4 DEF Unblind
<1>5. \A g \in hist'.given : ~g.blind => NoBlind(g.access)'
  BY <1>3 DEF Unblind
<1> QED
  BY <1>4, <1>5 DEF Unblind

\* A call starts.
LEMMA StartUnblind ==
    ASSUME NEW o \in Owners, Base(o), NEW w \in Workers, StartGrant(w) \/ StartRevoke(w), Unblind
    PROVE  Unblind'
<1>1. PICK n \in Locals : /\ work' = [work EXCEPT ![w] = n] /\ UNCHANGED <<core, late>>
                          /\ n.pc \in {"gBucket", "rUser"}
  BY StartGrantIs, StartRevokeIs
<1>2. \E given : given \subseteq hist.given /\ hist' = [hist EXCEPT !.given = given]
  <2>1. \A a : {g \in hist.given : g.access # a} \subseteq hist.given
    OBVIOUS
  <2>2. \A a, id : {g \in hist.given : g.access # a \/ (g.id # id /\ RootOf[a] # 0)}
                     \subseteq hist.given
    OBVIOUS
  <2> QED
    BY <2>1, <2>2, StartGrantIs, StartRevokeIs
<1>3. hist'.given \subseteq hist.given
  BY <1>1, <1>2, TakenBack
<1>4. \A v \in Workers : work'[v] = work[v] \/ work'[v] = n
  BY <1>1 DEF Base
<1>5. Evolves /\ CoreTypes /\ CoreTypes'
  BY StartBase DEF Base
<1> QED
  BY <1>1, <1>3, <1>4, <1>5, OtherUnblind DEF PutPolicyPoints, WrittenPoints

\* A call returns.
LEMMA ReturnUnblind ==
    ASSUME NEW o \in Owners, Base(o), NEW w \in Workers, GrantReturns(w) \/ RevokeReturns(w),
           Unblind
    PROVE  Unblind'
<1>1. work' = [work EXCEPT ![w] = Idle] /\ UNCHANGED <<core, late>>
  BY GrantReturnsIs, RevokeReturnsIs
<1>2. Evolves /\ CoreTypes /\ CoreTypes'
  BY ReturnBase DEF Base
<1>3. \A v \in Workers : work'[v] = work[v] \/ work'[v].pc = "idle"
  BY <1>1, IdleType DEF Base
<1>4. ASSUME NEW g \in hist'.given, g \notin hist.given, ~g.blind PROVE NoBlind(g.access)
  <2>1. CASE GrantReturns(w)
    <3>1. At(w, "gDone") /\ g.access = work[w].access /\ ~work[w].blind
      BY <1>4, <2>1, GrantReturnsIs
    <3>2. g.access \in Accesses
      BY <3>1 DEF Base, Locals
    <3> QED
      BY <3>1, <3>2 DEF Unblind, WrittenPoints, At
  <2>2. CASE RevokeReturns(w)
    BY <1>4, <2>2, RevokeReturnsIs
  <2> QED
    BY <2>1, <2>2
<1> QED
  BY <1>1, <1>2, <1>3, <1>4, OtherUnblind DEF PutPolicyPoints, WrittenPoints

\* A step leaves Unblind true.
LEMMA UnblindStep ==
    ASSUME NEW o \in Owners, Base(o), [Next]_vars, Unblind
    PROVE  Unblind'
<1>1. CASE LateWrite
  <2>1. work' = work /\ hist' = hist /\ late' \subseteq late
    BY <1>1 DEF LateWrite
  <2> QED
    BY <1>1, <2>1, LateBase, OtherUnblind DEF Base
<1>2. CASE OperatorDeletesUser \/ BucketDeleted
  <2>1. work' = work /\ late' = late
    BY <1>2 DEF OperatorDeletesUser, BucketDeleted, Outside
  <2>2. hist'.given = hist.given
    BY <1>2 DEF OperatorDeletesUser, BucketDeleted, Base, CoreTypes
  <2> QED
    BY <1>2, <2>1, <2>2, OutsideBase, OtherUnblind DEF Base
<1>3. CASE UNCHANGED vars
  <2>1. work' = work /\ hist' = hist /\ late' \subseteq late
    BY <1>3 DEF vars
  <2> QED
    BY <1>3, <2>1, StutterBase, OtherUnblind DEF Base
<1> QED
  BY <1>1, <1>2, <1>3, NextIs, HandlerUnblind, StartUnblind, ReturnUnblind

\* A policy that a grant wrote when nobody was about to write without ETag is never
\* written without ETag by another access.
THEOREM Unblinding == Spec => []Unblind
<1>1. Init => Unblind
  BY IdleType DEF Init, Unblind, WrittenPoints
<1>2. Based /\ [Next]_vars /\ Unblind => Unblind'
  BY UnblindStep DEF Based
<1> QED
  BY <1>1, <1>2, Belonging, PTL DEF Spec

\* A write on its way that Core would accept, it would have accepted before.
LEMMA LiveStays ==
    ASSUME NEW o, Base(o), CoreTypes', Evolves, NEW m \in late
    PROVE  /\ PolicyLive(m)' => PolicyLive(m) /\ (m.etag # 0 => policy'.etag = policy.etag)
           /\ AclLive(m)' => AclLive(m) /\ acl'.etag = acl.etag
<1>1. /\ policy.etag \in Nat /\ policy'.etag \in Nat /\ acl.etag \in Nat /\ acl'.etag \in Nat
      /\ bucket'.open => bucket.open
      /\ bucket.root = 0 => bucket'.root = 0
      /\ policy'.etag >= policy.etag /\ acl'.etag >= acl.etag
  BY DEF Base, CoreTypes, Evolves
<1>2. MsgOK(o, m)
  BY DEF Base
<1>3. m.op = "policy" => m.etag \in Nat /\ m.etag <= policy.etag
  BY <1>2 DEF MsgOK, PolicyFor
<1>4. m.op = "acl" => m.etag \in Nat /\ m.etag <= acl.etag
  BY <1>2 DEF MsgOK, AclFor
<1> QED
  BY <1>1, <1>3, <1>4 DEF PolicyLive, AclLive

\* What Core says of this access is what it said, but that an operator may have
\* deleted its user, and another access may have written a policy without ETag.
Kindly(o, a) ==
    /\ users'[a] = users[a] \/ (users'[a] = 0 /\ users[a] \in hist'.removed)
    /\ \A id \in hist.removed : id \in hist'.removed
    /\ policy'.stmts[a] \in {policy.stmts[a], Nobody}
    /\ NoBlind(a) => policy'.stmts[a] = policy.stmts[a]
    /\ \A id \in Nat : UserOf(o, id, a) =>
         KeysOf(id)' = KeysOf(id) /\ EntriesOf(id, acl'.entries) = EntriesOf(id, acl.entries)

\* Nothing new is on its way for this access.
NoNews(a) == \A m \in late' : m.access = a => m \in late

\* Then whoever acts alone for it, goes on to.
LEMMA AloneElsewhere ==
    ASSUME NEW o, Base(o), CoreTypes', Evolves, NEW w \in Workers, NEW k \in Locals,
           Alone(w, k), NoNews(k.access),
           \A v \in Workers \ {w} : Busy(v, k.access)' => Busy(v, k.access)
    PROVE  Alone(w, k)'
<1>1. \A v \in Workers \ {w} : ~Busy(v, k.access)'
  BY DEF Alone
<1>2. ASSUME NEW m \in late', m.access = k.access
      PROVE  (/\ m.op \notin {"key", "dropUser"}
              /\ PolicyMine(k, m)
              /\ AclLive(m) =>
                   /\ k.pc \in PutAclPoints /\ k.etag = acl.etag
                   /\ k.pc = "gPutAcl" => EntriesOf(k.id, m.entries) = Exact(k)
                   /\ k.pc = "rPutAcl" => EntriesOf(k.id, m.entries) = {}
              /\ m.op = "dropKey" /\ k.pc \in KeyPoints => m.id # k.key)'
  <2>1. m \in late
    BY <1>2 DEF NoNews
  <2>2. /\ PolicyLive(m)' => PolicyLive(m) /\ (m.etag # 0 => policy'.etag = policy.etag)
        /\ AclLive(m)' => AclLive(m) /\ acl'.etag = acl.etag
    BY <2>1, LiveStays
  <2>3. /\ m.op \notin {"key", "dropUser"}
        /\ PolicyMine(k, m)
        /\ AclLive(m) =>
             /\ k.pc \in PutAclPoints /\ k.etag = acl.etag
             /\ k.pc = "gPutAcl" => EntriesOf(k.id, m.entries) = Exact(k)
             /\ k.pc = "rPutAcl" => EntriesOf(k.id, m.entries) = {}
        /\ m.op = "dropKey" /\ k.pc \in KeyPoints => m.id # k.key
    BY <1>2, <2>1 DEF Alone
  <2>4. PolicyMine(k, m)'
    BY <2>2, <2>3 DEF PolicyMine
  <2> QED
    BY <2>2, <2>3, <2>4
<1> QED
  BY <1>1, <1>2 DEF Alone

\* A grant has achieved what it had.
LEMMA GrantedElsewhere ==
    ASSUME NEW o, Base(o), NEW w \in Workers, NEW k \in Locals, LocalOK(o, k), Kindly(o, k.access),
           k.pc \in WrittenPoints /\ ~k.blind => NoBlind(k.access), Granted(k)
    PROVE  Granted(k)'
<1>1. k.pc \in UserPoints => UserOf(o, k.id, k.access) /\ k.id \in Nat /\ k.id # 0
  BY DEF LocalOK, Locals
<1>2. (k.pc \in UserPoints /\ k.id \notin hist.removed => users[k.access] = k.id)'
  BY <1>1 DEF Granted, Kindly
<1>3. (k.pc \in KeyPoints => [id |-> k.key, owner |-> k.id] \in keys)'
  <2> SUFFICES ASSUME k.pc \in KeyPoints PROVE [id |-> k.key, owner |-> k.id] \in keys'
    OBVIOUS
  <2>1. PICK j : j = [id |-> k.key, owner |-> k.id]
    OBVIOUS
  <2>2. j \in keys /\ j.owner = k.id
    BY <2>1 DEF Granted
  <2>3. k.pc \in UserPoints
    BY DEF KeyPoints, UserPoints
  <2>4. KeysOf(k.id)' = KeysOf(k.id)
    BY <1>1, <2>3 DEF Kindly
  <2> QED
    BY <2>1, <2>2, <2>4 DEF KeysOf
<1>4. (k.pc \in {"gAcl", "gPutAcl", "gDone"} /\ ~k.blind =>
         policy.stmts[k.access] = [id |-> k.id, mode |-> k.mode])'
  BY DEF Granted, Kindly, WrittenPoints
<1>5. (k.pc = "gDone" => EntriesOf(k.id, acl.entries) = Exact(k))'
  BY <1>1 DEF Granted, Kindly, UserPoints
<1> QED
  BY <1>2, <1>3, <1>4, <1>5 DEF Granted

\* What says nothing of a user goes on to.
LEMMA NothingElsewhere ==
    ASSUME NEW o, Evolves, NEW a, Kindly(o, a), NEW id \in Nat, UserOf(o, id, a)
    PROVE  /\ NoStatement(a, id) => NoStatement(a, id)'
           /\ NoEntries(a, id) => NoEntries(a, id)'
           /\ KeysOf(id)' = KeysOf(id)
           /\ users[a] # id => users'[a] # id
<1>1. id # 0 /\ Nobody.id = 0
  BY DEF UserOf, Nobody
<1>2. policy'.stmts[a] \in {policy.stmts[a], Nobody} /\ (bucket'.open => bucket.open)
  BY DEF Kindly, Evolves
<1>3. NoStatement(a, id) => NoStatement(a, id)'
  BY <1>1, <1>2 DEF NoStatement
<1>4. NoEntries(a, id) => NoEntries(a, id)'
  BY DEF NoEntries, Kindly, Evolves
<1> QED
  BY <1>1, <1>3, <1>4 DEF Kindly

\* A revoke has achieved what it had.
LEMMA RevokedElsewhere ==
    ASSUME NEW o, Base(o), Evolves, NEW w \in Workers, NEW k \in Locals, LocalOK(o, k),
           Kindly(o, k.access), k.id # 0, Revoked(k)
    PROVE  Revoked(k)'
<1>1. UserOf(o, k.id, k.access) /\ k.id \in Nat
  BY DEF LocalOK, Locals
<1>2. /\ NoStatement(k.access, k.id) => NoStatement(k.access, k.id)'
      /\ NoEntries(k.access, k.id) => NoEntries(k.access, k.id)'
      /\ KeysOf(k.id)' = KeysOf(k.id)
      /\ users[k.access] # k.id => users'[k.access] # k.id
  BY <1>1, NothingElsewhere
<1>3. (k.pc = "rDrop" => {j.id : j \in KeysOf(k.id)} \subseteq k.todo)'
  BY <1>2 DEF Revoked
<1>4. bucket'.open => bucket.open
  BY DEF Evolves
<1> QED
  BY <1>2, <1>3, <1>4 DEF Revoked

\* An undisturbed call, seen from a step of another access.
LEMMA CalmElsewhere ==
    ASSUME NEW o, Base(o), CoreTypes', Evolves, NEW w \in Workers, NEW k \in Locals, LocalOK(o, k),
           k.pc \in WrittenPoints /\ ~k.blind => NoBlind(k.access),
           CalmOK(w, k), Kindly(o, k.access), NoNews(k.access),
           \A v \in Workers \ {w} : Busy(v, k.access)' => Busy(v, k.access)
    PROVE  CalmOK(w, k)'
<1>1. k.calm /\ k.pc \in GrantPoints => Alone(w, k)' /\ Granted(k)'
  BY AloneElsewhere, GrantedElsewhere DEF CalmOK
<1>2. k.calm /\ k.pc \in RevokePoints => Alone(w, k)' /\ (k.id # 0 => Revoked(k)')
  BY AloneElsewhere, RevokedElsewhere DEF CalmOK
<1> QED
  BY <1>1, <1>2 DEF CalmOK

\* What a revoke left, seen from a step of another access.
LEMMA GoneElsewhere ==
    ASSUME NEW o, Base(o), CoreTypes', Evolves, NEW r \in hist.revoked, GoneOK(r),
           Kindly(o, r.access), NoNews(r.access),
           \A w \in Workers : work'[w].pc \in GrantPoints => work'[w].id # r.id
    PROVE  GoneOK(r)'
<1>1. UserOf(o, r.id, r.access) /\ r.id \in Nat
  BY DEF Base, CoreTypes, CoreOK, Accounts
<1>2. /\ NoStatement(r.access, r.id)'
      /\ NoEntries(r.access, r.id)'
      /\ KeysOf(r.id)' = {}
      /\ users'[r.access] # r.id
  BY <1>1, NothingElsewhere DEF GoneOK
<1>3. ASSUME NEW m \in late', m.access = r.access
      PROVE  MsgGone(m, r)'
  <2>1. m \in late /\ (bucket'.open => bucket.open)
    BY <1>3 DEF NoNews, Evolves
  <2>2. /\ PolicyLive(m)' => PolicyLive(m)
        /\ AclLive(m)' => AclLive(m)
    BY <2>1, LiveStays
  <2>3. MsgGone(m, r)
    BY <1>3, <2>1 DEF GoneOK
  <2> QED
    BY <2>1, <2>2, <2>3 DEF MsgGone
<1>4. (\A w \in Workers : work[w].pc \in GrantPoints => work[w].id # r.id)'
  OBVIOUS
<1> QED
  BY <1>2, <1>3, <1>4 DEF GoneOK

\* What a grant gave, seen from a step of another access.
LEMMA GivenElsewhere ==
    ASSUME NEW o, Base(o), CoreTypes', Evolves, NEW g \in hist.given, GivenOK(g),
           NoBlind(g.access), Kindly(o, g.access), NoNews(g.access),
           \A w \in Workers : Busy(w, g.access)' => GivenBusy(w, g)'
    PROVE  GivenOK(g)'
<1>1. UserOf(o, g.id, g.access) /\ g.id \in Nat /\ g.id # 0
  BY DEF Base, CoreTypes, CoreOK, Grants, UserOf
<1>2. (g.id \notin hist.removed => users[g.access] = g.id)'
  BY <1>1 DEF GivenOK, Kindly
<1>3. ([id |-> g.key, owner |-> g.id] \in keys)'
  <2>1. PICK j : j = [id |-> g.key, owner |-> g.id]
    OBVIOUS
  <2>2. j \in keys /\ j.owner = g.id
    BY <2>1 DEF GivenOK
  <2>4. KeysOf(g.id)' = KeysOf(g.id)
    BY <1>1 DEF Kindly
  <2> QED
    BY <2>1, <2>2, <2>4 DEF KeysOf
<1>4. /\ (policy.stmts[g.access] = [id |-> g.id, mode |-> g.mode])'
      /\ (EntriesOf(g.id, acl.entries) = Exact(g))'
  BY <1>1 DEF GivenOK, Kindly
<1>5. ASSUME NEW m \in late', m.access = g.access
      PROVE  MsgGiven(m, g)'
  <2>1. m \in late
    BY <1>5 DEF NoNews
  <2>2. /\ PolicyLive(m)' => PolicyLive(m)
        /\ AclLive(m)' => AclLive(m)
    BY <2>1, LiveStays
  <2>3. MsgGiven(m, g)
    BY <1>5, <2>1 DEF GivenOK
  <2> QED
    BY <2>2, <2>3 DEF MsgGiven
<1>6. (\A w \in Workers : Busy(w, g.access) => GivenBusy(w, g))'
  OBVIOUS
<1> QED
  BY <1>2, <1>3, <1>4, <1>5, <1>6 DEF GivenOK

\* A write for one access, accepted or not, is kind to the others.
LEMMA CommitElsewhere ==
    ASSUME NEW o \in Owners, Base(o), NEW m, MsgOK(o, m), Commit(m),
           m \in late \/ \E w \in Workers : Sends(w, m),
           hist'.removed = hist.removed, NEW a \in Accesses, a # m.access
    PROVE  Kindly(o, a)
<1>0. /\ CoreTypes /\ CoreOK(o) /\ next.user \in Nat
      /\ users \in [Accesses -> Nat] /\ keys \subseteq [id : Nat, owner : Nat]
      /\ acl.entries \subseteq Grant
  BY DEF Base, CoreTypes
<1>1. CASE UNCHANGED core
  <2>1. /\ users' = users /\ keys' = keys /\ policy' = policy /\ acl' = acl
    BY <1>1 DEF core
  <2> QED
    BY <2>1 DEF Kindly, KeysOf
<1>2. CASE Answer(m) = "ok" /\ Effect(m) /\ m.op = "user"
  <2>1. /\ users' = [users EXCEPT ![m.access] = next.user]
        /\ keys' = keys /\ policy' = policy /\ acl' = acl
    BY <1>2 DEF Effect
  <2>2. users'[a] = users[a]
    BY <1>0, <2>1
  <2> QED
    BY <2>1, <2>2 DEF Kindly, KeysOf
<1>3. CASE Answer(m) = "ok" /\ Effect(m) /\ m.op = "dropUser"
  <2>1. /\ users' = [b \in Accesses |-> IF users[b] = m.id THEN 0 ELSE users[b]]
        /\ keys' = keys /\ policy' = policy /\ acl' = acl
    BY <1>3 DEF Effect
  <2>2. users[a] # 0 => o[users[a]] = a
    BY <1>0 DEF CoreOK, UserOf
  <2>3. m.id # 0 => o[m.id] = m.access
    BY <1>3 DEF MsgOK, UserOf
  <2>4. users'[a] = users[a]
    BY <2>1, <2>2, <2>3
  <2> QED
    BY <2>1, <2>4 DEF Kindly, KeysOf
<1>4. CASE Answer(m) = "ok" /\ Effect(m) /\ m.op = "key"
  <2>1. /\ keys' = keys \cup {[id |-> next.key, owner |-> m.id]}
        /\ users' = users /\ policy' = policy /\ acl' = acl
    BY <1>4 DEF Effect
  <2>2. m.id # 0 => o[m.id] = m.access
    BY <1>4 DEF MsgOK, UserOf
  <2>3. PICK new : keys' = keys \cup {new} /\ new.owner = m.id
    <3>1. PICK new : new = [id |-> next.key, owner |-> m.id]
      OBVIOUS
    <3>2. keys' = keys \cup {new}
      BY <2>1, <3>1, Zenon
    <3> QED
      BY <3>1, <3>2
  <2>4. ASSUME NEW id \in Nat, UserOf(o, id, a) PROVE KeysOf(id)' = KeysOf(id)
    <3>1. id # m.id
      BY <2>2, <2>4 DEF UserOf
    <3> QED
      BY <2>3, <3>1 DEF KeysOf
  <2> QED
    BY <2>1, <2>4 DEF Kindly
<1>5. CASE Answer(m) = "ok" /\ Effect(m) /\ m.op = "dropKey"
  <2>1. /\ keys' = {k \in keys : k.id # m.id}
        /\ users' = users /\ policy' = policy /\ acl' = acl
    BY <1>5 DEF Effect
  <2>2. \A k \in keys : k.id = m.id => o[k.owner] = m.access
    BY <1>5 DEF MsgOK, KeyFor
  <2>4. ASSUME NEW id \in Nat, UserOf(o, id, a) PROVE KeysOf(id)' = KeysOf(id)
    <3>1. \A k \in keys : k.owner = id => k.id # m.id
      BY <2>2, <2>4 DEF UserOf
    <3> QED
      BY <2>1, <3>1 DEF KeysOf
  <2> QED
    BY <2>1, <2>4 DEF Kindly
<1>6. CASE Answer(m) = "ok" /\ Effect(m) /\ m.op = "policy"
  <2>1. /\ policy'.stmts = m.stmts
        /\ users' = users /\ keys' = keys /\ acl' = acl
    BY <1>6 DEF Effect
  <2>2. bucket.open /\ m.etag \in {0, policy.etag}
    BY <1>6 DEF Answer
  <2>3. m.stmts[a] \in {policy.stmts[a], Nobody}
    BY <1>6, <2>2 DEF MsgOK, PolicyFor
  <2>4. NoBlind(a) => m.etag # 0
    <3> SUFFICES ASSUME m.etag = 0 PROVE BlindWrite(a)
      BY <2>2 DEF NoBlind
    <3> QED
      BY <1>6 DEF BlindWrite, Sends, PutPolicyPoints
  <2>5. NoBlind(a) => m.stmts[a] = policy.stmts[a]
    BY <1>6, <2>2, <2>4 DEF MsgOK, PolicyFor
  <2> QED
    BY <2>1, <2>3, <2>5 DEF Kindly, KeysOf
<1>7. CASE Answer(m) = "ok" /\ Effect(m) /\ m.op = "acl"
  <2>1. /\ acl'.entries = m.entries
        /\ users' = users /\ keys' = keys /\ policy' = policy
    BY <1>7 DEF Effect
  <2>2. m.etag = acl.etag
    BY <1>7 DEF Answer
  <2>3. \A e \in m.entries \cup acl.entries :
               o[e.id] # m.access => (e \in m.entries <=> e \in acl.entries)
    BY <1>7, <2>2 DEF MsgOK, AclFor
  <2>4. ASSUME NEW id \in Nat, UserOf(o, id, a)
        PROVE  EntriesOf(id, m.entries) = EntriesOf(id, acl.entries)
    BY <2>3, <2>4 DEF EntriesOf, UserOf
  <2> QED
    BY <2>1, <2>4 DEF Kindly, KeysOf
<1>8. \/ UNCHANGED core
      \/ Answer(m) = "ok" /\ Effect(m)
  BY DEF Commit
<1>9. m.op \in {"user", "key", "dropUser", "dropKey", "policy", "acl"}
  BY DEF MsgOK
<1> QED
  BY <1>1, <1>2, <1>3, <1>4, <1>5, <1>6, <1>7, <1>8, <1>9

\* What a handler writes says of its access what the handler is after.
LEMMA StatementPut ==
    ASSUME NEW o, Base(o), NEW w \in Workers, NEW k \in Locals, k = work[w], NEW m, Sends(w, m),
           m.op = "policy"
    PROVE  /\ k.pc \in PutPolicyPoints /\ m.etag = k.etag /\ m.access = k.access
           /\ k.pc = "gPutPolicy" => m.stmts[k.access] = [id |-> k.id, mode |-> k.mode]
           /\ k.pc = "rPutPolicy" /\ k.id # 0 => m.stmts[k.access].id # k.id
           /\ k.pc = "rPutPolicy" => \/ m.stmts[k.access] = Nobody
                                     \/ m.stmts[k.access] = k.stmts[k.access]
<1>1. /\ k.pc \in PutPolicyPoints /\ m.etag = k.etag /\ m.access = k.access
      /\ m.stmts = StatementsToPut(w)
  BY DEF Sends
<1>2. k.stmts \in [Accesses -> Grant] /\ k.access \in Accesses
  BY DEF Locals
<1>3. CASE k.pc = "gPutPolicy"
  <2>1. m.stmts = [k.stmts EXCEPT ![k.access] = [id |-> k.id, mode |-> k.mode]]
    BY <1>1, <1>3 DEF StatementsToPut, At
  <2> QED
    BY <1>1, <1>2, <1>3, <2>1
<1>4. CASE k.pc = "rPutPolicy"
  <2>1. PICK s : s = (IF Legacy(w) \/ k.stmts[k.access].id = k.id THEN Nobody
                                                           ELSE k.stmts[k.access])
    OBVIOUS
  <2>2. m.stmts = [k.stmts EXCEPT ![k.access] = s]
    BY <1>1, <1>4, <2>1 DEF StatementsToPut, At, WithoutStatement
  <2>3. m.stmts[k.access] = s
    BY <1>2, <2>2
  <2> QED
    BY <1>1, <1>4, <2>1, <2>3, NobodyType DEF Legacy
<1> QED
  BY <1>1, <1>3, <1>4 DEF PutPolicyPoints

\* Likewise for the ACL.
LEMMA EntriesPut ==
    ASSUME NEW o, Base(o), NEW w \in Workers, NEW k \in Locals, k = work[w], NEW m, Sends(w, m),
           m.op = "acl"
    PROVE  /\ k.pc \in PutAclPoints /\ m.etag = k.etag /\ m.access = k.access
           /\ k.pc = "gPutAcl" => EntriesOf(k.id, m.entries) = Exact(k)
           /\ k.pc = "rPutAcl" => EntriesOf(k.id, m.entries) = {}
           /\ \A id : id # k.id => EntriesOf(id, m.entries) = EntriesOf(id, k.entries)
<1>1. /\ k.pc \in PutAclPoints /\ m.etag = k.etag /\ m.access = k.access
      /\ m.entries = EntriesToPut(w)
  BY DEF Sends
<1>2. PICK new : new = [id |-> k.id, mode |-> k.mode]
  OBVIOUS
<1>3. new.id = k.id /\ Exact(k) = {new}
  BY <1>2 DEF Exact
<1>4. /\ k.pc = "gPutAcl" => m.entries = (k.entries \ EntriesOf(k.id, k.entries)) \cup {new}
      /\ k.pc = "rPutAcl" => m.entries = k.entries \ EntriesOf(k.id, k.entries)
  BY <1>1, <1>3 DEF EntriesToPut, At
<1> QED
  BY <1>1, <1>3, <1>4 DEF EntriesOf, PutAclPoints

\* A write of a handler that is up to date is accepted, and makes all others of
\* its kind out of date.
LEMMA PutTaken ==
    ASSUME NEW o, Base(o), NEW w \in Workers, NEW k \in Locals, k = work[w], NEW m, Sends(w, m),
           Commit(m)
    PROVE  /\ k.pc \in PutPolicyPoints /\ k.etag = policy.etag /\ bucket.open =>
                policy'.etag # policy.etag
           /\ k.pc \in PutAclPoints /\ k.etag = acl.etag /\ bucket.root # 0 =>
                acl'.etag # acl.etag
<1>0. policy.etag \in Nat /\ acl.etag \in Nat
  BY DEF Base, CoreTypes
<1>1. ASSUME k.pc \in PutPolicyPoints, k.etag = policy.etag, bucket.open
      PROVE  policy'.etag # policy.etag
  <2>1. m.op = "policy" /\ m.etag = policy.etag
    BY <1>1 DEF Sends, At, PutPolicyPoints, DropPoints, PutAclPoints
  <2>2. Answer(m) = "ok"
    BY <1>1, <2>1 DEF Answer
  <2>3. policy' = [stmts |-> m.stmts, etag |-> policy.etag + 1]
    BY <2>1, <2>2 DEF Commit, Effect
  <2> QED
    BY <1>0, <2>3
<1>2. ASSUME k.pc \in PutAclPoints, k.etag = acl.etag, bucket.root # 0
      PROVE  acl'.etag # acl.etag
  <2>1. m.op = "acl" /\ m.etag = acl.etag
    BY <1>2 DEF Sends, At, PutPolicyPoints, DropPoints, PutAclPoints
  <2>2. Answer(m) = "ok"
    BY <1>2, <2>1 DEF Answer
  <2>3. acl' = [entries |-> m.entries, etag |-> acl.etag + 1]
    BY <2>1, <2>2 DEF Commit, Effect
  <2> QED
    BY <1>0, <2>3
<1> QED
  BY <1>1, <1>2

\* The call goes on, from where it may have sent a policy, with what it said then.
Goes(k, n) ==
    /\ n.access = k.access
    /\ k.pc \in GrantSent => n.pc \in GrantSent /\ n.id = k.id /\ n.mode = k.mode
    /\ k.pc \in RevokeSent => n.pc \in RevokeSent /\ n.id = k.id

\* So what it has sent without ETag still says what it wants.
LEMMA MineGoes ==
    ASSUME NEW k, NEW n, NEW m, Goes(k, n), PolicyMine(k, m),
           PolicyLive(m)' => PolicyLive(m) /\ m.etag = 0
    PROVE  PolicyMine(n, m)'
<1> SUFFICES ASSUME PolicyLive(m)'
             PROVE  /\ n.pc \in GrantSent \cup RevokeSent
                    /\ n.pc \in GrantSent =>
                         m.stmts[n.access] = [id |-> n.id, mode |-> n.mode]
                    /\ n.pc \in RevokeSent /\ n.id # 0 => m.stmts[n.access].id # n.id
  BY DEF PolicyMine
<1>1. PolicyLive(m)
  OBVIOUS
<1>2. CASE k.pc \in GrantSent
  BY <1>1, <1>2 DEF PolicyMine, Goes, GrantSent, RevokeSent
<1>3. CASE k.pc \in RevokeSent
  BY <1>1, <1>3 DEF PolicyMine, Goes, GrantSent, RevokeSent
<1> QED
  BY <1>1, <1>2, <1>3 DEF PolicyMine

\* Whoever acts alone and sends nothing, goes on to act alone.
LEMMA AloneMoved ==
    ASSUME NEW o, Base(o), NEW w \in Workers, NEW k \in Locals, k = work[w], NEW n \in Locals,
           Moved(w, n), Alone(w, k), Goes(k, n),
           k.pc \notin PutPolicyPoints \cup PutAclPoints,
           n.pc \in KeyPoints => k.pc \in KeyPoints /\ n.key = k.key
    PROVE  Alone(w, n)'
<1>0. n.access = k.access
  BY DEF Goes
<1>1. \A v \in Workers \ {w} : ~Busy(v, n.access)'
  BY <1>0 DEF Alone, Moved, Busy, Base
<1>2. late' = late /\ bucket' = bucket /\ policy' = policy /\ acl' = acl
  BY DEF Moved, core
<1>3. ASSUME NEW m \in late', m.access = n.access
      PROVE  /\ m.op \notin {"key", "dropUser"} /\ PolicyMine(n, m)' /\ ~AclLive(m)'
             /\ m.op = "dropKey" /\ n.pc \in KeyPoints => m.id # n.key
  <2>1. /\ m.op \notin {"key", "dropUser"} /\ PolicyMine(k, m) /\ ~AclLive(m)
        /\ m.op = "dropKey" /\ k.pc \in KeyPoints => m.id # k.key
    BY <1>0, <1>2, <1>3 DEF Alone
  <2>2. /\ PolicyLive(m)' => PolicyLive(m) /\ m.etag = 0
        /\ AclLive(m)' => AclLive(m)
    BY <1>2, <2>1 DEF PolicyMine, PolicyLive, AclLive
  <2>3. PolicyMine(n, m)'
    BY <2>1, <2>2, MineGoes
  <2> QED
    BY <2>1, <2>2, <2>3
<1> QED
  BY <1>1, <1>3 DEF Alone

\* Likewise if it sends something and is answered.
LEMMA AloneSent ==
    ASSUME NEW o, Base(o), CoreTypes', Evolves, NEW w \in Workers, NEW k \in Locals, k = work[w],
           NEW n \in Locals, NEW m, Sent(w, m, n), Commit(m), late' = late,
           Alone(w, k), Goes(k, n),
           n.pc \in KeyPoints => (k.pc \in KeyPoints /\ n.key = k.key) \/ n.key = next.key
    PROVE  Alone(w, n)'
<1>0. n.access = k.access
  BY DEF Goes
<1>1. \A v \in Workers \ {w} : ~Busy(v, n.access)'
  BY <1>0 DEF Alone, Sent, Busy, Base
<1>2. Sends(w, m) /\ next.key \in Nat
  BY DEF Sent, Base, CoreTypes
<1>3. ASSUME NEW l \in late', l.access = n.access
      PROVE  /\ l.op \notin {"key", "dropUser"} /\ PolicyMine(n, l)' /\ ~AclLive(l)'
             /\ l.op = "dropKey" /\ n.pc \in KeyPoints => l.id # n.key
  <2>1. l \in late /\ MsgOK(o, l)
    BY DEF Base
  <2>2. l.op \notin {"key", "dropUser"}
    BY <1>0, <1>3, <2>1 DEF Alone
  <2>3. PolicyMine(n, l)'
    <3>1. PolicyLive(l)' => PolicyLive(l) /\ (l.etag # 0 => policy'.etag = policy.etag)
      BY <2>1, LiveStays
    <3>2. PolicyMine(k, l)
      BY <1>0, <1>3, <2>1 DEF Alone
    <3>3. PolicyLive(l) /\ l.etag # 0 =>
            k.pc \in PutPolicyPoints /\ k.etag = policy.etag /\ bucket.open
      BY <3>2 DEF PolicyMine, PolicyLive
    <3>4. PolicyLive(l)' => PolicyLive(l) /\ l.etag = 0
      BY <1>2, <3>1, <3>3, PutTaken
    <3> QED
      BY <3>2, <3>4, MineGoes
  <2>4. ~AclLive(l)'
    <3>1. AclLive(l)' => AclLive(l) /\ acl'.etag = acl.etag
      BY <2>1, LiveStays
    <3>2. AclLive(l) => k.pc \in PutAclPoints /\ k.etag = acl.etag /\ bucket.root # 0
      BY <1>0, <1>3, <2>1 DEF Alone, AclLive
    <3> QED
      BY <1>2, <3>1, <3>2, PutTaken
  <2>5. l.op = "dropKey" /\ n.pc \in KeyPoints => l.id # n.key
    <3>1. l.op = "dropKey" => l.id \in Nat /\ l.id < next.key
      BY <2>1 DEF MsgOK
    <3>2. l.op = "dropKey" /\ k.pc \in KeyPoints => l.id # k.key
      BY <1>0, <1>3, <2>1 DEF Alone
    <3> QED
      BY <1>2, <3>1, <3>2
  <2> QED
    BY <2>2, <2>3, <2>4, <2>5
<1> QED
  BY <1>1, <1>3 DEF Alone

\* Likewise if the answer to a write of policy or ACL is lost.
LEMMA AloneLost ==
    ASSUME NEW o, Base(o), NEW w \in Workers, NEW k \in Locals, k = work[w],
           NEW m, Sent(w, m, k), UNCHANGED core, late' = late \cup {m},
           m.op \in {"policy", "acl"}, Alone(w, k)
    PROVE  Alone(w, k)'
<1>1. \A v \in Workers \ {w} : ~Busy(v, k.access)'
  BY DEF Alone, Sent, Busy, Base
<1>2. Sends(w, m) /\ bucket' = bucket /\ policy' = policy /\ acl' = acl
  BY DEF Sent, core
<1>3. ASSUME NEW l \in late, l.access = k.access
      PROVE  (/\ l.op \notin {"key", "dropUser"}
              /\ PolicyMine(k, l)
              /\ AclLive(l) =>
                   /\ k.pc \in PutAclPoints /\ k.etag = acl.etag
                   /\ k.pc = "gPutAcl" => EntriesOf(k.id, l.entries) = Exact(k)
                   /\ k.pc = "rPutAcl" => EntriesOf(k.id, l.entries) = {}
              /\ l.op = "dropKey" /\ k.pc \in KeyPoints => l.id # k.key)'
  BY <1>2, <1>3 DEF Alone, PolicyMine, PolicyLive, AclLive
<1>4. (/\ m.op \notin {"key", "dropUser"}
       /\ PolicyMine(k, m)
       /\ AclLive(m) =>
            /\ k.pc \in PutAclPoints /\ k.etag = acl.etag
            /\ k.pc = "gPutAcl" => EntriesOf(k.id, m.entries) = Exact(k)
            /\ k.pc = "rPutAcl" => EntriesOf(k.id, m.entries) = {}
       /\ m.op = "dropKey" /\ k.pc \in KeyPoints => m.id # k.key)'
  <2>1. CASE m.op = "policy"
    <3>1. /\ k.pc \in PutPolicyPoints /\ m.etag = k.etag
          /\ k.pc = "gPutPolicy" => m.stmts[k.access] = [id |-> k.id, mode |-> k.mode]
          /\ k.pc = "rPutPolicy" /\ k.id # 0 => m.stmts[k.access].id # k.id
      BY <1>2, <2>1, StatementPut
    <3>2. PolicyMine(k, m)'
      BY <1>2, <3>1 DEF PolicyMine, PolicyLive, PutPolicyPoints, GrantSent, RevokeSent
    <3> QED
      BY <2>1, <3>2 DEF AclLive
  <2>2. CASE m.op = "acl"
    <3>1. /\ k.pc \in PutAclPoints /\ m.etag = k.etag
          /\ k.pc = "gPutAcl" => EntriesOf(k.id, m.entries) = Exact(k)
          /\ k.pc = "rPutAcl" => EntriesOf(k.id, m.entries) = {}
      BY <1>2, <2>2, EntriesPut
    <3> QED
      BY <2>2, <3>1 DEF PolicyMine, PolicyLive, AclLive
  <2> QED
    BY <2>1, <2>2
<1> QED
  BY <1>1, <1>3, <1>4 DEF Alone

\* What a call has achieved, a step that sends nothing leaves.
LEMMA GrantedMoved ==
    ASSUME NEW w, NEW v, NEW n, Moved(w, v), Granted(n)
    PROVE  Granted(n)'
BY DEF Granted, Moved, core

\* A step that sends nothing keeps what a revoke has achieved.
LEMMA RevokedMoved ==
    ASSUME NEW w, NEW v, NEW n, Moved(w, v), Revoked(n)
    PROVE  Revoked(n)'
<1>1. /\ users' = users /\ keys' = keys /\ bucket' = bucket /\ policy' = policy /\ acl' = acl
  BY DEF Moved, core
<1>2. /\ KeysOf(n.id)' = KeysOf(n.id)
      /\ NoStatement(n.access, n.id)' <=> NoStatement(n.access, n.id)
      /\ NoEntries(n.access, n.id)' <=> NoEntries(n.access, n.id)
  BY <1>1 DEF KeysOf, NoStatement, NoEntries
<1>3. (n.pc = "rDrop" => {j.id : j \in KeysOf(n.id)} \subseteq n.todo)'
  BY <1>2 DEF Revoked
<1> QED
  BY <1>1, <1>2, <1>3 DEF Revoked

\* What a step does to the worker it is of.
LEMMA StepsTo ==
    ASSUME NEW o, Base(o), NEW w \in Workers, NEW n, work' = [work EXCEPT ![w] = n]
    PROVE  work'[w] = n /\ \A v \in Workers \ {w} : work'[v] = work[v]
BY DEF Base

\* A handler that goes on with a grant, that goes on with a revoke, that does neither.
LEMMA CalmGrant ==
    ASSUME NEW w, NEW n, n.pc \in GrantPoints, n.calm => Alone(w, n)' /\ Granted(n)'
    PROVE  CalmOK(w, n)'
<1>1. n.pc \notin RevokePoints
  BY DEF GrantPoints, RevokePoints
<1> QED
  BY <1>1 DEF CalmOK

\* What an undisturbed revoke has to have.
LEMMA CalmRevoke ==
    ASSUME NEW w, NEW n, n.pc \in RevokePoints,
           n.calm => Alone(w, n)' /\ (n.id # 0 => Revoked(n)')
    PROVE  CalmOK(w, n)'
<1>1. n.pc \notin GrantPoints
  BY DEF GrantPoints, RevokePoints
<1> QED
  BY <1>1 DEF CalmOK

\* A call that neither grants nor revokes has nothing to keep.
LEMMA CalmEnds ==
    ASSUME NEW w, NEW n, n.pc \notin GrantPoints \cup RevokePoints
    PROVE  CalmOK(w, n)'
BY DEF CalmOK

\* A call that is over or cleans up has nothing to keep.
LEMMA CalmOver ==
    ASSUME NEW w, NEW v, NEW n, Over(v, n) \/ n.pc \in CleanPoints
    PROVE  CalmOK(w, n)'
<1>1. n.pc \notin GrantPoints \cup RevokePoints
  BY IdleType DEF Over, GrantPoints, RevokePoints, CleanPoints
<1> QED
  BY <1>1, CalmEnds

\* Where a call has not sent a policy yet, it may go on to anywhere.
LEMMA GoesAfresh ==
    ASSUME NEW k, NEW n, n.access = k.access, k.pc \notin GrantSent \cup RevokeSent
    PROVE  Goes(k, n)
BY DEF Goes

\* A revoke that may have sent a policy goes on to where it may have.
LEMMA GoesRevoke ==
    ASSUME NEW k, NEW n, n.access = k.access, n.id = k.id, k.pc \in RevokePoints,
           n.pc \in RevokeSent
    PROVE  Goes(k, n)
BY DEF Goes, GrantSent, RevokePoints

\* A grant that looks up bucket, directory or user.
LEMMA LookupCalm ==
    ASSUME NEW o \in Owners, Base(o), NEW w \in Workers, NEW k \in Locals, k = work[w],
           CalmOK(w, k), NEW n \in Locals, n = work'[w],
           GrantBucket(w) \/ GrantAttrs(w) \/ GrantLookup(w)
    PROVE  CalmOK(w, n)'
<1>1. /\ Moved(w, n) /\ k.pc \in {"gBucket", "gAttrs", "gLookup"}
      /\ \/ Over(w, n)
         \/ Call(n, k) /\ n.pc \in {"gUser", "gAttrs"}
         \/ Call(n, k) /\ n.pc = "gList" /\ n.id = users[k.access]
  <2>1. CASE GrantBucket(w) \/ GrantAttrs(w)
    <3>1. PICK l \in Locals :
             /\ Moved(w, l)
             /\ \/ Over(w, l)
                \/ Onto(w, l) /\ Same(l, work[w]) /\ l.pc \in {"gUser", "gAttrs"}
      BY <2>1, GrantBucketIs
    <3>2. l = n
      BY <3>1, StepsTo DEF Moved
    <3> QED
      BY <2>1, <3>1, <3>2 DEF Same, GrantBucket, GrantAttrs, At
  <2>2. CASE GrantLookup(w)
    <3>1. PICK l \in Locals :
             /\ Moved(w, l)
             /\ \/ Over(w, l)
                \/ /\ Onto(w, l) /\ Call(l, work[w]) /\ l.pc = "gList"
                   /\ l.id = users[work[w].access]
      BY <2>2, GrantLookupIs
    <3>2. l = n
      BY <3>1, StepsTo DEF Moved
    <3> QED
      BY <2>2, <3>1, <3>2 DEF GrantLookup, At
  <2> QED
    BY <2>1, <2>2
<1>2. CASE Over(w, n)
  BY <1>2, CalmOver
<1>3. CASE Call(n, k) /\ (n.pc \in {"gUser", "gAttrs"} \/ (n.pc = "gList" /\ n.id = users[k.access]))
  <2>1. n.pc \in GrantPoints /\ n.pc \notin KeyPoints
        /\ n.access = k.access /\ (n.calm => k.calm)
    BY <1>3 DEF GrantPoints, KeyPoints, Call
  <2>2. k.pc \in GrantPoints /\ k.pc \notin PutPolicyPoints \cup PutAclPoints
    BY <1>1 DEF GrantPoints, PutPolicyPoints, PutAclPoints
  <2>a. Goes(k, n)
    BY <1>1, <2>1, GoesAfresh DEF GrantSent, RevokeSent
  <2>3. n.calm => Alone(w, n)'
    BY <1>1, <2>1, <2>2, <2>a, AloneMoved DEF CalmOK
  <2>4. Granted(n)
    BY <1>3, <2>1 DEF Granted, UserPoints, KeyPoints
  <2>5. Granted(n)'
    BY <1>1, <2>4, GrantedMoved
  <2> QED
    BY <2>1, <2>3, <2>5, CalmGrant
<1> QED
  BY <1>1, <1>2, <1>3

\* A grant that creates its user.
LEMMA UserCalm ==
    ASSUME NEW o \in Owners, NEW p \in Owners, Agree(o, p), Base(o), CoreTypes', Evolves,
           NEW w \in Workers, NEW k \in Locals,
           k = work[w], p[next.user] = work[w].access,
           CalmOK(w, k), NEW n \in Locals, n = work'[w], GrantUser(w)
    PROVE  CalmOK(w, n)'
<1>1. PICK m : \E l \in Locals :
             /\ Sent(w, m, l)
             /\ \/ Over(w, l)
                \/ /\ Onto(w, l) /\ Same(l, work[w]) /\ l.pc = "gLookup"
                   /\ Commit(m) /\ late' = late
                \/ /\ Onto(w, l) /\ Call(l, work[w]) /\ l.pc = "gList" /\ l.id = next.user
                   /\ Taken(m) /\ m.op = "user" /\ m.access = work[w].access
  BY GrantUserIs
<1>2. /\ Sent(w, m, n)
      /\ \/ Over(w, n)
         \/ /\ Call(n, k) /\ n.pc = "gLookup"
            /\ Commit(m) /\ late' = late
         \/ /\ Call(n, k) /\ n.pc = "gList" /\ n.id = next.user
            /\ Taken(m) /\ m.op = "user" /\ m.access = k.access
  <2>1. PICK l \in Locals :
             /\ Sent(w, m, l)
             /\ \/ Over(w, l)
                \/ /\ Onto(w, l) /\ Same(l, work[w]) /\ l.pc = "gLookup"
                   /\ Commit(m) /\ late' = late
                \/ /\ Onto(w, l) /\ Call(l, work[w]) /\ l.pc = "gList" /\ l.id = next.user
                   /\ Taken(m) /\ m.op = "user" /\ m.access = work[w].access
    BY <1>1
  <2>2. l = n
    BY <2>1, StepsTo DEF Sent
  <2> QED
    BY <2>1, <2>2 DEF Same
<1>3. CASE Over(w, n)
  BY <1>3, CalmOver
<1>4. CASE Call(n, k) /\ n.pc \in {"gLookup", "gList"} /\ Commit(m) /\ late' = late
           /\ (n.pc = "gLookup" \/ users'[n.access] = n.id)
  <2>1. n.pc \in GrantPoints /\ n.pc \notin KeyPoints
        /\ n.access = k.access /\ (n.calm => k.calm)
    BY <1>4 DEF GrantPoints, KeyPoints, Call
  <2>2. k.pc \in GrantPoints /\ k.pc \notin GrantSent \cup RevokeSent
    BY DEF GrantPoints, GrantUser, At, GrantSent, RevokeSent
  <2>a. Goes(k, n)
    BY <2>1, <2>2, GoesAfresh
  <2>3. n.calm => Alone(w, n)'
    BY <1>2, <1>4, <2>1, <2>2, <2>a, AloneSent DEF CalmOK
  <2>5. Granted(n)'
    BY <1>4, <2>1 DEF Granted, UserPoints, KeyPoints
  <2> QED
    BY <2>1, <2>3, <2>5, CalmGrant
<1>5. CASE /\ Call(n, k) /\ n.pc = "gList" /\ n.id = next.user
           /\ Taken(m) /\ m.op = "user" /\ m.access = k.access
  <2>1. Commit(m) /\ late' = late /\ users' = [users EXCEPT ![m.access] = next.user]
    BY <1>5 DEF Taken, Commit, Effect
  <2>2. users'[n.access] = n.id
    BY <1>5, <2>1 DEF Call, Base, CoreTypes, Locals
  <2> QED
    BY <1>4, <1>5, <2>1, <2>2
<1> QED
  BY <1>2, <1>3, <1>4, <1>5

\* A grant that lists the keys of its user, and deletes them.
LEMMA RotateCalm ==
    ASSUME NEW o \in Owners, Base(o), CoreTypes', Evolves,
           NEW w \in Workers, NEW k \in Locals, k = work[w],
           CalmOK(w, k), NEW n \in Locals, n = work'[w], GrantRotate(w)
    PROVE  CalmOK(w, n)'
<1>1. CASE ListKeys(w, "gList", "gDrop", Go(w, "gKey"))
  <2>1. PICK l \in Locals :
             /\ Moved(w, l)
             /\ \/ Over(w, l)
                \/ Onto(w, l) /\ Same(l, work[w]) /\ l.pc \in {"gDrop", "gKey"}
    BY <1>1, ListKeysIs
  <2>2. l = n
    BY <2>1, StepsTo DEF Moved
  <2>3. CASE Over(w, n)
    BY <2>3, CalmOver
  <2>4. CASE Same(n, k) /\ n.pc \in {"gDrop", "gKey"}
    <3>1. /\ n.pc \in GrantPoints /\ n.pc \notin KeyPoints
          /\ n.access = k.access /\ (n.calm => k.calm) /\ n.id = k.id
      BY <2>4 DEF GrantPoints, KeyPoints, Call, Same
    <3>2. k.pc \in GrantPoints /\ k.pc \notin PutPolicyPoints \cup PutAclPoints
          /\ k.pc \in UserPoints
      BY <1>1 DEF GrantPoints, PutPolicyPoints, PutAclPoints, ListKeys, At, UserPoints
    <3>a. Goes(k, n)
      BY <1>1, <3>1, GoesAfresh DEF ListKeys, At, GrantSent, RevokeSent
    <3>3. n.calm => Alone(w, n)'
      BY <2>1, <2>2, <3>1, <3>2, <3>a, AloneMoved DEF CalmOK
    <3>4. n.calm => Granted(n)
      BY <2>4, <3>1, <3>2 DEF CalmOK, Granted, KeyPoints
    <3>5. n.calm => Granted(n)'
      BY <2>1, <2>2, <3>4, GrantedMoved
    <3> QED
      BY <3>1, <3>3, <3>5, CalmGrant
  <2> QED
    BY <2>1, <2>2, <2>3, <2>4
<1>2. CASE DropKeys(w, "gDrop", [work[w] EXCEPT !.todo = {}, !.pc = "gKey"])
  <2>a. DropsKey(o, w, "gDrop", "gKey")
    BY <1>2, DropKeysIs
  <2>0. PICK m : \E l \in Locals :
             /\ Sent(w, m, l) /\ m.op = "dropKey"
             /\ \/ Over(w, l)
                \/ /\ Onto(w, l) /\ Same(l, work[w]) /\ l.pc \in {"gDrop", "gKey"}
                   /\ Commit(m) /\ late' = late
    BY <2>a DEF DropsKey
  <2>1. PICK l \in Locals :
             /\ Sent(w, m, l) /\ m.op = "dropKey"
             /\ \/ Over(w, l)
                \/ /\ Onto(w, l) /\ Same(l, work[w]) /\ l.pc \in {"gDrop", "gKey"}
                   /\ Commit(m) /\ late' = late
    BY <2>0
  <2>2. l = n
    BY <2>1, StepsTo DEF Sent
  <2>3. CASE Over(w, n)
    BY <2>3, CalmOver
  <2>4. CASE Same(n, k) /\ n.pc \in {"gDrop", "gKey"} /\ Commit(m) /\ late' = late
    <3>1. /\ n.pc \in GrantPoints /\ n.pc \notin KeyPoints
          /\ n.access = k.access /\ (n.calm => k.calm) /\ n.id = k.id
      BY <2>4 DEF GrantPoints, KeyPoints, Call, Same
    <3>2. k.pc \in GrantPoints /\ k.pc \in UserPoints
      BY <1>2 DEF GrantPoints, DropKeys, At, UserPoints
    <3>a. Goes(k, n)
      BY <1>2, <3>1, GoesAfresh DEF DropKeys, At, GrantSent, RevokeSent
    <3>3. n.calm => Alone(w, n)'
      BY <2>1, <2>2, <2>4, <3>1, <3>2, <3>a, AloneSent DEF CalmOK
    <3>4. users' = users /\ hist' = hist
      BY <2>1, <2>4 DEF Commit, Effect, core, Sent
    <3>5. n.calm => Granted(n)'
      BY <2>4, <3>1, <3>2, <3>4 DEF CalmOK, Granted, KeyPoints
    <3> QED
      BY <3>1, <3>3, <3>5, CalmGrant
  <2> QED
    BY <2>1, <2>2, <2>3, <2>4
<1> QED
  BY <1>1, <1>2 DEF GrantRotate

\* A grant that creates its key.
LEMMA KeyCalm ==
    ASSUME NEW o \in Owners, NEW p \in Owners, Agree(o, p), Base(o), CoreTypes', Evolves,
           NEW w \in Workers, NEW k \in Locals,
           k = work[w], p[next.user] = work[w].access,
           CalmOK(w, k), NEW n \in Locals, n = work'[w], GrantKey(w)
    PROVE  CalmOK(w, n)'
<1>0. k.pc = "gKey"
  BY DEF GrantKey, At
<1>1. PICK m : \E l \in Locals :
             /\ Sent(w, m, l) /\ (LocalOK(o, l) \/ LocalOK(p, l)')
             /\ Onto(w, l) /\ m.op = "key" /\ m.id = work[w].id
             /\ \/ Same(l, work[w]) /\ l.pc = "cList"
                \/ /\ Call(l, work[w]) /\ l.id = work[w].id /\ l.pc = "gPolicy"
                   /\ l.key = next.key /\ Taken(m)
  BY GrantKeyIs
<1>2. /\ Sent(w, m, n) /\ m.op = "key" /\ m.id = k.id
      /\ \/ n.pc \in CleanPoints
         \/ /\ Call(n, k) /\ n.id = k.id /\ n.pc = "gPolicy"
            /\ n.key = next.key /\ Taken(m)
  <2>1. PICK l \in Locals :
             /\ Sent(w, m, l)
             /\ Onto(w, l) /\ m.op = "key" /\ m.id = work[w].id
             /\ \/ Same(l, work[w]) /\ l.pc = "cList"
                \/ /\ Call(l, work[w]) /\ l.id = work[w].id /\ l.pc = "gPolicy"
                   /\ l.key = next.key /\ Taken(m)
    BY <1>1
  <2>2. l = n
    BY <2>1, StepsTo DEF Sent
  <2> QED
    BY <2>1, <2>2 DEF CleanPoints
<1>3. CASE n.pc \in CleanPoints
  BY <1>3, CalmOver
<1>4. CASE /\ Call(n, k) /\ n.id = k.id /\ n.pc = "gPolicy" /\ n.key = next.key /\ Taken(m)
  <2>1. n.pc \in GrantPoints /\ n.access = k.access /\ (n.calm => k.calm)
        /\ k.pc \in GrantPoints /\ k.pc \in UserPoints
    BY <1>0, <1>4 DEF GrantPoints, UserPoints, Call
  <2>2. Commit(m) /\ late' = late /\ users' = users /\ hist' = hist
        /\ keys' = keys \cup {[id |-> next.key, owner |-> m.id]}
    BY <1>2, <1>4 DEF Taken, Commit, Effect, Sent
  <2>a. Goes(k, n)
    BY <1>0, <2>1, GoesAfresh DEF GrantSent, RevokeSent
  <2>3. n.calm => Alone(w, n)'
    BY <1>2, <1>4, <2>1, <2>2, <2>a, AloneSent DEF CalmOK
  <2>4. ([id |-> n.key, owner |-> n.id] \in keys)'
    BY <1>2, <1>4, <2>2
  <2>5. n.calm => Granted(n)'
    BY <1>4, <2>1, <2>2, <2>4 DEF CalmOK, Granted
  <2> QED
    BY <2>1, <2>3, <2>5, CalmGrant
<1> QED
  BY <1>2, <1>3, <1>4

\* A grant that reads the policy, and writes it.
LEMMA PolicyCalm ==
    ASSUME NEW o \in Owners, Base(o), CoreTypes', Evolves,
           NEW w \in Workers, NEW k \in Locals, k = work[w],
           CalmOK(w, k), NEW n \in Locals, n = work'[w], GrantPolicy(w)
    PROVE  CalmOK(w, n)'
<1>1. CASE GetPolicy(w, "gPolicy", "gPutPolicy")
  <2>1. PICK l \in Locals : Moved(w, l) /\ Same(l, work[w]) /\ l.pc = "gPutPolicy"
    BY <1>1, GetPolicyIs
  <2>2. l = n
    BY <2>1, StepsTo DEF Moved
  <2>3. /\ n.pc = "gPutPolicy" /\ k.pc = "gPolicy"
        /\ n.access = k.access /\ (n.calm => k.calm) /\ n.id = k.id /\ n.key = k.key
        /\ n.mode = k.mode
    BY <1>1, <2>1, <2>2 DEF Same, Call, GetPolicy, At
  <2>4. /\ n.pc \in GrantPoints /\ k.pc \in KeyPoints
        /\ k.pc \in GrantPoints /\ k.pc \notin PutPolicyPoints \cup PutAclPoints
        /\ k.pc \in UserPoints
    BY <2>3 DEF GrantPoints, KeyPoints, PutPolicyPoints, PutAclPoints, UserPoints
  <2>a. Goes(k, n)
    BY <2>3 DEF Goes, GrantSent, RevokeSent
  <2>5. n.calm => Alone(w, n)'
    BY <2>1, <2>2, <2>3, <2>4, <2>a, AloneMoved DEF CalmOK
  <2>6. n.calm => Granted(n)
    BY <2>3, <2>4 DEF CalmOK, Granted
  <2>7. n.calm => Granted(n)'
    BY <2>1, <2>2, <2>6, GrantedMoved
  <2> QED
    BY <2>4, <2>5, <2>7, CalmGrant
<1>2. CASE At(w, "gPutPolicy")
  <2>0. PICK m : \E l \in Locals :
             /\ Sent(w, m, l) /\ Same(l, work[w]) /\ m.op = "policy"
             /\ \/ l = work[w] /\ UNCHANGED core /\ late' = late \cup {m}
                \/ l.pc = "gAcl" /\ Taken(m)
                \/ l.pc \in {"cOwn", "gPolicy"} /\ Commit(m) /\ late' = late
    BY <1>2, GrantPutPolicyIs
  <2>1. PICK l \in Locals :
             /\ Sent(w, m, l) /\ Same(l, work[w]) /\ m.op = "policy"
             /\ \/ l = work[w] /\ UNCHANGED core /\ late' = late \cup {m}
                \/ l.pc = "gAcl" /\ Taken(m)
                \/ l.pc \in {"cOwn", "gPolicy"} /\ Commit(m) /\ late' = late
    BY <2>0
  <2>2. l = n
    BY <2>1, StepsTo DEF Sent
  <2>3. /\ k.pc = "gPutPolicy" /\ k.pc \in KeyPoints /\ k.pc \in GrantPoints /\ k.pc \in UserPoints
        /\ n.access = k.access /\ (n.calm => k.calm) /\ n.id = k.id /\ n.key = k.key
        /\ n.mode = k.mode /\ hist' = hist
    BY <1>2, <2>1, <2>2 DEF Same, Call, At, KeyPoints, GrantPoints, UserPoints, Sent
  <2>a. n.pc \in {"gAcl", "gPolicy"} => Goes(k, n)
    BY <2>3 DEF Goes, GrantSent, RevokeSent
  <2>4. CASE n = k /\ UNCHANGED core /\ late' = late \cup {m}
    <3>1. n.calm => Alone(w, n)'
      BY <2>1, <2>2, <2>3, <2>4, AloneLost DEF CalmOK
    <3>2. n.calm => Granted(n)'
      BY <2>3, <2>4 DEF CalmOK, Granted, core
    <3> QED
      BY <2>3, <2>4, <3>1, <3>2, CalmGrant
  <2>5. CASE n.pc = "gAcl" /\ Taken(m)
    <3>1. /\ Commit(m) /\ late' = late /\ users' = users /\ keys' = keys
          /\ policy'.stmts = m.stmts
      BY <2>1, <2>5 DEF Taken, Commit, Effect
    <3>2. m.stmts[k.access] = [id |-> k.id, mode |-> k.mode]
      <4>1. Sends(w, m)
        BY <2>1 DEF Sent
      <4> QED
        BY <2>1, <2>3, <4>1, StatementPut
    <3>3. n.calm => Alone(w, n)'
      BY <2>1, <2>2, <2>3, <2>5, <2>a, <3>1, AloneSent DEF CalmOK
    <3>4. n.calm => Granted(n)'
      BY <2>3, <2>5, <3>1, <3>2 DEF CalmOK, Granted
    <3>5. n.pc \in GrantPoints
      BY <2>5 DEF GrantPoints
    <3> QED
      BY <3>3, <3>4, <3>5, CalmGrant
  <2>6. CASE n.pc = "gPolicy" /\ Commit(m) /\ late' = late
    <3>1. users' = users /\ keys' = keys
      BY <2>1, <2>6 DEF Commit, Effect, core
    <3>3. n.calm => Alone(w, n)'
      BY <2>1, <2>2, <2>3, <2>6, <2>a, AloneSent DEF CalmOK
    <3>4. n.calm => Granted(n)'
      BY <2>3, <2>6, <3>1 DEF CalmOK, Granted
    <3>5. n.pc \in GrantPoints
      BY <2>6 DEF GrantPoints
    <3> QED
      BY <3>3, <3>4, <3>5, CalmGrant
  <2>7. CASE n.pc = "cOwn"
    BY <2>7, CalmOver DEF CleanPoints
  <2> QED
    BY <2>1, <2>2, <2>4, <2>5, <2>6, <2>7
<1> QED
  BY <1>1, <1>2 DEF GrantPolicy

\* A grant that reads the ACL, and writes it.
LEMMA AclCalm ==
    ASSUME NEW o \in Owners, Base(o), CoreTypes', Evolves,
           NEW w \in Workers, NEW k \in Locals, k = work[w],
           CalmOK(w, k), NEW n \in Locals, n = work'[w], GrantAcl(w)
    PROVE  CalmOK(w, n)'
<1>1. CASE At(w, "gAcl")
  <2>1. PICK l \in Locals :
             /\ Moved(w, l) /\ Same(l, work[w]) /\ (work[w].blind => l.blind)
             /\ \/ l.pc \in {"cOwn", "gPutAcl"}
                \/ l.pc = "gDone" /\ HasExactGrant(w)
    BY <1>1, GrantGetAclIs
  <2>2. l = n
    BY <2>1, StepsTo DEF Moved
  <2>3. /\ k.pc = "gAcl"
        /\ n.access = k.access /\ (n.calm => k.calm) /\ n.id = k.id /\ n.key = k.key
        /\ n.mode = k.mode /\ (k.blind => n.blind)
    BY <1>1, <2>1, <2>2 DEF Same, Call, At
  <2>4. CASE n.pc = "cOwn"
    BY <2>4, CalmOver DEF CleanPoints
  <2>5. CASE n.pc = "gPutAcl" \/ (n.pc = "gDone" /\ HasExactGrant(w))
    <3>1. /\ n.pc \in GrantPoints /\ k.pc \in KeyPoints
          /\ k.pc \in GrantPoints /\ k.pc \notin PutPolicyPoints \cup PutAclPoints
          /\ k.pc \in UserPoints
      BY <2>3, <2>5 DEF GrantPoints, KeyPoints, PutPolicyPoints, PutAclPoints, UserPoints
    <3>a. Goes(k, n)
      BY <2>3, <2>5 DEF Goes, GrantSent, RevokeSent
    <3>2. n.calm => Alone(w, n)'
      BY <2>1, <2>2, <2>3, <3>1, <3>a, AloneMoved DEF CalmOK
    <3>3. n.calm => Granted(n)
      BY <2>3, <2>5, <3>1 DEF CalmOK, Granted, HasExactGrant, Exact
    <3>4. n.calm => Granted(n)'
      BY <2>1, <2>2, <3>3, GrantedMoved
    <3> QED
      BY <3>1, <3>2, <3>4, CalmGrant
  <2> QED
    BY <2>1, <2>2, <2>4, <2>5
<1>2. CASE At(w, "gPutAcl")
  <2>0. PICK m : \E l \in Locals :
             /\ Sent(w, m, l) /\ Same(l, work[w]) /\ m.op = "acl"
             /\ (work[w].blind => l.blind)
             /\ \/ l = work[w] /\ UNCHANGED core /\ late' = late \cup {m}
                \/ l.pc = "gDone" /\ Taken(m)
                \/ l.pc \in {"cOwn", "gAcl"} /\ Commit(m) /\ late' = late
    BY <1>2, GrantPutAclIs
  <2>1. PICK l \in Locals :
             /\ Sent(w, m, l) /\ Same(l, work[w]) /\ m.op = "acl"
             /\ (work[w].blind => l.blind)
             /\ \/ l = work[w] /\ UNCHANGED core /\ late' = late \cup {m}
                \/ l.pc = "gDone" /\ Taken(m)
                \/ l.pc \in {"cOwn", "gAcl"} /\ Commit(m) /\ late' = late
    BY <2>0
  <2>2. l = n
    BY <2>1, StepsTo DEF Sent
  <2>3. /\ k.pc = "gPutAcl" /\ k.pc \in KeyPoints /\ k.pc \in GrantPoints /\ k.pc \in UserPoints
        /\ n.access = k.access /\ (n.calm => k.calm) /\ n.id = k.id /\ n.key = k.key
        /\ n.mode = k.mode /\ (k.blind => n.blind) /\ hist' = hist
    BY <1>2, <2>1, <2>2 DEF Same, Call, At, KeyPoints, GrantPoints, UserPoints, Sent
  <2>a. n.pc \in {"gDone", "gAcl"} => Goes(k, n)
    BY <2>3 DEF Goes, GrantSent, RevokeSent
  <2>4. CASE n = k /\ UNCHANGED core /\ late' = late \cup {m}
    <3>1. n.calm => Alone(w, n)'
      BY <2>1, <2>2, <2>3, <2>4, AloneLost DEF CalmOK
    <3>2. n.calm => Granted(n)'
      BY <2>3, <2>4 DEF CalmOK, Granted, core
    <3> QED
      BY <2>3, <2>4, <3>1, <3>2, CalmGrant
  <2>5. CASE n.pc = "gDone" /\ Taken(m)
    <3>1. /\ Commit(m) /\ late' = late /\ users' = users /\ keys' = keys
          /\ policy' = policy /\ acl'.entries = m.entries
      BY <2>1, <2>5 DEF Taken, Commit, Effect
    <3>2. EntriesOf(k.id, m.entries) = Exact(n)
      <4>1. Sends(w, m)
        BY <2>1 DEF Sent
      <4>2. EntriesOf(k.id, m.entries) = Exact(k)
        BY <2>1, <2>3, <4>1, EntriesPut
      <4> QED
        BY <2>3, <4>2 DEF Exact
    <3>3. n.calm => Alone(w, n)'
      BY <2>1, <2>2, <2>3, <2>5, <2>a, <3>1, AloneSent DEF CalmOK
    <3>4. n.calm => Granted(n)'
      BY <2>3, <2>5, <3>1, <3>2 DEF CalmOK, Granted
    <3>5. n.pc \in GrantPoints
      BY <2>5 DEF GrantPoints
    <3> QED
      BY <3>3, <3>4, <3>5, CalmGrant
  <2>6. CASE n.pc = "gAcl" /\ Commit(m) /\ late' = late
    <3>1. users' = users /\ keys' = keys /\ policy' = policy
      BY <2>1, <2>6 DEF Commit, Effect, core
    <3>3. n.calm => Alone(w, n)'
      BY <2>1, <2>2, <2>3, <2>6, <2>a, AloneSent DEF CalmOK
    <3>4. n.calm => Granted(n)'
      BY <2>3, <2>6, <3>1 DEF CalmOK, Granted
    <3>5. n.pc \in GrantPoints
      BY <2>6 DEF GrantPoints
    <3> QED
      BY <3>3, <3>4, <3>5, CalmGrant
  <2>7. CASE n.pc = "cOwn"
    BY <2>7, CalmOver DEF CleanPoints
  <2> QED
    BY <2>1, <2>2, <2>4, <2>5, <2>6, <2>7
<1> QED
  BY <1>1, <1>2 DEF GrantAcl

\* A revoke that looks up its user.
LEMMA RevokeUserCalm ==
    ASSUME NEW o \in Owners, Base(o), NEW w \in Workers, NEW k \in Locals, k = work[w],
           CalmOK(w, k), NEW n \in Locals, n = work'[w], RevokeUser(w)
    PROVE  CalmOK(w, n)'
<1>1. PICK l \in Locals :
             /\ Moved(w, l) /\ Call(l, work[w])
             /\ \/ l.pc = "rList" /\ (l.own \/ users[l.access] # l.id)
                \/ l.pc = "rBucket" /\ l.id = 0
             /\ RootOf[l.access] = 0 /\ l.id # 0 => l.own
  BY RevokeUserIs
<1>2. l = n
  BY <1>1, StepsTo DEF Moved
<1>3. /\ n.pc \in {"rList", "rBucket"} /\ k.pc = "rUser"
      /\ n.access = k.access /\ (n.calm => k.calm)
  BY <1>1, <1>2 DEF Call, RevokeUser, At
<1>4. /\ n.pc \in RevokePoints /\ n.pc \notin KeyPoints
      /\ k.pc \in RevokePoints /\ k.pc \notin PutPolicyPoints \cup PutAclPoints
  BY <1>3 DEF RevokePoints, KeyPoints, PutPolicyPoints, PutAclPoints
<1>a. Goes(k, n)
  BY <1>3, GoesAfresh DEF GrantSent, RevokeSent
<1>5. n.calm => Alone(w, n)'
  BY <1>1, <1>2, <1>3, <1>4, <1>a, AloneMoved DEF CalmOK
<1>6. n.id # 0 => Revoked(n)
  BY <1>1, <1>2 DEF Revoked
<1>7. n.id # 0 => Revoked(n)'
  BY <1>1, <1>6, RevokedMoved
<1> QED
  BY <1>4, <1>5, <1>7, CalmRevoke

\* A revoke that lists the keys of its user, and deletes them.
LEMMA RevokeKeysCalm ==
    ASSUME NEW o \in Owners, Base(o), CoreTypes', Evolves,
           NEW w \in Workers, NEW k \in Locals, k = work[w],
           CalmOK(w, k), NEW n \in Locals, n = work'[w], RevokeKeys(w)
    PROVE  CalmOK(w, n)'
<1>1. CASE ListKeys(w, "rList", "rDrop", Go(w, "rBucket"))
  <2>1. PICK l \in Locals :
             /\ Moved(w, l)
             /\ \/ Over(w, l)
                \/ /\ Onto(w, l) /\ Same(l, work[w]) /\ Flags(l, work[w])
                   /\ \/ l.pc = "rDrop" /\ \A j \in KeysOf(work[w].id) : j.id \in l.todo
                      \/ l.pc = "rBucket" /\ KeysOf(work[w].id) = {}
    BY <1>1, ListKeysIs
  <2>2. l = n
    BY <2>1, StepsTo DEF Moved
  <2>3. CASE Over(w, n)
    BY <2>3, CalmOver
  <2>4. CASE /\ Same(n, k) /\ Flags(n, k)
             /\ \/ n.pc = "rDrop" /\ \A j \in KeysOf(k.id) : j.id \in n.todo
                \/ n.pc = "rBucket" /\ KeysOf(k.id) = {}
    <3>1. /\ n.pc \in RevokePoints /\ n.pc \notin KeyPoints
          /\ n.access = k.access /\ (n.calm => k.calm) /\ n.id = k.id /\ (k.own => n.own)
      BY <2>4 DEF RevokePoints, KeyPoints, Call, Same, Flags
    <3>2. k.pc = "rList" /\ k.pc \in RevokePoints /\ k.pc \notin PutPolicyPoints \cup PutAclPoints
      BY <1>1 DEF RevokePoints, PutPolicyPoints, PutAclPoints, ListKeys, At
    <3>a. Goes(k, n)
      BY <3>1, <3>2, GoesAfresh DEF GrantSent, RevokeSent
    <3>3. n.calm => Alone(w, n)'
      BY <2>1, <2>2, <3>1, <3>2, <3>a, AloneMoved DEF CalmOK
    <3>4. n.pc = "rDrop" => {j.id : j \in KeysOf(n.id)} \subseteq n.todo
      BY <2>4, <3>1
    <3>5. n.calm /\ n.id # 0 => Revoked(n)
      <4>1. n.calm /\ n.id # 0 => Revoked(k)
        BY <3>1, <3>2 DEF CalmOK
      <4> QED
        BY <2>4, <3>1, <3>2, <3>4, <4>1 DEF Revoked
    <3>6. n.calm /\ n.id # 0 => Revoked(n)'
      BY <2>1, <3>5, RevokedMoved
    <3> QED
      BY <3>1, <3>3, <3>6, CalmRevoke
  <2> QED
    BY <2>1, <2>2, <2>3, <2>4
<1>2. CASE DropKeys(w, "rDrop", [work[w] EXCEPT !.todo = {}, !.pc = "rBucket"])
  <2>a. DropsKey(o, w, "rDrop", "rBucket")
    BY <1>2, DropKeysIs
  <2>0. PICK m : \E l \in Locals :
      /\ Sent(w, m, l) /\ LocalOK(o, l) /\ m.op = "dropKey" /\ m.id \in work[w].todo
      /\ \/ Over(w, l)
         \/ /\ Onto(w, l) /\ Same(l, work[w]) /\ Flags(l, work[w])
            /\ Commit(m) /\ late' = late
            /\ \/ l.pc = "rDrop" /\ l.todo = work[w].todo \ {m.id}
               \/ l.pc = "rBucket" /\ work[w].todo = {m.id}
    BY <2>a DEF DropsKey
  <2>1. PICK l \in Locals :
      /\ Sent(w, m, l) /\ m.op = "dropKey" /\ m.id \in work[w].todo
      /\ \/ Over(w, l)
         \/ /\ Onto(w, l) /\ Same(l, work[w]) /\ Flags(l, work[w])
            /\ Commit(m) /\ late' = late
            /\ \/ l.pc = "rDrop" /\ l.todo = work[w].todo \ {m.id}
               \/ l.pc = "rBucket" /\ work[w].todo = {m.id}
    BY <2>0
  <2>2. l = n
    BY <2>1, StepsTo DEF Sent
  <2>3. CASE Over(w, n)
    BY <2>3, CalmOver
  <2>4. CASE /\ Same(n, k) /\ Flags(n, k) /\ Commit(m) /\ late' = late
             /\ \/ n.pc = "rDrop" /\ n.todo = k.todo \ {m.id}
                \/ n.pc = "rBucket" /\ k.todo = {m.id}
    <3>1. /\ n.pc \in RevokePoints /\ n.pc \notin KeyPoints
          /\ n.access = k.access /\ (n.calm => k.calm) /\ n.id = k.id /\ (k.own => n.own)
      BY <2>4 DEF RevokePoints, KeyPoints, Call, Same, Flags
    <3>2. k.pc = "rDrop" /\ k.pc \in RevokePoints
      BY <1>2 DEF RevokePoints, DropKeys, At
    <3>a. Goes(k, n)
      BY <3>1, <3>2, GoesAfresh DEF GrantSent, RevokeSent
    <3>3. n.calm => Alone(w, n)'
      BY <2>1, <2>2, <2>4, <3>1, <3>2, <3>a, AloneSent DEF CalmOK
    <3>4. users' = users
      BY <2>1, <2>4 DEF Commit, Effect, core
    <3>5. \A j \in keys' : j \in keys /\ j.id # m.id
      <4>1. CASE Answer(m) = "ok"
        BY <2>1, <2>4, <4>1 DEF Commit, Effect
      <4>2. CASE Answer(m) # "ok"
        <5>1. keys' = keys
          BY <2>4, <4>2 DEF Commit, core
        <5> QED
          BY <2>1, <4>2, <5>1 DEF Answer
      <4> QED
        BY <4>1, <4>2
    <3>6. \A j \in KeysOf(n.id)' : j \in KeysOf(k.id) /\ j.id # m.id
      BY <3>1, <3>5 DEF KeysOf
    <3>7. n.calm /\ n.id # 0 => Revoked(k)
      BY <3>1, <3>2 DEF CalmOK
    <3>8. n.calm /\ n.id # 0 => \A j \in KeysOf(k.id) : j.id \in k.todo
      BY <3>2, <3>7 DEF Revoked
    <3>9. n.calm /\ n.id # 0 /\ n.pc = "rDrop" => ({j.id : j \in KeysOf(n.id)} \subseteq n.todo)'
      BY <2>4, <3>6, <3>8
    <3>10. n.calm /\ n.id # 0 /\ n.pc = "rBucket" => KeysOf(n.id)' = {}
      BY <2>4, <3>6, <3>8
    <3>11. n.calm /\ n.id # 0 => Revoked(n)'
      BY <2>4, <3>1, <3>2, <3>4, <3>7, <3>9, <3>10 DEF Revoked
    <3> QED
      BY <3>1, <3>3, <3>11, CalmRevoke
  <2> QED
    BY <2>1, <2>2, <2>3, <2>4
<1> QED
  BY <1>1, <1>2 DEF RevokeKeys

\* A revoke that looks up bucket and directory: what it leaves alone says nothing of its user.
LEMMA RevokeBucketCalm ==
    ASSUME NEW o \in Owners, Base(o), NEW w \in Workers, NEW k \in Locals, k = work[w],
           CalmOK(w, k), NEW n \in Locals, n = work'[w], RevokeBucket(w)
    PROVE  CalmOK(w, n)'
<1>1. PICK l \in Locals :
             /\ Moved(w, l) /\ LocalOK(o, l) /\ Onto(w, l) /\ Same(l, work[w])
             /\ l.own => work[w].own
             /\ work[w].own => l.own
             /\ l.pc = "rDone" => ~l.own
             /\ \/ /\ l.pc = "rAttrs" /\ At(w, "rBucket") /\ RootOf[work[w].access] # 0
                   /\ bucket.open => l.pol
                \/ /\ l.pc \in {"rPolicy", "rAcl", "rDelUser", "rDone"}
                   /\ At(w, "rBucket") /\ RootOf[work[w].access] = 0
                   /\ l.pc = "rPolicy" => bucket.open /\ (work[w].own => l.dir)
                   /\ l.pc # "rPolicy" => ~bucket.open
                \/ /\ l.pc \in {"rPolicy", "rAcl", "rDelUser", "rDone"} /\ At(w, "rAttrs")
                   /\ l.pc = "rPolicy" => l.dir
                   /\ l.pc = "rAcl" => ~work[w].pol \/ bucket.root # RootOf[work[w].access]
                   /\ l.pc \in {"rDelUser", "rDone"} => bucket.root # RootOf[work[w].access]
  BY RevokeBucketIs
<1>2. l = n
  BY <1>1, StepsTo DEF Moved
<1>3. /\ n.pc \in {"rAttrs", "rPolicy", "rAcl", "rDelUser", "rDone"} /\ k.pc \in {"rBucket", "rAttrs"}
      /\ n.access = k.access /\ (n.calm => k.calm) /\ n.id = k.id
      /\ (k.own => n.own) /\ (n.pc = "rDone" => ~k.own)
      /\ n.access \in Accesses
  BY <1>1, <1>2 DEF Call, Same, At, Locals
<1>4. /\ n.pc \in RevokePoints /\ n.pc \notin KeyPoints
      /\ k.pc \in RevokePoints \ {"rUser", "rList", "rDrop"}
      /\ k.pc \notin PutPolicyPoints \cup PutAclPoints
  BY <1>3 DEF RevokePoints, KeyPoints, PutPolicyPoints, PutAclPoints
<1>a. Goes(k, n)
  BY <1>3, GoesAfresh DEF GrantSent, RevokeSent
<1>5. n.calm => Alone(w, n)'
  BY <1>1, <1>2, <1>3, <1>4, <1>a, AloneMoved DEF CalmOK
<1>6. ASSUME n.calm, n.id # 0 PROVE Revoked(n)
  <2>1. Revoked(k)
    BY <1>3, <1>4, <1>6 DEF CalmOK
  <2>2. /\ KeysOf(n.id) = {} /\ (n.own \/ users[n.access] # n.id)
        /\ RootOf[n.access] = 0 => k.own
        /\ k.pc = "rAttrs" => RootOf[n.access] # 0 /\ (bucket.open => k.pol)
    BY <1>3, <1>4, <2>1 DEF Revoked
  <2>3. bucket.open => bucket.root = 1
    BY DEF Base, CoreOK
  <2>4. RootOf[n.access] \in {0, 1} /\ bucket.root \in {0, 1}
    BY <1>3, AccessAssumption DEF Base, CoreTypes
  <2>5. n.pc = "rDone" => users[n.access] # n.id
    BY <1>1, <1>2, <2>2
  <2>6. n.pc = "rAttrs" => RootOf[n.access] # 0 /\ (bucket.open => n.pol)
    BY <1>1, <1>2, <1>3
  <2>7. n.pc \in {"rAcl", "rDelUser", "rDone"} => ~bucket.open
    BY <1>1, <1>2, <1>3, <2>2, <2>3, <2>4 DEF At
  <2>8. n.pc = "rPolicy" => n.dir
    BY <1>1, <1>2, <1>3, <2>2
  <2>9. n.pc \in {"rDelUser", "rDone"} =>
          bucket.root = 0 \/ (RootOf[n.access] = 0 /\ ~bucket.open)
    BY <1>1, <1>2, <1>3, <2>2, <2>4, <2>7 DEF At
  <2> QED
    BY <1>3, <2>2, <2>5, <2>6, <2>7, <2>8, <2>9 DEF Revoked, NoStatement, NoEntries
<1>7. n.calm /\ n.id # 0 => Revoked(n)'
  BY <1>1, <1>6, RevokedMoved
<1> QED
  BY <1>4, <1>5, <1>7, CalmRevoke

\* A write of one kind leaves the other parts of Core as they are.
LEMMA OnlyPolicy ==
    ASSUME NEW m, m.op = "policy", Commit(m)
    PROVE  users' = users /\ keys' = keys /\ bucket' = bucket /\ acl' = acl /\ next' = next
BY DEF Commit, Effect, core

\* Likewise for the ACL.
LEMMA OnlyAcl ==
    ASSUME NEW m, m.op = "acl", Commit(m)
    PROVE  users' = users /\ keys' = keys /\ bucket' = bucket /\ policy' = policy /\ next' = next
BY DEF Commit, Effect, core

\* What a revoke has achieved, Core as it was keeps.
LEMMA RevokedKept ==
    ASSUME UNCHANGED core, NEW n, Revoked(n)
    PROVE  Revoked(n)'
<1>1. /\ users' = users /\ keys' = keys /\ bucket' = bucket /\ policy' = policy /\ acl' = acl
  BY DEF core
<1>2. /\ KeysOf(n.id)' = KeysOf(n.id)
      /\ NoStatement(n.access, n.id)' <=> NoStatement(n.access, n.id)
      /\ NoEntries(n.access, n.id)' <=> NoEntries(n.access, n.id)
  BY <1>1 DEF KeysOf, NoStatement, NoEntries
<1>3. (n.pc = "rDrop" => {j.id : j \in KeysOf(n.id)} \subseteq n.todo)'
  BY <1>2 DEF Revoked
<1> QED
  BY <1>1, <1>2, <1>3 DEF Revoked

\* A revoke that reads the policy.
LEMMA RevokeGetPolicyCalm ==
    ASSUME NEW o \in Owners, Base(o), NEW w \in Workers, NEW k \in Locals, k = work[w],
           CalmOK(w, k), NEW n \in Locals, n = work'[w], GetPolicy(w, "rPolicy", "rPutPolicy")
    PROVE  CalmOK(w, n)'
<1>1. PICK l \in Locals : Moved(w, l) /\ Same(l, work[w]) /\ Flags(l, work[w]) /\ l.pc = "rPutPolicy"
  BY GetPolicyIs
<1>2. l = n
  BY <1>1, StepsTo DEF Moved
<1>3. /\ n.pc = "rPutPolicy" /\ k.pc = "rPolicy"
      /\ n.access = k.access /\ (n.calm => k.calm) /\ n.id = k.id
      /\ (k.own => n.own) /\ (k.dir => n.dir)
  BY <1>1, <1>2 DEF Same, Call, Flags, GetPolicy, At
<1>4. /\ n.pc \in RevokePoints /\ n.pc \notin KeyPoints
      /\ k.pc \in RevokePoints /\ k.pc \notin PutPolicyPoints \cup PutAclPoints
  BY <1>3 DEF RevokePoints, KeyPoints, PutPolicyPoints, PutAclPoints
<1>a. Goes(k, n)
  BY <1>3, <1>4, GoesRevoke DEF RevokeSent
<1>5. n.calm => Alone(w, n)'
  BY <1>1, <1>2, <1>3, <1>4, <1>a, AloneMoved DEF CalmOK
<1>6. ASSUME n.calm, n.id # 0 PROVE Revoked(n)
  <2>1. Revoked(k)
    BY <1>3, <1>4, <1>6 DEF CalmOK
  <2> QED
    BY <1>3, <1>4, <2>1 DEF Revoked
<1>7. n.calm /\ n.id # 0 => Revoked(n)'
  BY <1>1, <1>6, RevokedMoved
<1> QED
  BY <1>4, <1>5, <1>7, CalmRevoke

\* What a revoke puts into the policy does not name its user.
LEMMA StatementOut ==
    ASSUME NEW w \in Workers, NEW k \in Locals, k = work[w], NEW m, Sends(w, m),
           m.op = "policy", k.pc = "rPutPolicy", k.id # 0
    PROVE  m.stmts[k.access].id # k.id
<1>1. m.stmts = WithoutStatement(w)
  BY DEF Sends, StatementsToPut, At
<1>2. k.stmts \in [Accesses -> Grant] /\ k.access \in Accesses
  BY DEF Locals
<1>3. PICK s : s = (IF Legacy(w) \/ k.stmts[k.access].id = k.id THEN Nobody
                                                         ELSE k.stmts[k.access])
  OBVIOUS
<1>4. m.stmts = [k.stmts EXCEPT ![k.access] = s]
  BY <1>1, <1>3 DEF WithoutStatement
<1>5. m.stmts[k.access] = s
  BY <1>2, <1>4
<1> QED
  BY <1>3, <1>5, NobodyType

\* It puts back the statement of any other user.
LEMMA StatementStays ==
    ASSUME NEW w \in Workers, NEW k \in Locals, k = work[w], NEW m, Sends(w, m),
           m.op = "policy", k.pc = "rPutPolicy", RootOf[k.access] # 0,
           k.stmts[k.access].id # k.id
    PROVE  m.stmts[k.access] = k.stmts[k.access]
<1>1. m.stmts = WithoutStatement(w)
  BY DEF Sends, StatementsToPut, At
<1>2. k.stmts \in [Accesses -> Grant] /\ k.access \in Accesses
  BY DEF Locals
<1>3. PICK s : s = (IF Legacy(w) \/ k.stmts[k.access].id = k.id THEN Nobody
                                                         ELSE k.stmts[k.access])
  OBVIOUS
<1>4. m.stmts = [k.stmts EXCEPT ![k.access] = s]
  BY <1>1, <1>3 DEF WithoutStatement
<1>5. m.stmts[k.access] = s
  BY <1>2, <1>4
<1> QED
  BY <1>3, <1>5 DEF Legacy

\* A revoke that writes the policy.
LEMMA RevokePutPolicyCalm ==
    ASSUME NEW o \in Owners, Base(o), CoreTypes', Evolves,
           NEW w \in Workers, NEW k \in Locals, k = work[w],
           CalmOK(w, k), NEW n \in Locals, n = work'[w], At(w, "rPutPolicy"), RevokePolicy(w)
    PROVE  CalmOK(w, n)'
<1>0. PICK m : \E l \in Locals :
             /\ Sent(w, m, l) /\ LocalOK(o, l) /\ m.op = "policy"
             /\ \/ Over(w, l)
                \/ /\ Onto(w, l) /\ Same(l, work[w])
                   /\ l.own => work[w].own
                   /\ work[w].own => l.own
                   /\ \/ l = work[w] /\ UNCHANGED core /\ late' = late \cup {m}
                      \/ /\ l.pc \in {"rAcl", "rDelUser", "rDone"}
                         /\ l.pc = "rDone" => ~l.own
                         /\ l.pc \in {"rDelUser", "rDone"} => ~work[w].dir
                         /\ Taken(m) \/ (~bucket.open /\ UNCHANGED core /\ late' = late)
                      \/ l.pc = "rPolicy" /\ Commit(m) /\ late' = late /\ (work[w].dir => l.dir)
  BY RevokePutPolicyIs
<1>1. PICK l \in Locals :
             /\ Sent(w, m, l) /\ m.op = "policy"
             /\ \/ Over(w, l)
                \/ /\ Onto(w, l) /\ Same(l, work[w])
                   /\ l.own => work[w].own
                   /\ work[w].own => l.own
                   /\ \/ l = work[w] /\ UNCHANGED core /\ late' = late \cup {m}
                      \/ /\ l.pc \in {"rAcl", "rDelUser", "rDone"}
                         /\ l.pc = "rDone" => ~l.own
                         /\ l.pc \in {"rDelUser", "rDone"} => ~work[w].dir
                         /\ Taken(m) \/ (~bucket.open /\ UNCHANGED core /\ late' = late)
                      \/ l.pc = "rPolicy" /\ Commit(m) /\ late' = late /\ (work[w].dir => l.dir)
  BY <1>0
<1>2. l = n
  BY <1>1, StepsTo DEF Sent
<1>3. CASE Over(w, n)
  BY <1>3, CalmOver
<1>4. ASSUME ~Over(w, n)
      PROVE  /\ k.pc = "rPutPolicy" /\ k.pc \in RevokePoints \ {"rUser", "rList", "rDrop"}
             /\ n.access = k.access /\ (n.calm => k.calm) /\ n.id = k.id /\ (k.own => n.own)
             /\ (n.pc = "rDone" => ~k.own) /\ Sends(w, m)
             /\ n.pc \in {"rPutPolicy", "rPolicy", "rAcl", "rDelUser", "rDone"}
  BY <1>1, <1>2, <1>4 DEF Same, Call, At, RevokePoints, Sent
<1>5. ASSUME ~Over(w, n)
      PROVE  n.pc \in RevokePoints /\ n.pc \notin KeyPoints
  BY <1>4, <1>5 DEF RevokePoints, KeyPoints
<1>a. ASSUME ~Over(w, n), n.pc \in RevokeSent PROVE Goes(k, n)
  BY <1>4, <1>a, GoesRevoke
<1>6. CASE n = k /\ UNCHANGED core /\ late' = late \cup {m} /\ ~Over(w, n)
  <2>1. n.calm => Alone(w, n)'
    BY <1>1, <1>2, <1>4, <1>6, AloneLost DEF CalmOK
  <2>2. n.calm /\ n.id # 0 => Revoked(n)'
    BY <1>4, <1>6, RevokedKept DEF CalmOK
  <2> QED
    BY <1>5, <1>6, <2>1, <2>2, CalmRevoke
<1>7. CASE /\ n.pc \in {"rAcl", "rDelUser", "rDone"} /\ ~Over(w, n)
           /\ n.pc \in {"rDelUser", "rDone"} => ~k.dir
           /\ Taken(m) \/ (~bucket.open /\ UNCHANGED core /\ late' = late)
  <2>1. Commit(m) /\ late' = late
    BY <1>1, <1>7 DEF Taken, Commit, Answer
  <2>2. users' = users /\ keys' = keys /\ bucket' = bucket /\ acl' = acl
    BY <1>1, <2>1, OnlyPolicy
  <2>3. n.calm => Alone(w, n)'
    BY <1>1, <1>2, <1>4, <1>5, <1>a, <1>7, <2>1, AloneSent DEF CalmOK, RevokeSent
  <2>4. ASSUME n.calm, n.id # 0 PROVE Revoked(n)'
    <3>1. Revoked(k)
      BY <1>4, <1>7, <2>4 DEF CalmOK
    <3>2. /\ KeysOf(n.id) = {} /\ (n.own \/ users[n.access] # n.id)
          /\ RootOf[n.access] = 0 => n.own
          /\ n.pc = "rDone" => users[n.access] # n.id
          /\ n.pc \in {"rDelUser", "rDone"} => NoEntries(n.access, n.id)
      BY <1>4, <1>7, <3>1 DEF Revoked
    <3>3. KeysOf(n.id)' = {} /\ (n.pc \in {"rDelUser", "rDone"} => NoEntries(n.access, n.id)')
      BY <2>2, <3>2 DEF KeysOf, NoEntries
    <3>4. NoStatement(n.access, n.id)'
      <4>1. CASE Taken(m)
        <5>1. policy'.stmts = m.stmts
          BY <1>1, <4>1 DEF Taken, Effect
        <5>2. m.stmts[k.access].id # k.id
          <6>1. Sends(w, m) /\ m.op = "policy" /\ k.pc = "rPutPolicy" /\ k.id # 0
            BY <1>1, <1>4, <1>7, <2>4
          <6> QED
            BY <6>1, StatementOut
        <5> QED
          BY <1>4, <1>7, <5>1, <5>2 DEF NoStatement
      <4>2. CASE ~bucket.open
        BY <2>2, <4>2 DEF NoStatement
      <4> QED
        BY <1>7, <4>1, <4>2
    <3> QED
      BY <1>7, <2>2, <3>2, <3>3, <3>4 DEF Revoked
  <2> QED
    BY <1>5, <1>7, <2>3, <2>4, CalmRevoke
<1>8. CASE n.pc = "rPolicy" /\ Commit(m) /\ late' = late /\ (k.dir => n.dir) /\ ~Over(w, n)
  <2>2. users' = users /\ keys' = keys /\ bucket' = bucket /\ acl' = acl
    BY <1>1, <1>8, OnlyPolicy
  <2>3. n.calm => Alone(w, n)'
    BY <1>1, <1>2, <1>4, <1>5, <1>a, <1>8, AloneSent DEF CalmOK, RevokeSent
  <2>4. ASSUME n.calm, n.id # 0 PROVE Revoked(n)'
    <3>1. Revoked(k)
      BY <1>4, <1>8, <2>4 DEF CalmOK
    <3>2. /\ KeysOf(n.id) = {} /\ (n.own \/ users[n.access] # n.id)
          /\ RootOf[n.access] = 0 => n.own
          /\ n.dir \/ NoEntries(n.access, n.id)
      BY <1>4, <1>8, <3>1 DEF Revoked
    <3>3. KeysOf(n.id)' = {} /\ (n.dir \/ NoEntries(n.access, n.id)')
      BY <2>2, <3>2 DEF KeysOf, NoEntries
    <3> QED
      BY <1>8, <2>2, <3>2, <3>3 DEF Revoked
  <2> QED
    BY <1>5, <1>8, <2>3, <2>4, CalmRevoke
<1> QED
  BY <1>1, <1>2, <1>3, <1>6, <1>7, <1>8

\* A revoke that reads the ACL.
LEMMA RevokeGetAclCalm ==
    ASSUME NEW o \in Owners, Base(o), NEW w \in Workers, NEW k \in Locals, k = work[w],
           CalmOK(w, k), NEW n \in Locals, n = work'[w], At(w, "rAcl"), RevokeAcl(w)
    PROVE  CalmOK(w, n)'
<1>1. PICK l \in Locals :
             /\ Moved(w, l) /\ LocalOK(o, l) /\ Onto(w, l) /\ Same(l, work[w])
             /\ l.own => work[w].own
             /\ work[w].own => l.own
             /\ l.pc \in {"rPutAcl", "rPolicy", "rDelUser", "rDone"}
             /\ l.pc = "rPolicy" => work[w].pol
             /\ l.pc = "rDone" => ~l.own
             /\ l.pc # "rPutAcl" => bucket.root = 0 \/ EntriesOf(work[w].id, acl.entries) = {}
  BY RevokeGetAclIs
<1>2. l = n
  BY <1>1, StepsTo DEF Moved
<1>3. /\ n.pc \in {"rPutAcl", "rPolicy", "rDelUser", "rDone"} /\ k.pc = "rAcl"
      /\ n.access = k.access /\ (n.calm => k.calm) /\ n.id = k.id
      /\ (k.own => n.own) /\ (n.pc = "rDone" => ~k.own)
      /\ n.pc # "rPutAcl" => bucket.root = 0 \/ EntriesOf(k.id, acl.entries) = {}
  BY <1>1, <1>2 DEF Same, Call, At
<1>4. /\ n.pc \in RevokePoints /\ n.pc \notin KeyPoints
      /\ k.pc \in RevokePoints \ {"rUser", "rList", "rDrop"}
      /\ k.pc \notin PutPolicyPoints \cup PutAclPoints
  BY <1>3 DEF RevokePoints, KeyPoints, PutPolicyPoints, PutAclPoints
<1>a. Goes(k, n)
  BY <1>3, <1>4, GoesRevoke DEF RevokeSent
<1>5. n.calm => Alone(w, n)'
  BY <1>1, <1>2, <1>3, <1>4, <1>a, AloneMoved DEF CalmOK
<1>6. ASSUME n.calm, n.id # 0 PROVE Revoked(n)
  <2>1. Revoked(k)
    BY <1>3, <1>4, <1>6 DEF CalmOK
  <2>2. /\ KeysOf(n.id) = {} /\ (n.own \/ users[n.access] # n.id)
        /\ RootOf[n.access] = 0 => n.own
        /\ n.pc = "rDone" => users[n.access] # n.id
        /\ NoStatement(n.access, n.id)
    BY <1>3, <1>4, <2>1 DEF Revoked
  <2>3. n.pc # "rPutAcl" => NoEntries(n.access, n.id)
    BY <1>3 DEF NoEntries
  <2> QED
    BY <1>3, <2>2, <2>3 DEF Revoked
<1>7. n.calm /\ n.id # 0 => Revoked(n)'
  BY <1>1, <1>6, RevokedMoved
<1> QED
  BY <1>4, <1>5, <1>7, CalmRevoke

\* A revoke that writes the ACL.
LEMMA RevokePutAclCalm ==
    ASSUME NEW o \in Owners, Base(o), CoreTypes', Evolves,
           NEW w \in Workers, NEW k \in Locals, k = work[w],
           CalmOK(w, k), NEW n \in Locals, n = work'[w], At(w, "rPutAcl"), RevokeAcl(w)
    PROVE  CalmOK(w, n)'
<1>0. PICK m : \E l \in Locals :
             /\ Sent(w, m, l) /\ LocalOK(o, l) /\ m.op = "acl"
             /\ \/ Over(w, l)
                \/ /\ Onto(w, l) /\ Same(l, work[w])
                   /\ l.own => work[w].own
                   /\ work[w].own => l.own
                   /\ \/ l = work[w] /\ UNCHANGED core /\ late' = late \cup {m}
                      \/ /\ l.pc \in {"rPolicy", "rDelUser", "rDone"}
                         /\ l.pc = "rPolicy" => work[w].pol
                         /\ l.pc = "rDone" => ~l.own
                         /\ Taken(m) \/ (bucket.root = 0 /\ UNCHANGED core /\ late' = late)
                      \/ l.pc = "rAcl" /\ Commit(m) /\ late' = late
  BY RevokePutAclIs
<1>1. PICK l \in Locals :
             /\ Sent(w, m, l) /\ m.op = "acl"
             /\ \/ Over(w, l)
                \/ /\ Onto(w, l) /\ Same(l, work[w])
                   /\ l.own => work[w].own
                   /\ work[w].own => l.own
                   /\ \/ l = work[w] /\ UNCHANGED core /\ late' = late \cup {m}
                      \/ /\ l.pc \in {"rPolicy", "rDelUser", "rDone"}
                         /\ l.pc = "rDone" => ~l.own
                         /\ Taken(m) \/ (bucket.root = 0 /\ UNCHANGED core /\ late' = late)
                      \/ l.pc = "rAcl" /\ Commit(m) /\ late' = late
  BY <1>0
<1>2. l = n
  BY <1>1, StepsTo DEF Sent
<1>3. CASE Over(w, n)
  BY <1>3, CalmOver
<1>4. ASSUME ~Over(w, n)
      PROVE  /\ k.pc = "rPutAcl" /\ k.pc \in RevokePoints \ {"rUser", "rList", "rDrop"}
             /\ n.access = k.access /\ (n.calm => k.calm) /\ n.id = k.id /\ (k.own => n.own)
             /\ (n.pc = "rDone" => ~k.own) /\ Sends(w, m)
             /\ n.pc \in {"rPutAcl", "rPolicy", "rAcl", "rDelUser", "rDone"}
  BY <1>1, <1>2, <1>4 DEF Same, Call, At, RevokePoints, Sent
<1>5. ASSUME ~Over(w, n)
      PROVE  n.pc \in RevokePoints /\ n.pc \notin KeyPoints
  BY <1>4, <1>5 DEF RevokePoints, KeyPoints
<1>a. ASSUME ~Over(w, n), n.pc \in RevokeSent PROVE Goes(k, n)
  BY <1>4, <1>a, GoesRevoke
<1>6. CASE n = k /\ UNCHANGED core /\ late' = late \cup {m} /\ ~Over(w, n)
  <2>1. n.calm => Alone(w, n)'
    BY <1>1, <1>2, <1>4, <1>6, AloneLost DEF CalmOK
  <2>2. n.calm /\ n.id # 0 => Revoked(n)'
    BY <1>4, <1>6, RevokedKept DEF CalmOK
  <2> QED
    BY <1>5, <1>6, <2>1, <2>2, CalmRevoke
<1>7. CASE /\ n.pc \in {"rPolicy", "rDelUser", "rDone"} /\ ~Over(w, n)
           /\ Taken(m) \/ (bucket.root = 0 /\ UNCHANGED core /\ late' = late)
  <2>1. Commit(m) /\ late' = late
    BY <1>1, <1>7 DEF Taken, Commit, Answer
  <2>2. users' = users /\ keys' = keys /\ bucket' = bucket /\ policy' = policy
    BY <1>1, <2>1, OnlyAcl
  <2>3. n.calm => Alone(w, n)'
    BY <1>1, <1>2, <1>4, <1>5, <1>a, <1>7, <2>1, AloneSent DEF CalmOK, RevokeSent
  <2>4. ASSUME n.calm, n.id # 0 PROVE Revoked(n)'
    <3>1. Revoked(k)
      BY <1>4, <1>7, <2>4 DEF CalmOK
    <3>2. /\ KeysOf(n.id) = {} /\ (n.own \/ users[n.access] # n.id)
          /\ RootOf[n.access] = 0 => n.own
          /\ n.pc = "rDone" => users[n.access] # n.id
          /\ NoStatement(n.access, n.id)
      BY <1>4, <1>7, <3>1 DEF Revoked
    <3>3. KeysOf(n.id)' = {} /\ NoStatement(n.access, n.id)'
      BY <2>2, <3>2 DEF KeysOf, NoStatement
    <3>4. NoEntries(n.access, n.id)'
      <4>1. CASE Taken(m)
        <5>1. acl'.entries = m.entries
          BY <1>1, <4>1 DEF Taken, Effect
        <5>2. EntriesOf(k.id, m.entries) = {}
          <6>1. Sends(w, m) /\ m.op = "acl" /\ k.pc = "rPutAcl"
            BY <1>1, <1>4, <1>7
          <6> QED
            BY <6>1, EntriesPut
        <5> QED
          BY <1>4, <1>7, <5>1, <5>2 DEF NoEntries
      <4>2. CASE bucket.root = 0
        BY <2>2, <4>2 DEF NoEntries
      <4> QED
        BY <1>7, <4>1, <4>2
    <3> QED
      BY <1>7, <2>2, <3>2, <3>3, <3>4 DEF Revoked
  <2> QED
    BY <1>5, <1>7, <2>3, <2>4, CalmRevoke
<1>8. CASE n.pc = "rAcl" /\ Commit(m) /\ late' = late /\ ~Over(w, n)
  <2>2. users' = users /\ keys' = keys /\ bucket' = bucket /\ policy' = policy
    BY <1>1, <1>8, OnlyAcl
  <2>3. n.calm => Alone(w, n)'
    BY <1>1, <1>2, <1>4, <1>5, <1>a, <1>8, AloneSent DEF CalmOK, RevokeSent
  <2>4. ASSUME n.calm, n.id # 0 PROVE Revoked(n)'
    <3>1. Revoked(k)
      BY <1>4, <1>8, <2>4 DEF CalmOK
    <3>2. /\ KeysOf(n.id) = {} /\ (n.own \/ users[n.access] # n.id)
          /\ RootOf[n.access] = 0 => n.own
          /\ NoStatement(n.access, n.id)
      BY <1>4, <1>8, <3>1 DEF Revoked
    <3>3. KeysOf(n.id)' = {} /\ NoStatement(n.access, n.id)'
      BY <2>2, <3>2 DEF KeysOf, NoStatement
    <3> QED
      BY <1>8, <2>2, <3>2, <3>3 DEF Revoked
  <2> QED
    BY <1>5, <1>8, <2>3, <2>4, CalmRevoke
<1> QED
  BY <1>1, <1>2, <1>3, <1>6, <1>7, <1>8

\* A revoke that deletes its user.
LEMMA RevokeDelUserCalm ==
    ASSUME NEW o \in Owners, Base(o), CoreTypes', Evolves,
           NEW w \in Workers, NEW k \in Locals, k = work[w],
           CalmOK(w, k), NEW n \in Locals, n = work'[w], RevokeDelUser(w)
    PROVE  CalmOK(w, n)'
<1>0. PICK m : \E l \in Locals :
             /\ Sent(w, m, l) /\ LocalOK(o, l) /\ m.op = "dropUser" /\ m.id = work[w].id
             /\ \/ Over(w, l)
                \/ /\ Onto(w, l) /\ Same(l, work[w]) /\ Flags(l, work[w]) /\ l.pc = "rDone"
                   /\ Commit(m) /\ late' = late
  BY RevokeDelUserIs
<1>1. PICK l \in Locals :
             /\ Sent(w, m, l) /\ m.op = "dropUser" /\ m.id = work[w].id
             /\ \/ Over(w, l)
                \/ /\ Same(l, work[w]) /\ Flags(l, work[w]) /\ l.pc = "rDone"
                   /\ Commit(m) /\ late' = late
  BY <1>0
<1>2. l = n
  BY <1>1, StepsTo DEF Sent
<1>3. CASE Over(w, n)
  BY <1>3, CalmOver
<1>4. CASE Same(n, k) /\ Flags(n, k) /\ n.pc = "rDone" /\ Commit(m) /\ late' = late
  <2>1. /\ k.pc = "rDelUser" /\ k.pc \in RevokePoints \ {"rUser", "rList", "rDrop"}
        /\ n.access = k.access /\ (n.calm => k.calm) /\ n.id = k.id
        /\ n.pc \in RevokePoints /\ n.pc \notin KeyPoints
        /\ n.access \in Accesses /\ (k.own => n.own)
    BY <1>4 DEF Same, Call, Flags, RevokeDelUser, At, RevokePoints, KeyPoints, Locals
  <2>2. keys' = keys /\ bucket' = bucket /\ policy' = policy /\ acl' = acl
    BY <1>1, <1>4 DEF Commit, Effect, core
  <2>a. Goes(k, n)
    BY <1>4, <2>1, GoesRevoke DEF RevokeSent
  <2>3. n.calm => Alone(w, n)'
    BY <1>1, <1>2, <1>4, <2>1, <2>a, AloneSent DEF CalmOK
  <2>4. ASSUME n.calm, n.id # 0 PROVE Revoked(n)'
    <3>1. Revoked(k)
      BY <2>1, <2>4 DEF CalmOK
    <3>2. /\ KeysOf(n.id) = {} /\ NoStatement(n.access, n.id) /\ NoEntries(n.access, n.id)
          /\ RootOf[n.access] = 0 => k.own
      BY <2>1, <3>1 DEF Revoked
    <3>3. users'[n.access] # n.id
      <4>1. CASE Answer(m) = "ok"
        <5>1. users' = [a \in Accesses |-> IF users[a] = m.id THEN 0 ELSE users[a]]
          BY <1>1, <1>4, <4>1 DEF Commit, Effect
        <5> QED
          BY <1>1, <2>1, <2>4, <5>1
      <4>2. CASE Answer(m) # "ok"
        <5>1. users' = users /\ m.id \notin Live
          BY <1>1, <1>4, <4>2 DEF Commit, core, Answer
        <5> QED
          BY <1>1, <2>1, <2>4, <5>1 DEF Live
      <4> QED
        BY <4>1, <4>2
    <3>4. /\ KeysOf(n.id)' = {} /\ NoStatement(n.access, n.id)' /\ NoEntries(n.access, n.id)'
      BY <2>2, <3>2 DEF KeysOf, NoStatement, NoEntries
    <3> QED
      BY <1>4, <2>1, <2>2, <3>2, <3>3, <3>4 DEF Revoked
  <2> QED
    BY <2>1, <2>3, <2>4, CalmRevoke
<1> QED
  BY <1>1, <1>2, <1>3, <1>4

\* A cleanup, a call that fails and a caller that leaves have nothing to keep.
LEMMA CleanupCalm ==
    ASSUME NEW o \in Owners, Base(o), NEW w \in Workers, NEW n \in Locals, n = work'[w],
           Cleanup(w) \/ RequestFails(w) \/ CallerLeaves(w)
    PROVE  CalmOK(w, n)'
<1>1. CASE ListKeys(w, "cList", "cDrop", Idle)
  <2>1. PICK l \in Locals : Moved(w, l) /\ (Over(w, l) \/ l.pc \in {"cDrop", "idle"})
    BY <1>1, ListKeysIs
  <2>2. l = n
    BY <2>1, StepsTo DEF Moved
  <2>3. Over(w, n) \/ n.pc \notin GrantPoints \cup RevokePoints
    BY <2>1, <2>2 DEF GrantPoints, RevokePoints
  <2> QED
    BY <2>3, CalmOver, CalmEnds
<1>2. CASE DropKeys(w, "cDrop", Idle)
  <2>1. DropsKey(o, w, "cDrop", "idle")
    BY <1>2, DropKeysIs
  <2>2. PICK m : \E l \in Locals : Sent(w, m, l) /\ (Over(w, l) \/ l.pc \in {"cDrop", "idle"})
    BY <2>1 DEF DropsKey
  <2>3. PICK l \in Locals : Sent(w, m, l) /\ (Over(w, l) \/ l.pc \in {"cDrop", "idle"})
    BY <2>2
  <2>4. l = n
    BY <2>3, StepsTo DEF Sent
  <2>5. Over(w, n) \/ n.pc \notin GrantPoints \cup RevokePoints
    BY <2>3, <2>4 DEF GrantPoints, RevokePoints
  <2> QED
    BY <2>5, CalmOver, CalmEnds
<1>3. CASE At(w, "cOwn") /\ Cleanup(w)
  <2>2. PICK m : \E l \in Locals : Sent(w, m, l) /\ Over(w, l)
    BY <1>3, CleanupOwnIs
  <2>3. PICK l \in Locals : Sent(w, m, l) /\ Over(w, l)
    BY <2>2
  <2>4. l = n
    BY <2>3, StepsTo DEF Sent
  <2> QED
    BY <2>3, <2>4, CalmOver
<1>4. CASE RequestFails(w)
  <2>1. PICK l \in Locals : Moved(w, l) /\ (Over(w, l) \/ l.pc \in {"cList", "cOwn"})
    BY <1>4, RequestFailsIs
  <2>2. l = n
    BY <2>1, StepsTo DEF Moved
  <2> QED
    BY <2>1, <2>2, CalmOver DEF CleanPoints
<1>5. CASE CallerLeaves(w)
  <2>1. PICK l \in Locals : Moved(w, l) /\ l.pc \in CleanPoints
    BY <1>5, CallerLeavesIs
  <2>2. l = n
    BY <2>1, StepsTo DEF Moved
  <2> QED
    BY <2>1, <2>2, CalmOver
<1>6. Cleanup(w) => \/ ListKeys(w, "cList", "cDrop", Idle) \/ DropKeys(w, "cDrop", Idle)
                    \/ At(w, "cOwn")
  BY DEF Cleanup
<1> QED
  BY <1>1, <1>2, <1>3, <1>4, <1>5, <1>6

\* An undisturbed call remains one by its own step.
LEMMA HandlerCalm ==
    ASSUME NEW o \in Owners, NEW p \in Owners, Agree(o, p), Base(o), CoreTypes', Evolves,
           NEW w \in Workers, NEW k \in Locals,
           k = work[w], p[next.user] = work[w].access,
           CalmOK(w, k), NEW n \in Locals, n = work'[w], HandlerStep(w)
    PROVE  CalmOK(w, n)'
<1>1. CASE GrantBucket(w) \/ GrantAttrs(w) \/ GrantLookup(w)
  BY <1>1, LookupCalm
<1>2. CASE GrantUser(w)
  BY <1>2, UserCalm
<1>3. CASE GrantRotate(w)
  BY <1>3, RotateCalm
<1>4. CASE GrantKey(w)
  BY <1>4, KeyCalm
<1>5. CASE GrantPolicy(w)
  BY <1>5, PolicyCalm
<1>6. CASE GrantAcl(w)
  BY <1>6, AclCalm
<1>7. CASE Cleanup(w) \/ RequestFails(w) \/ CallerLeaves(w)
  BY <1>7, CleanupCalm
<1>8. CASE RevokeUser(w)
  BY <1>8, RevokeUserCalm
<1>9. CASE RevokeKeys(w)
  BY <1>9, RevokeKeysCalm
<1>10. CASE RevokeBucket(w)
  BY <1>10, RevokeBucketCalm
<1>11. CASE RevokePolicy(w)
  <2>1. GetPolicy(w, "rPolicy", "rPutPolicy") \/ At(w, "rPutPolicy")
    BY <1>11 DEF RevokePolicy
  <2> QED
    BY <1>11, <2>1, RevokeGetPolicyCalm, RevokePutPolicyCalm
<1>12. CASE RevokeAcl(w)
  <2>1. At(w, "rAcl") \/ At(w, "rPutAcl")
    BY <1>12 DEF RevokeAcl
  <2> QED
    BY <1>12, <2>1, RevokeGetAclCalm, RevokePutAclCalm
<1>13. CASE RevokeDelUser(w)
  BY <1>13, RevokeDelUserCalm
<1> QED
  BY <1>1, <1>2, <1>3, <1>4, <1>5, <1>6, <1>7, <1>8, <1>9, <1>10, <1>11, <1>12, <1>13
     DEF HandlerStep

\* A call that is not alone has nothing to keep.
LEMMA CalmContradicts ==
    ASSUME NEW v \in Workers, NEW w \in Workers, w # v, NEW k, CalmOK(v, k), Busy(w, k.access)
    PROVE  CalmOK(v, k)'
BY DEF CalmOK, Alone

\* A user that a revoke took back is the user of no access.
LEMMA GoneUser ==
    ASSUME NEW o, Base(o), NEW r \in hist.revoked, GoneOK(r)
    PROVE  /\ r.id \notin Live /\ r.id \in Nat /\ r.id # 0 /\ r.id < next.user
           /\ o[r.id] = r.access /\ r.access \in Accesses
           /\ \A a \in Accesses : users[a] # r.id
<1>1. /\ r.id \in Nat /\ r.id # 0 /\ r.id < next.user /\ o[r.id] = r.access
      /\ r.access \in Accesses /\ users[r.access] # r.id
  BY DEF Base, CoreTypes, CoreOK, UserOf, Accounts, GoneOK
<1>2. \A a \in Accesses : users[a] # 0 => o[users[a]] = a
  BY DEF Base, CoreOK, UserOf
<1>3. \A a \in Accesses : users[a] # r.id
  BY <1>1, <1>2
<1> QED
  BY <1>1, <1>3 DEF Live

\* Core accepts a write of policy or ACL only if it is up to date.
LEMMA AcceptedIsLive ==
    ASSUME NEW o, NEW m, MsgOK(o, m), Answer(m) = "ok"
    PROVE  /\ m.op = "policy" => PolicyLive(m)
           /\ m.op = "acl" => AclLive(m)
<1>1. m.op = "policy" => bucket.open /\ m.etag \in {0, policy.etag} /\ PolicyFor(o, m)
  BY DEF Answer, MsgOK
<1>2. m.op = "acl" => bucket.root # 0 /\ m.etag = acl.etag
  BY DEF Answer
<1> QED
  BY <1>1, <1>2 DEF PolicyLive, AclLive, PolicyFor

\* A write that names the user of a revoke nowhere brings nothing of it back.
LEMMA GoneCommit ==
    ASSUME NEW o, Base(o), CoreTypes', Evolves, NEW r \in hist.revoked, GoneOK(r),
           NEW m, MsgOK(o, m), Commit(m), m.access = r.access, MsgGone(m, r)
    PROVE  /\ users'[r.access] # r.id /\ KeysOf(r.id)' = {}
           /\ NoStatement(r.access, r.id)' /\ NoEntries(r.access, r.id)'
<1>1. /\ r.id \notin Live /\ r.id \in Nat /\ r.id # 0 /\ r.id < next.user
      /\ r.access \in Accesses
  BY GoneUser
<1>2. /\ users[r.access] # r.id /\ KeysOf(r.id) = {}
      /\ NoStatement(r.access, r.id) /\ NoEntries(r.access, r.id)
  BY DEF GoneOK
<1>3. users'[r.access] # r.id
  BY <1>1, <1>2 DEF Evolves, Base, CoreTypes
<1>4. KeysOf(r.id)' = {}
  <2>1. CASE Answer(m) = "ok" /\ m.op = "key"
    <3>1. m.id # r.id
      BY <1>1, <2>1 DEF Answer
    <3>2. PICK new : new = [id |-> next.key, owner |-> m.id]
      OBVIOUS
    <3>3. keys' = keys \cup {new} /\ new.owner = m.id
      BY <2>1, <3>2 DEF Commit, Effect
    <3> QED
      BY <1>2, <3>1, <3>3 DEF KeysOf
  <2>2. CASE ~(Answer(m) = "ok" /\ m.op = "key")
    <3>1. \A k \in keys' : k \in keys
      BY <2>2 DEF Commit, Effect, core
    <3> QED
      BY <1>2, <3>1 DEF KeysOf
  <2> QED
    BY <2>1, <2>2
<1>5. NoStatement(r.access, r.id)'
  <2>1. CASE Answer(m) = "ok" /\ m.op = "policy"
    <3>1. PolicyLive(m)
      BY <2>1, AcceptedIsLive
    <3>2. policy'.stmts = m.stmts
      BY <2>1 DEF Commit, Effect
    <3> QED
      BY <3>1, <3>2 DEF MsgGone, NoStatement
  <2>2. CASE ~(Answer(m) = "ok" /\ m.op = "policy")
    <3>1. policy' = policy /\ bucket' = bucket
      BY <2>2 DEF Commit, Effect, core
    <3> QED
      BY <1>2, <3>1 DEF NoStatement
  <2> QED
    BY <2>1, <2>2
<1>6. NoEntries(r.access, r.id)'
  <2>1. CASE Answer(m) = "ok" /\ m.op = "acl"
    <3>1. AclLive(m)
      BY <2>1, AcceptedIsLive
    <3>2. acl'.entries = m.entries /\ bucket' = bucket
      BY <2>1 DEF Commit, Effect
    <3> QED
      BY <3>1, <3>2 DEF MsgGone, NoEntries
  <2>2. CASE ~(Answer(m) = "ok" /\ m.op = "acl")
    <3>1. acl' = acl /\ bucket' = bucket
      BY <2>2 DEF Commit, Effect, core
    <3> QED
      BY <1>2, <3>1 DEF NoEntries
  <2> QED
    BY <2>1, <2>2
<1> QED
  BY <1>3, <1>4, <1>5, <1>6

\* A handler sends no write that names the user of a revoke.
LEMMA SendsGone ==
    ASSUME NEW o, Base(o), NEW r \in hist.revoked, GoneOK(r),
           NEW w \in Workers, NEW k \in Locals, k = work[w], NEW m, Sends(w, m),
           k.access = r.access
    PROVE  MsgGone(m, r)
<1>0. LocalOK(o, k) /\ (k.pc \in GrantPoints => k.id # r.id) /\ r.id # 0
  BY GoneUser DEF Base, GoneOK
<1>1. ASSUME PolicyLive(m) PROVE m.stmts[r.access].id # r.id
  <2>0. m.op = "policy" /\ m.etag \in {0, policy.etag} /\ bucket.open
    BY <1>1 DEF PolicyLive
  <2>1. /\ k.pc \in PutPolicyPoints /\ m.etag = k.etag
        /\ k.pc = "gPutPolicy" => m.stmts[k.access] = [id |-> k.id, mode |-> k.mode]
        /\ k.pc = "rPutPolicy" => \/ m.stmts[k.access] = Nobody
                                  \/ m.stmts[k.access] = k.stmts[k.access]
    BY <2>0, StatementPut
  <2>2. k.stmts \in {policy.stmts, NoStatements}
    BY <1>0, <2>0, <2>1 DEF LocalOK, PolicyRead
  <2>3. policy.stmts[r.access].id # r.id
    BY <2>0 DEF GoneOK, NoStatement
  <2>4. CASE k.pc = "gPutPolicy"
    <3>1. k.id # r.id
      BY <1>0, <2>4 DEF GrantPoints
    <3> QED
      BY <2>1, <2>4, <3>1
  <2>5. CASE k.pc = "rPutPolicy"
    <3>1. NoStatements[r.access] = Nobody
      BY GoneUser DEF NoStatements
    <3> QED
      BY <1>0, <2>1, <2>2, <2>3, <2>5, <3>1, NobodyType
  <2> QED
    BY <2>1, <2>4, <2>5 DEF PutPolicyPoints
<1>2. ASSUME AclLive(m), RootOf[r.access] # 0 \/ bucket.open
      PROVE  EntriesOf(r.id, m.entries) = {}
  <2>0. m.op = "acl" /\ m.etag = acl.etag /\ bucket.root # 0
    BY <1>2 DEF AclLive
  <2>1. /\ k.pc \in PutAclPoints /\ m.etag = k.etag
        /\ k.pc = "rPutAcl" => EntriesOf(k.id, m.entries) = {}
        /\ \A id : id # k.id => EntriesOf(id, m.entries) = EntriesOf(id, k.entries)
    BY <2>0, EntriesPut
  <2>2. k.entries = acl.entries
    BY <1>0, <2>0, <2>1 DEF LocalOK, AclRead
  <2>3. EntriesOf(r.id, acl.entries) = {}
    BY <1>2, <2>0 DEF GoneOK, NoEntries
  <2>4. k.id = r.id => k.pc = "rPutAcl"
    BY <1>0, <2>1 DEF PutAclPoints, GrantPoints
  <2> QED
    BY <2>1, <2>2, <2>3, <2>4
<1> QED
  BY <1>1, <1>2 DEF MsgGone

\* A write on its way that names the user of a revoke nowhere, never will.
LEMMA GoneMessage ==
    ASSUME NEW o, Base(o), CoreTypes', Evolves, NEW r, NEW m \in late, MsgGone(m, r)
    PROVE  MsgGone(m, r)'
<1>1. bucket'.open => bucket.open
  BY DEF Evolves
<1>2. /\ PolicyLive(m)' => PolicyLive(m)
      /\ AclLive(m)' => AclLive(m)
  BY LiveStays
<1> QED
  BY <1>1, <1>2 DEF MsgGone

\* A call that a step does not start and that gets a user, gets one that is not taken back.
LEMMA GoneWriter ==
    ASSUME NEW o, Base(o), NEW r \in hist.revoked, GoneOK(r), NEW w \in Workers,
           NEW n \in Locals, Follows(w, n), n.pc \in GrantPoints
    PROVE  n.id # r.id
<1>0. PICK k \in Locals : k = work[w]
  BY DEF Base
<1>1. n.pc # "idle" /\ n.pc \notin CleanPoints
  BY DEF GrantPoints, CleanPoints
<1>2. k.pc \in GrantPoints /\ (n.id = k.id \/ n.id = next.user \/ n.id = users[k.access])
  BY <1>0, <1>1 DEF Follows, Onto
<1>3. k.id # r.id
  BY <1>0, <1>2 DEF GoneOK
<1>4. next.user # r.id /\ users[k.access] # r.id
  <2>1. r.id < next.user /\ \A a \in Accesses : users[a] # r.id
    BY GoneUser
  <2>2. r.id \in Nat /\ next.user \in Nat /\ k.access \in Accesses
    BY GoneUser DEF Base, CoreTypes, Locals
  <2> QED
    BY <2>1, <2>2
<1> QED
  BY <1>2, <1>3, <1>4

\* A write that takes nothing of what a grant gave, leaves it all.
LEMMA GivenCommit ==
    ASSUME NEW o, Base(o), NEW g \in hist.given, GivenOK(g),
           NEW m, MsgOK(o, m), Commit(m), m.access = g.access, MsgGiven(m, g),
           hist'.removed = hist.removed
    PROVE  /\ g.id \notin hist'.removed => users'[g.access] = g.id
           /\ [id |-> g.key, owner |-> g.id] \in keys'
           /\ policy'.stmts[g.access] = [id |-> g.id, mode |-> g.mode]
           /\ EntriesOf(g.id, acl'.entries) = Exact(g)
<1>0. g.access \in Accesses /\ g.id # 0
  BY DEF Base, CoreTypes, CoreOK, Grants, UserOf
<1>1. g.id \notin hist'.removed => users'[g.access] = g.id
  <2> SUFFICES ASSUME g.id \notin hist'.removed PROVE users'[g.access] = g.id
    OBVIOUS
  <2>0. users[g.access] = g.id
    BY DEF GivenOK
  <2>1. CASE Answer(m) = "ok" /\ m.op = "user"
    BY <1>0, <2>0, <2>1 DEF Answer
  <2>2. CASE Answer(m) = "ok" /\ m.op = "dropUser"
    <3>1. users' = [a \in Accesses |-> IF users[a] = m.id THEN 0 ELSE users[a]]
      BY <2>2 DEF Commit, Effect
    <3> QED
      BY <1>0, <2>0, <2>2, <3>1 DEF MsgGiven
  <2>3. CASE ~(Answer(m) = "ok" /\ m.op \in {"user", "dropUser"})
    <3>1. users' = users
      BY <2>3 DEF Commit, Effect, core
    <3> QED
      BY <2>0, <3>1
  <2> QED
    BY <2>1, <2>2, <2>3
<1>2. [id |-> g.key, owner |-> g.id] \in keys'
  <2>0. PICK j \in keys : j = [id |-> g.key, owner |-> g.id]
    BY DEF GivenOK
  <2>1. CASE Answer(m) = "ok" /\ m.op = "dropKey"
    <3>1. keys' = {k \in keys : k.id # m.id}
      BY <2>1 DEF Commit, Effect
    <3> QED
      BY <2>0, <2>1, <3>1 DEF MsgGiven
  <2>2. CASE ~(Answer(m) = "ok" /\ m.op = "dropKey")
    <3>1. \A k \in keys : k \in keys'
      BY <2>2 DEF Commit, Effect, core
    <3> QED
      BY <2>0, <3>1
  <2> QED
    BY <2>1, <2>2
<1>3. policy'.stmts[g.access] = [id |-> g.id, mode |-> g.mode]
  <2>1. CASE Answer(m) = "ok" /\ m.op = "policy"
    <3>1. PolicyLive(m)
      BY <2>1, AcceptedIsLive
    <3>2. policy'.stmts = m.stmts
      BY <2>1 DEF Commit, Effect
    <3> QED
      BY <3>1, <3>2 DEF MsgGiven
  <2>2. CASE ~(Answer(m) = "ok" /\ m.op = "policy")
    <3>1. policy' = policy
      BY <2>2 DEF Commit, Effect, core
    <3> QED
      BY <3>1 DEF GivenOK
  <2> QED
    BY <2>1, <2>2
<1>4. EntriesOf(g.id, acl'.entries) = Exact(g)
  <2>1. CASE Answer(m) = "ok" /\ m.op = "acl"
    <3>1. AclLive(m)
      BY <2>1, AcceptedIsLive
    <3>2. acl'.entries = m.entries
      BY <2>1 DEF Commit, Effect
    <3> QED
      BY <3>1, <3>2 DEF MsgGiven
  <2>2. CASE ~(Answer(m) = "ok" /\ m.op = "acl")
    <3>1. acl' = acl
      BY <2>2 DEF Commit, Effect, core
    <3> QED
      BY <3>1 DEF GivenOK
  <2> QED
    BY <2>1, <2>2
<1> QED
  BY <1>1, <1>2, <1>3, <1>4

\* The revoke of an earlier user of the access sends no write that takes what was given.
LEMMA SendsGiven ==
    ASSUME NEW o, Base(o), NEW g \in hist.given, GivenOK(g),
           NEW w \in Workers, NEW k \in Locals, k = work[w], NEW m, Sends(w, m),
           Busy(w, g.access)
    PROVE  MsgGiven(m, g)
<1>0. /\ LocalOK(o, k) /\ k.access = g.access
      /\ k.pc \in RevokePoints /\ RootOf[g.access] # 0 /\ k.id # g.id
  BY DEF Base, GivenOK, GivenBusy, Busy
<1>1. m.op = "dropUser" => m.id # g.id
  BY <1>0 DEF Sends, At, DropPoints, PutPolicyPoints, PutAclPoints
<1>2. m.op = "dropKey" => m.id # g.key
  <2> SUFFICES ASSUME m.op = "dropKey" PROVE m.id # g.key
    OBVIOUS
  <2>1. k.pc \in DropPoints /\ m.id \in k.todo
    BY <1>0 DEF Sends, At, RevokePoints
  <2>2. KeyOf(m.id, k.id)
    BY <1>0, <2>1 DEF LocalOK
  <2>3. PICK j \in keys : j = [id |-> g.key, owner |-> g.id]
    BY DEF GivenOK
  <2> QED
    BY <1>0, <2>2, <2>3 DEF KeyOf
<1>3. ASSUME PolicyLive(m) PROVE m.stmts[g.access] = [id |-> g.id, mode |-> g.mode]
  <2>0. m.op = "policy" /\ m.etag \in {0, policy.etag} /\ bucket.open
    BY <1>3 DEF PolicyLive
  <2>1. k.pc \in PutPolicyPoints /\ m.etag = k.etag
    BY <2>0 DEF Sends, At, PutPolicyPoints, PutAclPoints, DropPoints
  <2>2. k.pc = "rPutPolicy"
    BY <1>0, <2>1 DEF PutPolicyPoints, RevokePoints
  <2>a. m.etag # 0
    BY <2>0, <2>1, <2>2 DEF GivenOK, GivenBusy
  <2>3. k.stmts = policy.stmts
    BY <1>0, <2>0, <2>1, <2>a DEF LocalOK, PolicyRead
  <2>4. policy.stmts[g.access] = [id |-> g.id, mode |-> g.mode]
    BY DEF GivenOK
  <2>5. k.stmts[k.access].id # k.id
    BY <1>0, <2>3, <2>4
  <2>6. m.stmts[k.access] = k.stmts[k.access]
    BY <1>0, <2>0, <2>2, <2>5, StatementStays
  <2> QED
    BY <1>0, <2>3, <2>4, <2>6
<1>4. ASSUME AclLive(m) PROVE EntriesOf(g.id, m.entries) = Exact(g)
  <2>0. m.op = "acl" /\ m.etag = acl.etag
    BY <1>4 DEF AclLive
  <2>1. /\ k.pc \in PutAclPoints /\ m.etag = k.etag
        /\ \A id : id # k.id => EntriesOf(id, m.entries) = EntriesOf(id, k.entries)
    BY <2>0, EntriesPut
  <2>2. k.entries = acl.entries
    BY <1>0, <2>0, <2>1 DEF LocalOK, AclRead
  <2>3. EntriesOf(g.id, acl.entries) = Exact(g)
    BY DEF GivenOK
  <2> QED
    BY <1>0, <2>1, <2>2, <2>3
<1> QED
  BY <1>1, <1>2, <1>3, <1>4 DEF MsgGiven

\* A write on its way that takes nothing of what was given, never will.
LEMMA GivenMessage ==
    ASSUME NEW o, Base(o), CoreTypes', Evolves, NEW g, NEW m \in late, MsgGiven(m, g)
    PROVE  MsgGiven(m, g)'
<1>2. /\ PolicyLive(m)' => PolicyLive(m)
      /\ AclLive(m)' => AclLive(m)
  BY LiveStays
<1> QED
  BY <1>2 DEF MsgGiven

\* A call beside what a grant gave goes on as the revoke of an earlier user.
LEMMA GivenWriter ==
    ASSUME NEW o, Base(o), NEW g, GivenOK(g), NEW w \in Workers, Busy(w, g.access),
           NEW n \in Locals, Follows(w, n), n.pc # "idle"
    PROVE  n.pc \in RevokePoints /\ RootOf[g.access] # 0 /\ n.id # g.id
<1>0. PICK k \in Locals : k = work[w]
  BY DEF Base
<1>1. /\ k.access = g.access
      /\ k.pc \in RevokePoints /\ RootOf[g.access] # 0 /\ k.id # g.id
  BY <1>0 DEF GivenOK, GivenBusy, Busy
<1>2. k.pc \notin GrantPoints \cup CleanPoints
  BY <1>1 DEF RevokePoints, GrantPoints, CleanPoints
<1>3. Onto(w, n)
  BY <1>0, <1>2 DEF Follows
<1>4. n.id = k.id /\ n.pc \notin GrantPoints \cup CleanPoints
  BY <1>0, <1>1, <1>2, <1>3 DEF Onto
<1>5. n.pc \in Points
  BY DEF Locals
<1> QED
  BY <1>1, <1>4, <1>5 DEF Points

\* If it reads the policy again, the policy has an ETag.
LEMMA GivenRead ==
    ASSUME Evolves, NEW g, GivenOK(g), NoBlind(g.access), NEW w \in Workers, Busy(w, g.access),
           ReadAgain(w), bucket'.open, work'[w].pc = "rPutPolicy"
    PROVE  work'[w].etag # 0
<1>1. bucket.open /\ policy.etag # 0
  BY DEF Evolves, NoBlind
<1>2. CASE work'[w] = work[w]
  BY <1>1, <1>2 DEF GivenOK, GivenBusy
<1> QED
  BY <1>1, <1>2 DEF ReadAgain, PutPolicyPoints

\* The handler of a step has a call.
LEMMA StepBusy ==
    ASSUME NEW w, HandlerStep(w)
    PROVE  work[w].pc # "idle"
<1>1. CASE GrantBucket(w) \/ GrantAttrs(w) \/ GrantUser(w) \/ GrantLookup(w) \/ GrantKey(w)
  BY <1>1 DEF GrantBucket, GrantAttrs, GrantUser, GrantLookup, GrantKey, At
<1>2. CASE GrantRotate(w) \/ RevokeKeys(w) \/ Cleanup(w)
  BY <1>2 DEF GrantRotate, RevokeKeys, Cleanup, ListKeys, DropKeys, At
<1>3. CASE GrantPolicy(w) \/ RevokePolicy(w)
  BY <1>3 DEF GrantPolicy, RevokePolicy, GetPolicy, At
<1>4. CASE GrantAcl(w) \/ RevokeAcl(w)
  BY <1>4 DEF GrantAcl, RevokeAcl, At
<1>5. CASE RevokeUser(w) \/ RevokeBucket(w) \/ RevokeDelUser(w)
  BY <1>5 DEF RevokeUser, RevokeBucket, RevokeDelUser, At
<1>6. CASE RequestFails(w)
  BY <1>6 DEF RequestFails, At
<1>7. CASE CallerLeaves(w)
  BY <1>7 DEF CallerLeaves, CleanPoints
<1> QED
  BY <1>1, <1>2, <1>3, <1>4, <1>5, <1>6, <1>7 DEF HandlerStep

\* The step of a handler is one of its worker: Core is as it was, or one write was sent.
LEMMA StepIs ==
    ASSUME NEW o \in Owners, Base(o), NEW w \in Workers, HandlerStep(w)
    PROVE  /\ work' \in [Workers -> Locals] /\ Follows(w, work'[w]) /\ hist' = hist
           /\ \A v \in Workers \ {w} : work'[v] = work[v]
           /\ \/ UNCHANGED core /\ late' = late
              \/ \E m : /\ Sends(w, m)
                        /\ \/ Commit(m) /\ late' = late
                           \/ UNCHANGED core /\ late' = late \cup {m}
<1>1. work[w].access \in Accesses /\ CoreTypes
  BY DEF Base, Locals
<1>2. PICK p : p = NextOwner(o, work[w].access)
  OBVIOUS
<1>3. p \in Owners /\ Agree(o, p) /\ p[next.user] = work[w].access
  BY <1>1, <1>2, NextOwnerIs
<1>4. CASE MovesOn(o, w)
  <2>1. PICK n \in Locals : Moved(w, n) /\ Follows(w, n)
    BY <1>4 DEF MovesOn
  <2>2. work'[w] = n /\ \A v \in Workers \ {w} : work'[v] = work[v]
    BY <2>1, StepsTo DEF Moved
  <2>3. work' \in [Workers -> Locals]
    BY <2>1 DEF Moved, Base
  <2>4. UNCHANGED core /\ late' = late /\ hist' = hist
    BY <2>1 DEF Moved
  <2> QED
    BY <2>1, <2>2, <2>3, <2>4
<1>5. CASE SendsOn(o, p, w)
  <2>0. PICK m : \E n \in Locals : Sent(w, m, n) /\ Follows(w, n)
    BY <1>5 DEF SendsOn
  <2>1. PICK n \in Locals : Sent(w, m, n) /\ Follows(w, n)
    BY <2>0
  <2>2. work'[w] = n /\ \A v \in Workers \ {w} : work'[v] = work[v]
    BY <2>1, StepsTo DEF Sent
  <2>3. work' \in [Workers -> Locals]
    BY <2>1 DEF Sent, Base
  <2>4. /\ Sends(w, m) /\ hist' = hist
        /\ \/ Commit(m) /\ late' = late
           \/ UNCHANGED core /\ late' = late \cup {m}
    BY <2>1 DEF Sent
  <2> QED
    BY <2>1, <2>2, <2>3, <2>4
<1> QED
  BY <1>3, <1>4, <1>5, HandlerStepIs

\* Seen from another access, nothing happened.
LEMMA StepElsewhere ==
    ASSUME NEW o \in Owners, Base(o), NEW w \in Workers, HandlerStep(w),
           NEW a \in Accesses, a # work[w].access
    PROVE  /\ Kindly(o, a) /\ NoNews(a)
           /\ \A v \in Workers : Busy(v, a)' => Busy(v, a) /\ v # w
<1>1. \A v \in Workers : Busy(v, a)' => Busy(v, a) /\ v # w
  <2>1. Follows(w, work'[w]) /\ \A v \in Workers \ {w} : work'[v] = work[v]
    BY StepIs
  <2>2. work'[w].pc # "idle" => work'[w].access = work[w].access
    BY <2>1 DEF Follows, Onto, Call
  <2> QED
    BY <2>1, <2>2 DEF Busy
<1>2. hist' = hist
  BY StepIs
<1>3. CASE UNCHANGED core /\ late' = late
  <2>1. /\ users' = users /\ keys' = keys /\ policy' = policy /\ acl' = acl
    BY <1>3 DEF core
  <2>2. Kindly(o, a)
    BY <1>2, <2>1 DEF Kindly, KeysOf
  <2>3. NoNews(a)
    BY <1>3 DEF NoNews
  <2> QED
    BY <1>1, <2>2, <2>3
<1>4. CASE \E m : /\ Sends(w, m)
                  /\ \/ Commit(m) /\ late' = late
                     \/ UNCHANGED core /\ late' = late \cup {m}
  <2>1. PICK m : /\ Sends(w, m)
                 /\ \/ Commit(m) /\ late' = late
                    \/ UNCHANGED core /\ late' = late \cup {m}
    BY <1>4
  <2>2. MsgOK(o, m) /\ m.access = work[w].access
    BY <2>1, SendsOK DEF Sends
  <2>3. NoNews(a)
    BY <2>1, <2>2 DEF NoNews
  <2>4. Kindly(o, a)
    <3>1. CASE Commit(m)
      BY <1>2, <2>1, <2>2, <3>1, CommitElsewhere
    <3>2. CASE UNCHANGED core
      <4>1. /\ users' = users /\ keys' = keys /\ policy' = policy /\ acl' = acl
        BY <3>2 DEF core
      <4> QED
        BY <1>2, <4>1 DEF Kindly, KeysOf
    <3> QED
      BY <2>1, <3>1, <3>2
  <2> QED
    BY <1>1, <2>3, <2>4
<1> QED
  BY <1>1, <1>3, <1>4, StepIs

\* What calls that are undisturbed have is said of the value of their local variables,
\* and of the worker.
CalmHeld ==
    /\ work \in [Workers -> Locals]
    /\ \A w \in Workers, k \in Locals : work[w] = k => CalmOK(w, k)

Calm == \A w \in Workers : CalmOK(w, work[w])

\* If the values have it in the next state, the workers do.
LEMMA CalmNext == CalmHeld' => Calm'
<1>1. CalmHeld => Calm
  BY DEF CalmHeld, Calm
<1> QED
  BY <1>1, PTL

\* The parts of the invariant, one by one.
LEMMA KeptFrom ==
    ASSUME work' \in [Workers -> Locals],
           \A w \in Workers, n \in Locals : work'[w] = n => CalmOK(w, n)',
           \A r \in hist'.revoked : GoneOK(r)',
           \A g \in hist'.given : g.calm /\ ~g.blind => GivenOK(g)'
    PROVE  Kept'
<1>1. CalmHeld'
  BY DEF CalmHeld
<1>2. Calm'
  BY <1>1, CalmNext
<1> QED
  BY <1>2 DEF Kept, Calm

\* Core as it was, nothing new of this access on its way: what a revoke left is left.
LEMMA GoneStays ==
    ASSUME NEW r, GoneOK(r), UNCHANGED core,
           \A m \in late' : m.access = r.access => MsgGone(m, r),
           \A w \in Workers : work'[w].pc \in GrantPoints => work'[w].id # r.id
    PROVE  GoneOK(r)'
<1>1. /\ users' = users /\ keys' = keys /\ bucket' = bucket /\ policy' = policy /\ acl' = acl
  BY DEF core
<1>2. (\A m \in late : m.access = r.access => MsgGone(m, r))'
  BY <1>1 DEF MsgGone, PolicyLive, AclLive
<1>3. (\A w \in Workers : work[w].pc \in GrantPoints => work[w].id # r.id)'
  OBVIOUS
<1>4. KeysOf(r.id)' = KeysOf(r.id)
  BY <1>1 DEF KeysOf
<1>5. NoStatement(r.access, r.id)' /\ NoEntries(r.access, r.id)'
  BY <1>1 DEF GoneOK, NoStatement, NoEntries
<1> QED
  BY <1>1, <1>2, <1>3, <1>4, <1>5 DEF GoneOK

\* A write of this access that names the user nowhere is accepted or not: likewise.
LEMMA GoneAfter ==
    ASSUME NEW o, Base(o), CoreTypes', Evolves, NEW r \in hist.revoked, GoneOK(r),
           NEW m, MsgOK(o, m), Commit(m), m.access = r.access, MsgGone(m, r),
           \A l \in late' : l \in late,
           \A w \in Workers : work'[w].pc \in GrantPoints => work'[w].id # r.id
    PROVE  GoneOK(r)'
<1>1. /\ users'[r.access] # r.id /\ KeysOf(r.id)' = {}
      /\ NoStatement(r.access, r.id)' /\ NoEntries(r.access, r.id)'
  BY GoneCommit
<1>2. ASSUME NEW l \in late', l.access = r.access PROVE MsgGone(l, r)'
  <2>1. l \in late /\ MsgGone(l, r)
    BY <1>2 DEF GoneOK
  <2> QED
    BY <2>1, GoneMessage
<1>3. (\A w \in Workers : work[w].pc \in GrantPoints => work[w].id # r.id)'
  OBVIOUS
<1> QED
  BY <1>1, <1>2, <1>3 DEF GoneOK

\* A step of a handler brings nothing back that a revoke took.
LEMMA HandlerGone ==
    ASSUME NEW o \in Owners, Base(o), CoreTypes', Evolves, NEW w \in Workers, HandlerStep(w),
           NEW r \in hist.revoked, GoneOK(r)
    PROVE  GoneOK(r)'
<1>0. r.access \in Accesses
  BY GoneUser
<1>1. work' \in [Workers -> Locals] /\ Follows(w, work'[w])
      /\ \A v \in Workers \ {w} : work'[v] = work[v]
  BY StepIs
<1>2. \A v \in Workers : work'[v].pc \in GrantPoints => work'[v].id # r.id
  <2>1. work'[w].pc \in GrantPoints => work'[w].id # r.id
    <3>1. PICK n \in Locals : n = work'[w]
      BY <1>1
    <3> QED
      BY <1>1, <3>1, GoneWriter
  <2> QED
    BY <1>1, <2>1 DEF GoneOK
<1>3. CASE r.access # work[w].access
  <2>1. Kindly(o, r.access) /\ NoNews(r.access)
    BY <1>0, <1>3, StepElsewhere
  <2> QED
    BY <1>2, <2>1, GoneElsewhere
<1>4. CASE r.access = work[w].access /\ UNCHANGED core /\ late' = late
  <2>1. \A l \in late' : l.access = r.access => MsgGone(l, r)
    BY <1>4 DEF GoneOK
  <2> QED
    BY <1>2, <1>4, <2>1, GoneStays
<1>5. ASSUME r.access = work[w].access, NEW m, Sends(w, m),
             \/ Commit(m) /\ late' = late
             \/ UNCHANGED core /\ late' = late \cup {m}
      PROVE  GoneOK(r)'
  <2>0. PICK k \in Locals : k = work[w]
    BY DEF Base
  <2>1. MsgGone(m, r) /\ m.access = r.access /\ MsgOK(o, m)
    BY <1>5, <2>0, SendsGone, SendsOK DEF Sends
  <2>2. CASE Commit(m) /\ late' = late
    BY <1>2, <2>1, <2>2, GoneAfter
  <2>3. CASE UNCHANGED core /\ late' = late \cup {m}
    <3>1. \A l \in late' : l.access = r.access => MsgGone(l, r)
      BY <2>1, <2>3 DEF GoneOK
    <3> QED
      BY <1>2, <2>3, <3>1, GoneStays
  <2> QED
    BY <1>5, <2>2, <2>3
<1> QED
  BY <1>3, <1>4, <1>5, StepIs

\* Core as it was, nothing new of this access on its way: what a grant gave is given.
LEMMA GivenStays ==
    ASSUME NEW g, GivenOK(g), UNCHANGED core, hist'.removed = hist.removed,
           \A m \in late' : m.access = g.access => MsgGiven(m, g),
           \A w \in Workers : Busy(w, g.access)' => GivenBusy(w, g)'
    PROVE  GivenOK(g)'
<1>1. /\ users' = users /\ keys' = keys /\ bucket' = bucket /\ policy' = policy /\ acl' = acl
  BY DEF core
<1>2. (\A m \in late : m.access = g.access => MsgGiven(m, g))'
  BY <1>1 DEF MsgGiven, PolicyLive, AclLive
<1>3. (\A w \in Workers : Busy(w, g.access) => GivenBusy(w, g))'
  OBVIOUS
<1> QED
  BY <1>1, <1>2, <1>3 DEF GivenOK

\* A write of this access that takes nothing of it is accepted or not: likewise.
LEMMA GivenAfter ==
    ASSUME NEW o, Base(o), CoreTypes', Evolves, NEW g \in hist.given, GivenOK(g),
           hist'.removed = hist.removed,
           NEW m, MsgOK(o, m), Commit(m), m.access = g.access, MsgGiven(m, g),
           \A l \in late' : l \in late,
           \A w \in Workers : Busy(w, g.access)' => GivenBusy(w, g)'
    PROVE  GivenOK(g)'
<1>1. /\ g.id \notin hist'.removed => users'[g.access] = g.id
      /\ [id |-> g.key, owner |-> g.id] \in keys'
      /\ policy'.stmts[g.access] = [id |-> g.id, mode |-> g.mode]
      /\ EntriesOf(g.id, acl'.entries) = Exact(g)
  BY GivenCommit
<1>2. ASSUME NEW l \in late', l.access = g.access PROVE MsgGiven(l, g)'
  <2>1. l \in late /\ MsgGiven(l, g)
    BY <1>2 DEF GivenOK
  <2> QED
    BY <2>1, GivenMessage
<1>3. (\A w \in Workers : Busy(w, g.access) => GivenBusy(w, g))'
  OBVIOUS
<1> QED
  BY <1>1, <1>2, <1>3 DEF GivenOK

\* A step of somebody else leaves such a call as it is.
LEMMA GivenIdly ==
    ASSUME work' = work, Evolves, NEW g, GivenOK(g)
    PROVE  \A w \in Workers : Busy(w, g.access)' => GivenBusy(w, g)'
<1> SUFFICES ASSUME NEW w \in Workers, Busy(w, g.access)'
             PROVE  GivenBusy(w, g)'
  OBVIOUS
<1>1. GivenBusy(w, g) /\ (bucket'.open => bucket.open)
  BY DEF GivenOK, Busy, Evolves
<1> QED
  BY <1>1 DEF GivenBusy

\* A step of a handler takes nothing of what a grant gave.
LEMMA HandlerGiven ==
    ASSUME NEW o \in Owners, Base(o), CoreTypes', Evolves, NEW w \in Workers, HandlerStep(w),
           NEW g \in hist.given, GivenOK(g), NoBlind(g.access)
    PROVE  GivenOK(g)'
<1>0. g.access \in Accesses
  BY DEF Base, CoreTypes, Grants
<1>1. work' \in [Workers -> Locals] /\ Follows(w, work'[w]) /\ hist' = hist
      /\ \A v \in Workers \ {w} : work'[v] = work[v]
  BY StepIs
<1>2. ASSUME NEW v \in Workers, Busy(v, g.access)'
      PROVE  GivenBusy(v, g)'
  <2>1. CASE v # w
    <3>1. work'[v] = work[v] /\ GivenBusy(v, g) /\ (bucket'.open => bucket.open)
      BY <1>1, <1>2, <2>1 DEF GivenOK, Busy, Evolves
    <3> QED
      BY <3>1 DEF GivenBusy
  <2>2. CASE v = w
    <3>1. PICK n \in Locals : n = work'[w]
      BY <1>1
    <3>2. n.pc # "idle" /\ n.access = work[w].access /\ n.access = g.access
      BY <1>1, <1>2, <2>2, <3>1 DEF Busy, Follows, Onto, Call
    <3>3. Busy(w, g.access)
      BY <3>2, StepBusy DEF Busy
    <3>4. n.pc \in RevokePoints /\ RootOf[g.access] # 0 /\ n.id # g.id
      BY <1>1, <3>1, <3>2, <3>3, GivenWriter
    <3>5. bucket'.open /\ work'[w].pc = "rPutPolicy" => work'[w].etag # 0
      BY <3>3, HandlerNews, GivenRead
    <3> QED
      BY <2>2, <3>1, <3>4, <3>5 DEF GivenBusy
  <2> QED
    BY <2>1, <2>2
<1>3. CASE g.access # work[w].access
  <2>1. Kindly(o, g.access) /\ NoNews(g.access)
    BY <1>0, <1>3, StepElsewhere
  <2> QED
    BY <1>2, <2>1, GivenElsewhere
<1>4. CASE g.access = work[w].access /\ UNCHANGED core /\ late' = late
  <2>1. \A l \in late' : l.access = g.access => MsgGiven(l, g)
    BY <1>4 DEF GivenOK
  <2> QED
    BY <1>1, <1>2, <1>4, <2>1, GivenStays
<1>5. ASSUME g.access = work[w].access, NEW m, Sends(w, m),
             \/ Commit(m) /\ late' = late
             \/ UNCHANGED core /\ late' = late \cup {m}
      PROVE  GivenOK(g)'
  <2>0. PICK k \in Locals : k = work[w]
    BY DEF Base
  <2>1. Busy(w, g.access)
    BY <1>5, StepBusy DEF Busy
  <2>2. MsgGiven(m, g) /\ m.access = g.access /\ MsgOK(o, m)
    BY <1>5, <2>0, <2>1, SendsGiven, SendsOK DEF Sends
  <2>3. CASE Commit(m) /\ late' = late
    BY <1>1, <1>2, <2>2, <2>3, GivenAfter
  <2>4. CASE UNCHANGED core /\ late' = late \cup {m}
    <3>1. \A l \in late' : l.access = g.access => MsgGiven(l, g)
      BY <2>2, <2>4 DEF GivenOK
    <3> QED
      BY <1>1, <1>2, <2>4, <3>1, GivenStays
  <2> QED
    BY <1>5, <2>3, <2>4
<1> QED
  BY <1>3, <1>4, <1>5, StepIs

\* A step of a handler keeps what undisturbed calls achieved.
LEMMA HandlerKept ==
    ASSUME NEW o \in Owners, Base(o), CoreTypes', Evolves, Kept, Unblind,
           NEW w \in Workers, HandlerStep(w)
    PROVE  Kept'
<1>1. work' \in [Workers -> Locals] /\ hist' = hist
      /\ \A v \in Workers \ {w} : work'[v] = work[v]
  BY StepIs
<1>2. PICK k \in Locals : k = work[w]
  BY DEF Base
<1>3. PICK p : p = NextOwner(o, work[w].access)
  OBVIOUS
<1>4. p \in Owners /\ Agree(o, p) /\ p[next.user] = work[w].access
  <2>1. work[w].access \in Accesses /\ CoreTypes
    BY <1>2 DEF Base, Locals
  <2> QED
    BY <1>3, <2>1, NextOwnerIs
<1>5. ASSUME NEW v \in Workers, NEW n \in Locals, work'[v] = n
      PROVE  CalmOK(v, n)'
  <2>1. CASE v = w
    <3>1. CalmOK(w, k) /\ n = work'[w]
      BY <1>2, <1>5, <2>1 DEF Kept
    <3>2. CalmOK(w, n)'
      BY <1>2, <1>4, <3>1, HandlerCalm
    <3> QED
      BY <2>1, <3>2
  <2>2. CASE v # w
    <3>1. work[v] = n /\ CalmOK(v, n) /\ LocalOK(o, n)
      BY <1>1, <1>5, <2>2 DEF Kept, Base
    <3>2. CASE n.access = k.access
      <4>1. Busy(w, n.access)
        BY <1>2, <3>2, StepBusy DEF Busy
      <4> QED
        BY <2>2, <3>1, <4>1, CalmContradicts
    <3>3. CASE n.access # k.access
      <4>1. n.access \in Accesses /\ n.access # work[w].access
        BY <1>2, <3>3 DEF Locals
      <4>2. Kindly(o, n.access) /\ NoNews(n.access)
        BY <4>1, StepElsewhere
      <4>3. \A u \in Workers : Busy(u, n.access)' => Busy(u, n.access)
        BY <4>1, StepElsewhere
      <4>4. n.pc \in WrittenPoints /\ ~n.blind => NoBlind(n.access)
        BY <3>1, <4>1 DEF Unblind
      <4> QED
        BY <3>1, <4>2, <4>3, <4>4, CalmElsewhere
    <3> QED
      BY <3>2, <3>3
  <2> QED
    BY <2>1, <2>2
<1>6. ASSUME NEW r \in hist'.revoked PROVE GoneOK(r)'
  BY <1>1, HandlerGone DEF Kept
<1>7. ASSUME NEW g \in hist'.given, g.calm, ~g.blind PROVE GivenOK(g)'
  BY <1>1, <1>7, HandlerGiven DEF Kept, Unblind
<1> QED
  BY <1>1, <1>5, <1>6, <1>7, KeptFrom

\* What a grant has achieved, a late write that comes to nothing for it leaves.
LEMMA GrantedLate ==
    ASSUME NEW o, Base(o), CoreTypes', Evolves, NEW w \in Workers, NEW k \in Locals, k = work[w],
           Alone(w, k), Granted(k), NEW m \in late, m.access = k.access, Commit(m),
           UNCHANGED hist
    PROVE  Granted(k)'
<1>0. /\ MsgOK(o, m) /\ LocalOK(o, k) /\ k.access \in Accesses /\ CoreTypes
      /\ m.op \notin {"key", "dropUser"}
  BY DEF Base, Alone, Locals
<1>1. (k.pc \in UserPoints /\ k.id \notin hist.removed => users[k.access] = k.id)'
  <2> SUFFICES ASSUME k.pc \in UserPoints, k.id \notin hist.removed
               PROVE  users'[k.access] = k.id
    OBVIOUS
  <2>1. users[k.access] = k.id /\ k.id # 0
    BY <1>0 DEF Granted, LocalOK
  <2>2. CASE Answer(m) = "ok" /\ m.op = "user"
    BY <2>1, <2>2 DEF Answer
  <2>3. CASE ~(Answer(m) = "ok" /\ m.op = "user")
    <3>1. users' = users
      BY <1>0, <2>3 DEF Commit, Effect, core
    <3> QED
      BY <2>1, <3>1
  <2> QED
    BY <2>2, <2>3
<1>2. (k.pc \in KeyPoints => [id |-> k.key, owner |-> k.id] \in keys)'
  <2> SUFFICES ASSUME k.pc \in KeyPoints PROVE [id |-> k.key, owner |-> k.id] \in keys'
    OBVIOUS
  <2>1. PICK j \in keys : j = [id |-> k.key, owner |-> k.id]
    BY DEF Granted
  <2>2. CASE Answer(m) = "ok" /\ m.op = "dropKey"
    <3>1. keys' = {i \in keys : i.id # m.id} /\ m.id # k.key
      BY <2>2 DEF Commit, Effect, Alone
    <3> QED
      BY <2>1, <3>1
  <2>3. CASE ~(Answer(m) = "ok" /\ m.op = "dropKey")
    <3>1. \A i \in keys : i \in keys'
      BY <2>3 DEF Commit, Effect, core
    <3> QED
      BY <2>1, <3>1
  <2> QED
    BY <2>2, <2>3
<1>3. (k.pc \in {"gAcl", "gPutAcl", "gDone"} /\ ~k.blind =>
         policy.stmts[k.access] = [id |-> k.id, mode |-> k.mode])'
  <2> SUFFICES ASSUME k.pc \in {"gAcl", "gPutAcl", "gDone"}, ~k.blind
               PROVE  policy'.stmts[k.access] = [id |-> k.id, mode |-> k.mode]
    OBVIOUS
  <2>1. CASE Answer(m) = "ok" /\ m.op = "policy"
    <3>1. PolicyLive(m) /\ policy'.stmts = m.stmts
      BY <1>0, <2>1, AcceptedIsLive DEF Commit, Effect
    <3>2. PolicyMine(k, m)
      BY DEF Alone
    <3> QED
      BY <3>1, <3>2 DEF PolicyMine, GrantSent
  <2>2. CASE ~(Answer(m) = "ok" /\ m.op = "policy")
    <3>1. policy' = policy
      BY <2>2 DEF Commit, Effect, core
    <3> QED
      BY <3>1 DEF Granted
  <2> QED
    BY <2>1, <2>2
<1>4. (k.pc = "gDone" => EntriesOf(k.id, acl.entries) = Exact(k))'
  <2> SUFFICES ASSUME k.pc = "gDone" PROVE EntriesOf(k.id, acl'.entries) = Exact(k)
    OBVIOUS
  <2>1. ~(Answer(m) = "ok" /\ m.op = "acl")
    <3>1. ~AclLive(m)
      BY DEF Alone, PutAclPoints
    <3> QED
      BY <1>0, <3>1, AcceptedIsLive
  <2>2. acl' = acl
    BY <2>1 DEF Commit, Effect, core
  <2> QED
    BY <2>2 DEF Granted
<1> QED
  BY <1>1, <1>2, <1>3, <1>4 DEF Granted

\* Nor does it bring back what a revoke took.
LEMMA RevokedLate ==
    ASSUME NEW o, Base(o), CoreTypes', Evolves, NEW w \in Workers, NEW k \in Locals, k = work[w],
           Alone(w, k), k.id # 0, Revoked(k), k.pc \in RevokePoints,
           NEW m \in late, m.access = k.access, Commit(m)
    PROVE  Revoked(k)'
<1>0. /\ MsgOK(o, m) /\ LocalOK(o, k) /\ k.access \in Accesses /\ CoreTypes /\ k.id \in Nat
      /\ m.op \notin {"key", "dropUser"} /\ k.id < next.user /\ next.user \in Nat
  BY DEF Base, Alone, Locals, CoreTypes, LocalOK
<1>1. (KeysOf(k.id))' \subseteq KeysOf(k.id)
  <2>1. \A j \in keys' : j \in keys
    BY <1>0 DEF Commit, Effect, core
  <2> QED
    BY <2>1 DEF KeysOf
<1>2. users[k.access] # k.id => users'[k.access] # k.id
  BY <1>0 DEF Evolves, CoreTypes
<1>3. bucket' = bucket
  BY DEF Commit, Effect, core
<1>4. NoStatement(k.access, k.id) => NoStatement(k.access, k.id)'
  <2>1. CASE Answer(m) = "ok" /\ m.op = "policy"
    <3>1. PolicyLive(m) /\ policy'.stmts = m.stmts
      BY <1>0, <2>1, AcceptedIsLive DEF Commit, Effect
    <3>2. PolicyMine(k, m) /\ k.pc \notin GrantSent
      BY DEF Alone, RevokePoints, GrantSent
    <3> QED
      BY <3>1, <3>2 DEF PolicyMine, NoStatement
  <2>2. CASE ~(Answer(m) = "ok" /\ m.op = "policy")
    <3>1. policy' = policy
      BY <2>2 DEF Commit, Effect, core
    <3> QED
      BY <1>3, <3>1 DEF NoStatement
  <2> QED
    BY <2>1, <2>2
<1>5. k.pc \notin PutAclPoints => (NoEntries(k.access, k.id) => NoEntries(k.access, k.id)')
  <2> SUFFICES ASSUME k.pc \notin PutAclPoints
               PROVE  NoEntries(k.access, k.id) => NoEntries(k.access, k.id)'
    OBVIOUS
  <2>1. ~(Answer(m) = "ok" /\ m.op = "acl")
    <3>1. ~AclLive(m)
      BY DEF Alone
    <3> QED
      BY <1>0, <3>1, AcceptedIsLive
  <2>2. acl' = acl
    BY <2>1 DEF Commit, Effect, core
  <2> QED
    BY <1>3, <2>2 DEF NoEntries
<1>6. k.pc \in {"rAcl", "rPutAcl", "rDelUser", "rDone"} => NoStatement(k.access, k.id)'
  BY <1>4 DEF Revoked
<1>7. k.pc \in {"rPolicy", "rPutPolicy"} => k.dir \/ NoEntries(k.access, k.id)'
  BY <1>5 DEF Revoked, PutAclPoints
<1>8. k.pc \in {"rDelUser", "rDone"} => NoEntries(k.access, k.id)'
  BY <1>5 DEF Revoked, PutAclPoints
<1>9. /\ k.pc = "rDrop" => {j.id : j \in (KeysOf(k.id))'} \subseteq k.todo
      /\ k.pc \in RevokePoints \ {"rUser", "rList", "rDrop"} => KeysOf(k.id)' = {}
  BY <1>1 DEF Revoked
<1>10. /\ k.pc \in RevokePoints \ {"rUser"} => k.own \/ users'[k.access] # k.id
       /\ k.pc = "rDone" => users'[k.access] # k.id
       /\ k.pc \in RevokePoints \ {"rUser"} /\ RootOf[k.access] = 0 => k.own
       /\ k.pc = "rAttrs" => RootOf[k.access] # 0 /\ (bucket'.open => k.pol)
  BY <1>2, <1>3 DEF Revoked
<1> QED
  BY <1>6, <1>7, <1>8, <1>9, <1>10 DEF Revoked

\* A late write leaves what undisturbed calls achieved.
LEMMA LateKept ==
    ASSUME NEW o \in Owners, Base(o), CoreTypes', Evolves, Kept, Unblind, LateWrite
    PROVE  Kept'
<1>1. PICK m \in late : Commit(m) /\ late' = late \ {m} /\ UNCHANGED <<work, count, hist>>
  BY DEF LateWrite
<1>2. MsgOK(o, m) /\ work' = work /\ hist' = hist /\ \A l \in late' : l \in late
  BY <1>1 DEF Base
<1>3. \A a : NoNews(a) /\ \A v \in Workers : Busy(v, a)' => Busy(v, a)
  BY <1>2 DEF NoNews, Busy
<1>4. \A a \in Accesses : a # m.access => Kindly(o, a)
  BY <1>1, <1>2, CommitElsewhere
<1>5. ASSUME NEW v \in Workers, NEW n \in Locals, work'[v] = n
      PROVE  CalmOK(v, n)'
  <2>1. work[v] = n /\ CalmOK(v, n) /\ LocalOK(o, n) /\ n.access \in Accesses
    BY <1>2, <1>5 DEF Kept, Base, Locals
  <2>2. CASE n.access # m.access
    <3>1. Kindly(o, n.access) /\ NoNews(n.access)
          /\ \A u \in Workers \ {v} : Busy(u, n.access)' => Busy(u, n.access)
      BY <1>3, <1>4, <2>1, <2>2
    <3>2. n.pc \in WrittenPoints /\ ~n.blind => NoBlind(n.access)
      BY <2>1 DEF Unblind
    <3> QED
      BY <2>1, <3>1, <3>2, CalmElsewhere
  <2>3. CASE n.access = m.access
    <3>1. Alone(v, n) => Alone(v, n)'
      <4>1. NoNews(n.access) /\ \A u \in Workers \ {v} : Busy(u, n.access)' => Busy(u, n.access)
        BY <1>3
      <4> QED
        BY <4>1, AloneElsewhere
    <3>2. Alone(v, n) /\ Granted(n) => Granted(n)'
      BY <1>1, <1>2, <2>1, <2>3, GrantedLate
    <3>3. Alone(v, n) /\ n.id # 0 /\ Revoked(n) /\ n.pc \in RevokePoints => Revoked(n)'
      BY <1>1, <1>2, <2>1, <2>3, RevokedLate
    <3> QED
      BY <2>1, <3>1, <3>2, <3>3 DEF CalmOK
  <2> QED
    BY <2>2, <2>3
<1>6. ASSUME NEW r \in hist'.revoked PROVE GoneOK(r)'
  <2>1. r \in hist.revoked /\ GoneOK(r)
    BY <1>2 DEF Kept
  <2>2. r.access \in Accesses
    BY <2>1, GoneUser
  <2>3. \A w \in Workers : work'[w].pc \in GrantPoints => work'[w].id # r.id
    BY <1>2, <2>1 DEF GoneOK
  <2>4. CASE r.access # m.access
    <3>1. Kindly(o, r.access) /\ NoNews(r.access)
      BY <1>3, <1>4, <2>2, <2>4
    <3> QED
      BY <2>1, <2>3, <3>1, GoneElsewhere
  <2>5. CASE r.access = m.access
    <3>1. MsgGone(m, r)
      BY <2>1, <2>5 DEF GoneOK
    <3> QED
      BY <1>1, <1>2, <2>1, <2>3, <2>5, <3>1, GoneAfter
  <2> QED
    BY <2>4, <2>5
<1>7. ASSUME NEW g \in hist'.given, g.calm, ~g.blind PROVE GivenOK(g)'
  <2>1. g \in hist.given /\ GivenOK(g) /\ NoBlind(g.access)
    BY <1>2, <1>7 DEF Kept, Unblind
  <2>2. g.access \in Accesses
    BY <2>1 DEF Base, CoreTypes, Grants
  <2>3. \A w \in Workers : Busy(w, g.access)' => GivenBusy(w, g)'
    BY <1>2, <2>1, GivenIdly
  <2>4. CASE g.access # m.access
    <3>1. Kindly(o, g.access) /\ NoNews(g.access)
      BY <1>3, <1>4, <2>2, <2>4
    <3> QED
      BY <2>1, <2>3, <3>1, GivenElsewhere
  <2>5. CASE g.access = m.access
    <3>1. MsgGiven(m, g)
      BY <2>1, <2>5 DEF GivenOK
    <3> QED
      BY <1>1, <1>2, <2>1, <2>3, <2>5, <3>1, GivenAfter
  <2> QED
    BY <2>4, <2>5
<1>8. work' \in [Workers -> Locals]
  BY <1>2 DEF Base
<1> QED
  BY <1>5, <1>6, <1>7, <1>8, KeptFrom

\* Whoever else acts deletes one user, and says so, or the bucket.
LEMMA OutsideIs ==
    ASSUME NEW o \in Owners, Base(o), OperatorDeletesUser \/ BucketDeleted
    PROVE  /\ work' = work /\ late' = late
           /\ hist'.given = hist.given /\ hist'.revoked = hist.revoked
           /\ \A a \in Accesses : Kindly(o, a)
<1>1. CASE OperatorDeletesUser
  <2>1. PICK a \in Accesses :
          /\ users[a] # 0 /\ users' = [users EXCEPT ![a] = 0]
          /\ hist' = [hist EXCEPT !.removed = @ \cup {users[a]}]
          /\ keys' = keys /\ policy' = policy /\ acl' = acl /\ next' = next
          /\ bucket' = bucket /\ work' = work /\ late' = late
    BY <1>1 DEF OperatorDeletesUser, Outside
  <2>2. /\ hist'.given = hist.given /\ hist'.revoked = hist.revoked
        /\ hist'.removed = hist.removed \cup {users[a]}
    BY <2>1, OperatorIs
  <2>3. ASSUME NEW b \in Accesses
        PROVE  users'[b] = users[b] \/ (users'[b] = 0 /\ users[b] \in hist'.removed)
    <3>1. users \in [Accesses -> Nat]
      BY DEF Base, CoreTypes
    <3>2. b # a => users'[b] = users[b]
      BY <2>1, <3>1
    <3>3. users'[a] = 0
      BY <2>1, <3>1
    <3> QED
      BY <2>2, <3>2, <3>3
  <2>4. \A b \in Accesses : Kindly(o, b)
    BY <2>1, <2>2, <2>3 DEF Kindly, KeysOf
  <2> QED
    BY <2>1, <2>2, <2>4
<1>2. CASE BucketDeleted
  <2>1. /\ users' = users /\ keys' = keys /\ policy' = policy /\ acl' = acl
        /\ late' = late /\ work' = work /\ hist' = hist
    BY <1>2, DeletedIs
  <2> QED
    BY <2>1 DEF Kindly, KeysOf
<1> QED
  BY <1>1, <1>2

\* Nothing is sent, no call changes, Core is kind to everyone: all is kept.
LEMMA KindlyKept ==
    ASSUME NEW o \in Owners, Base(o), CoreTypes', Evolves, Kept, Unblind, work' = work, late' = late,
           hist'.given = hist.given, hist'.revoked = hist.revoked,
           \A a \in Accesses : Kindly(o, a)
    PROVE  Kept'
<1>1. \A a : NoNews(a) /\ \A v \in Workers : Busy(v, a)' => Busy(v, a)
  BY DEF NoNews, Busy
<1>2. ASSUME NEW v \in Workers, NEW n \in Locals, work'[v] = n
      PROVE  CalmOK(v, n)'
  <2>1. work[v] = n /\ CalmOK(v, n) /\ LocalOK(o, n) /\ n.access \in Accesses
    BY <1>2 DEF Kept, Base, Locals
  <2>2. Kindly(o, n.access) /\ NoNews(n.access)
        /\ \A u \in Workers \ {v} : Busy(u, n.access)' => Busy(u, n.access)
    BY <1>1, <2>1
  <2>3. n.pc \in WrittenPoints /\ ~n.blind => NoBlind(n.access)
    BY <2>1 DEF Unblind
  <2> QED
    BY <2>1, <2>2, <2>3, CalmElsewhere
<1>3. ASSUME NEW r \in hist'.revoked PROVE GoneOK(r)'
  <2>1. r \in hist.revoked /\ GoneOK(r)
    BY DEF Kept
  <2>2. r.access \in Accesses
    BY <2>1, GoneUser
  <2>3. \A w \in Workers : work'[w].pc \in GrantPoints => work'[w].id # r.id
    BY <2>1 DEF GoneOK
  <2>4. Kindly(o, r.access) /\ NoNews(r.access)
    BY <1>1, <2>2
  <2> QED
    BY <2>1, <2>3, <2>4, GoneElsewhere
<1>4. ASSUME NEW g \in hist'.given, g.calm, ~g.blind PROVE GivenOK(g)'
  <2>1. g \in hist.given /\ GivenOK(g) /\ NoBlind(g.access)
    BY <1>4 DEF Kept, Unblind
  <2>2. g.access \in Accesses
    BY <2>1 DEF Base, CoreTypes, Grants
  <2>3. \A w \in Workers : Busy(w, g.access)' => GivenBusy(w, g)'
    BY <2>1, GivenIdly
  <2>4. Kindly(o, g.access) /\ NoNews(g.access)
    BY <1>1, <2>2
  <2> QED
    BY <2>1, <2>3, <2>4, GivenElsewhere
<1>5. work' \in [Workers -> Locals]
  BY DEF Base
<1> QED
  BY <1>2, <1>3, <1>4, <1>5, KeptFrom

\* Worker w starts the call n: what was given to its access is taken back, but by
\* the revoke of an earlier user.
Starts(w, n) ==
    /\ work' = [work EXCEPT ![w] = n] /\ UNCHANGED <<core, late>>
    /\ At(w, "idle") /\ Quiet(n.access) /\ (n.calm => ~Disturbed(n.access))
    /\ (n.pc = "gBucket" /\ n.id = 0) \/ n.pc = "rUser"
    /\ hist'.revoked = hist.revoked /\ hist'.removed = hist.removed
    /\ \A g \in hist'.given :
         /\ g \in hist.given
         /\ g.access = n.access => n.pc = "rUser" /\ g.id # n.id /\ RootOf[n.access] # 0

\* A call that starts is of this form.
LEMMA StartsIs ==
    ASSUME NEW o \in Owners, Base(o), NEW w \in Workers, StartGrant(w) \/ StartRevoke(w)
    PROVE  \E n \in Locals : Starts(w, n)
<1>1. CASE StartGrant(w)
  <2>1. PICK n \in Locals :
          /\ work' = [work EXCEPT ![w] = n] /\ UNCHANGED <<core, late>> /\ LocalOK(o, n)
          /\ At(w, "idle") /\ Quiet(n.access) /\ (n.calm => ~Disturbed(n.access))
          /\ n.pc = "gBucket" /\ n.id = 0
          /\ hist' = [hist EXCEPT !.given = {g \in hist.given : g.access # n.access}]
    BY <1>1, StartGrantIs
  <2>2. PICK given : given = {g \in hist.given : g.access # n.access}
    OBVIOUS
  <2>3. hist' = [hist EXCEPT !.given = given]
    BY <2>1, <2>2, Zenon
  <2>4. given \subseteq hist.given /\ \A g \in given : g.access # n.access
    BY <2>2
  <2>5. /\ hist'.given = given /\ hist'.revoked = hist.revoked
        /\ hist'.removed = hist.removed
    BY <2>1, <2>3, <2>4, TakenBack
  <2>6. Starts(w, n)
    BY <2>1, <2>4, <2>5 DEF Starts
  <2> QED
    BY <2>6
<1>2. CASE StartRevoke(w)
  <2>1. PICK n \in Locals :
          /\ work' = [work EXCEPT ![w] = n] /\ UNCHANGED <<core, late>> /\ LocalOK(o, n)
          /\ At(w, "idle") /\ Quiet(n.access) /\ (n.calm => ~Disturbed(n.access))
          /\ n.pc = "rUser"
          /\ hist' = [hist EXCEPT !.given =
                        {g \in hist.given : g.access # n.access
                                            \/ (g.id # n.id /\ RootOf[n.access] # 0)}]
    BY <1>2, StartRevokeIs
  <2>2. PICK given : given = {g \in hist.given : g.access # n.access
                                                 \/ (g.id # n.id /\ RootOf[n.access] # 0)}
    OBVIOUS
  <2>3. hist' = [hist EXCEPT !.given = given]
    BY <2>1, <2>2, Zenon
  <2>4. /\ given \subseteq hist.given
        /\ \A g \in given : g.access = n.access => g.id # n.id /\ RootOf[n.access] # 0
    BY <2>2
  <2>5. /\ hist'.given = given /\ hist'.revoked = hist.revoked
        /\ hist'.removed = hist.removed
    BY <2>1, <2>3, <2>4, TakenBack
  <2>6. Starts(w, n)
    BY <2>1, <2>4, <2>5 DEF Starts
  <2> QED
    BY <2>6
<1> QED
  BY <1>1, <1>2

\* A call that starts undisturbed acts alone, and has nothing to have achieved yet.
LEMMA StartsAlone ==
    ASSUME NEW o \in Owners, Base(o), NEW w \in Workers, NEW n \in Locals, Starts(w, n)
    PROVE  CalmOK(w, n)'
<1> SUFFICES ASSUME n.calm
             PROVE  (/\ n.pc \in GrantPoints => Alone(w, n) /\ Granted(n)
                     /\ n.pc \in RevokePoints => Alone(w, n) /\ (n.id # 0 => Revoked(n)))'
  BY DEF CalmOK
<1>1. /\ \A v \in Workers : ~At(v, "idle") => work[v].access # n.access
      /\ \A m \in late : m.access = n.access => m.op \notin {"key", "policy", "acl", "dropUser"}
  BY DEF Starts, Disturbed
<1>2. \A v \in Workers \ {w} : work'[v] = work[v]
  BY StepsTo DEF Starts
<1>3. late' = late
  BY DEF Starts
<1>4. (\A v \in Workers \ {w} : ~Busy(v, n.access))'
  BY <1>1, <1>2 DEF Busy, At
<1>5. n.pc \notin KeyPoints \cup UserPoints
  BY DEF Starts, KeyPoints, UserPoints
<1>6. Alone(w, n)'
  BY <1>1, <1>3, <1>4, <1>5 DEF Alone, PolicyMine, PolicyLive, AclLive
<1>7. n.pc \in GrantPoints => Granted(n)'
  BY <1>5 DEF Granted, Starts, GrantPoints
<1>8. n.pc \in RevokePoints => Revoked(n)'
  BY DEF Revoked, Starts, RevokePoints
<1> QED
  BY <1>6, <1>7, <1>8

\* A call that starts takes nothing from the others.
LEMMA StartKept ==
    ASSUME NEW o \in Owners, Base(o), CoreTypes', Evolves, Kept, Unblind,
           NEW w \in Workers, StartGrant(w) \/ StartRevoke(w)
    PROVE  Kept'
<1>1. PICK n \in Locals : Starts(w, n)
  BY StartsIs
<1>2. /\ work'[w] = n /\ \A v \in Workers \ {w} : work'[v] = work[v]
      /\ work' \in [Workers -> Locals]
  BY <1>1, StepsTo DEF Starts, Base
<1>3. \A a \in Accesses : Kindly(o, a) /\ NoNews(a)
  <2>1. /\ users' = users /\ keys' = keys /\ policy' = policy /\ acl' = acl /\ late' = late
        /\ hist'.removed = hist.removed
    BY <1>1 DEF Starts, core
  <2> QED
    BY <2>1 DEF Kindly, NoNews, KeysOf
<1>4. ASSUME NEW v \in Workers, NEW k \in Locals, work'[v] = k
      PROVE  CalmOK(v, k)'
  <2>1. CASE v = w
    <3>1. k = n
      BY <1>2, <1>4, <2>1
    <3> QED
      BY <1>1, <2>1, <3>1, StartsAlone
  <2>2. CASE v # w
    <3>1. work[v] = k /\ CalmOK(v, k) /\ LocalOK(o, k) /\ k.access \in Accesses
      BY <1>2, <1>4, <2>2 DEF Kept, Base, Locals
    <3>2. CASE k.access # n.access
      <4>1. \A u \in Workers : Busy(u, k.access)' => Busy(u, k.access)
        BY <1>2, <3>2 DEF Busy
      <4>2. k.pc \in WrittenPoints /\ ~k.blind => NoBlind(k.access)
        BY <3>1 DEF Unblind
      <4> QED
        BY <1>3, <3>1, <4>1, <4>2, CalmElsewhere
    <3>3. CASE k.access = n.access
      <4>1. k.pc # "idle" => k.left
        BY <1>1, <3>1, <3>3 DEF Starts, Quiet, At
      <4>2. k.pc \notin GrantPoints \cup RevokePoints
        BY <3>1, <4>1 DEF LocalOK, CleanPoints, GrantPoints, RevokePoints
      <4> QED
        BY <4>2, CalmEnds
    <3> QED
      BY <3>2, <3>3
  <2> QED
    BY <2>1, <2>2
<1>5. ASSUME NEW r \in hist'.revoked PROVE GoneOK(r)'
  <2>1. r \in hist.revoked /\ GoneOK(r)
    BY <1>1 DEF Kept, Starts
  <2>2. r.access \in Accesses /\ r.id # 0
    BY <2>1, GoneUser
  <2>3. \A v \in Workers : work'[v].pc \in GrantPoints => work'[v].id # r.id
    <3>1. n.pc \in GrantPoints => n.id = 0
      BY <1>1 DEF Starts, GrantPoints
    <3> QED
      BY <1>2, <2>1, <2>2, <3>1 DEF GoneOK
  <2> QED
    BY <1>3, <2>1, <2>2, <2>3, GoneElsewhere
<1>6. ASSUME NEW g \in hist'.given, g.calm, ~g.blind PROVE GivenOK(g)'
  <2>1. g \in hist.given /\ GivenOK(g) /\ NoBlind(g.access)
    BY <1>1, <1>6 DEF Kept, Unblind, Starts
  <2>2. g.access \in Accesses
    BY <2>1 DEF Base, CoreTypes, Grants
  <2>3. \A v \in Workers : Busy(v, g.access)' => GivenBusy(v, g)'
    <3>1. g.access = n.access => n.pc = "rUser" /\ g.id # n.id /\ RootOf[n.access] # 0
      BY <1>1 DEF Starts
    <3> QED
      BY <1>1, <1>2, <2>1, <3>1 DEF GivenOK, GivenBusy, Busy, RevokePoints, Starts, core
  <2> QED
    BY <1>3, <2>1, <2>2, <2>3, GivenElsewhere
<1> QED
  BY <1>2, <1>4, <1>5, <1>6, KeptFrom

\* Worker w is done; Core is as it was.
Returned(w) ==
    /\ work' = [work EXCEPT ![w] = Idle] /\ UNCHANGED <<core, late>>
    /\ hist'.removed = hist.removed

\* What the others have achieved, what was told before, is kept.
LEMMA ReturnedKeeps ==
    ASSUME NEW o \in Owners, Base(o), CoreTypes', Evolves, Kept, Unblind, NEW w \in Workers, Returned(w)
    PROVE  /\ work' \in [Workers -> Locals]
           /\ \A v \in Workers, n \in Locals : work'[v] = n => CalmOK(v, n)'
           /\ \A r \in hist.revoked : GoneOK(r)'
           /\ \A g \in hist.given : g.calm /\ ~g.blind => GivenOK(g)'
<1>1. /\ work'[w] = Idle /\ \A v \in Workers \ {w} : work'[v] = work[v]
      /\ work' \in [Workers -> Locals] /\ Idle.pc = "idle"
  BY StepsTo, IdleType DEF Returned, Base
<1>2. \A a \in Accesses : Kindly(o, a) /\ NoNews(a)
  <2>1. /\ users' = users /\ keys' = keys /\ policy' = policy /\ acl' = acl /\ late' = late
        /\ hist'.removed = hist.removed
    BY DEF Returned, core
  <2> QED
    BY <2>1 DEF Kindly, NoNews, KeysOf
<1>3. \A v \in Workers : work'[v].pc # "idle" => v # w /\ work'[v] = work[v]
  BY <1>1
<1>4. ASSUME NEW v \in Workers, NEW n \in Locals, work'[v] = n
      PROVE  CalmOK(v, n)'
  <2>1. CASE n.pc = "idle"
    <3>1. n.pc \notin GrantPoints \cup RevokePoints
      BY <2>1 DEF GrantPoints, RevokePoints
    <3> QED
      BY <3>1, CalmEnds
  <2>2. CASE n.pc # "idle"
    <3>1. work[v] = n /\ CalmOK(v, n) /\ LocalOK(o, n) /\ n.access \in Accesses
      BY <1>3, <1>4, <2>2 DEF Kept, Base, Locals
    <3>2. \A u \in Workers : Busy(u, n.access)' => Busy(u, n.access)
      BY <1>3 DEF Busy
    <3>3. n.pc \in WrittenPoints /\ ~n.blind => NoBlind(n.access)
      BY <3>1 DEF Unblind
    <3> QED
      BY <1>2, <3>1, <3>2, <3>3, CalmElsewhere
  <2> QED
    BY <2>1, <2>2
<1>5. ASSUME NEW r \in hist.revoked PROVE GoneOK(r)'
  <2>1. GoneOK(r)
    BY DEF Kept
  <2>2. r.access \in Accesses
    BY <2>1, GoneUser
  <2>3. \A v \in Workers : work'[v].pc \in GrantPoints => work'[v].id # r.id
    BY <1>3, <2>1 DEF GoneOK, GrantPoints
  <2> QED
    BY <1>2, <2>1, <2>2, <2>3, GoneElsewhere
<1>6. ASSUME NEW g \in hist.given, g.calm, ~g.blind PROVE GivenOK(g)'
  <2>1. GivenOK(g) /\ g.access \in Accesses /\ NoBlind(g.access)
    BY <1>6 DEF Kept, Unblind, Base, CoreTypes, Grants
  <2>2. \A v \in Workers : Busy(v, g.access)' => GivenBusy(v, g)'
    BY <1>3, <2>1 DEF GivenOK, GivenBusy, Busy, Returned, core
  <2> QED
    BY <1>2, <2>1, <2>2, GivenElsewhere
<1> QED
  BY <1>1, <1>4, <1>5, <1>6

\* What an undisturbed grant has achieved when it returns, is given.
LEMMA NewlyGiven ==
    ASSUME NEW o \in Owners, Base(o), NEW w \in Workers, NEW k \in Locals, k = work[w],
           k.calm, ~k.blind, k.pc = "gDone", CalmOK(w, k), Returned(w),
           NEW g, g.access = k.access, g.id = k.id, g.mode = k.mode, g.key = k.key
    PROVE  GivenOK(g)'
<1>1. Alone(w, k) /\ Granted(k)
  BY DEF CalmOK, GrantPoints
<1>2. /\ users' = users /\ keys' = keys /\ bucket' = bucket /\ policy' = policy /\ acl' = acl
      /\ late' = late /\ hist'.removed = hist.removed
  BY DEF Returned, core
<1>3. /\ g.id \notin hist.removed => users[g.access] = g.id
      /\ [id |-> g.key, owner |-> g.id] \in keys
      /\ policy.stmts[g.access] = [id |-> g.id, mode |-> g.mode]
      /\ EntriesOf(g.id, acl.entries) = Exact(g)
  BY <1>1 DEF Granted, UserPoints, KeyPoints, Exact
<1>4. ASSUME NEW v \in Workers PROVE ~Busy(v, g.access)'
  <2>1. work'[w] = Idle /\ Idle.pc = "idle" /\ \A u \in Workers \ {w} : work'[u] = work[u]
    BY StepsTo, IdleType DEF Returned
  <2> QED
    BY <1>1, <2>1 DEF Alone, Busy
<1>5. ASSUME NEW m \in late', m.access = g.access PROVE MsgGiven(m, g)'
  <2>1. /\ m.op \notin {"key", "dropUser"} /\ PolicyMine(k, m) /\ ~AclLive(m)
        /\ m.op = "dropKey" => m.id # k.key
    BY <1>1, <1>2, <1>5 DEF Alone, PutAclPoints, KeyPoints
  <2>2. PolicyLive(m) => m.stmts[g.access] = [id |-> g.id, mode |-> g.mode]
    BY <2>1 DEF PolicyMine, GrantSent
  <2> QED
    BY <1>2, <2>1, <2>2 DEF MsgGiven, PolicyLive, AclLive
<1> QED
  BY <1>2, <1>3, <1>4, <1>5 DEF GivenOK

\* What an undisturbed revoke has achieved when it returns, is gone.
LEMMA NewlyGone ==
    ASSUME NEW o \in Owners, Base(o), NEW w \in Workers, NEW k \in Locals, k = work[w],
           k.calm, k.pc = "rDone", k.id # 0, CalmOK(w, k), Returned(w),
           NEW r, r.access = k.access, r.id = k.id
    PROVE  GoneOK(r)'
<1>1. Alone(w, k) /\ Revoked(k) /\ UserOf(o, k.id, k.access)
  BY DEF CalmOK, RevokePoints, Base, LocalOK
<1>2. /\ users' = users /\ keys' = keys /\ bucket' = bucket /\ policy' = policy /\ acl' = acl
      /\ late' = late
  BY DEF Returned, core
<1>3. /\ users[r.access] # r.id /\ KeysOf(r.id) = {}
      /\ NoStatement(r.access, r.id) /\ NoEntries(r.access, r.id)
  BY <1>1 DEF Revoked, RevokePoints
<1>4. /\ users'[r.access] # r.id /\ KeysOf(r.id)' = {}
      /\ NoStatement(r.access, r.id)' /\ NoEntries(r.access, r.id)'
  BY <1>2, <1>3 DEF KeysOf, NoStatement, NoEntries
<1>5. ASSUME NEW v \in Workers, work'[v].pc \in GrantPoints PROVE work'[v].id # r.id
  <2>1. work'[w] = Idle /\ Idle.pc = "idle" /\ \A u \in Workers \ {w} : work'[u] = work[u]
    BY StepsTo, IdleType DEF Returned
  <2>2. v # w /\ work'[v] = work[v] /\ work[v].pc # "idle"
    BY <1>5, <2>1 DEF GrantPoints
  <2>3. PICK l \in Locals : l = work[v] /\ LocalOK(o, l)
    BY DEF Base
  <2>4. l.access # k.access
    BY <1>1, <2>2, <2>3 DEF Alone, Busy
  <2>5. l.id # 0 => o[l.id] = l.access
    BY <2>3 DEF LocalOK, UserOf
  <2> QED
    BY <1>1, <2>2, <2>3, <2>4, <2>5 DEF UserOf
<1>6. ASSUME NEW m \in late', m.access = r.access PROVE MsgGone(m, r)'
  <2>1. PolicyMine(k, m) /\ ~AclLive(m)
    BY <1>1, <1>2, <1>6 DEF Alone, PutAclPoints
  <2>2. PolicyLive(m) => m.stmts[r.access].id # r.id
    BY <2>1 DEF PolicyMine, RevokeSent, GrantSent
  <2> QED
    BY <1>2, <2>1, <2>2 DEF MsgGone, PolicyLive, AclLive
<1> QED
  BY <1>4, <1>5, <1>6 DEF GoneOK

\* A call that returns leaves what it achieved.
LEMMA ReturnKept ==
    ASSUME NEW o \in Owners, Base(o), CoreTypes', Evolves, Kept, Unblind,
           NEW w \in Workers, GrantReturns(w) \/ RevokeReturns(w)
    PROVE  Kept'
<1>0. PICK k \in Locals : k = work[w] /\ CalmOK(w, k)
  BY DEF Base, Kept
<1>1. Returned(w)
  BY GrantReturnsIs, RevokeReturnsIs DEF Returned
<1>2. /\ work' \in [Workers -> Locals]
      /\ \A v \in Workers, n \in Locals : work'[v] = n => CalmOK(v, n)'
      /\ \A r \in hist.revoked : GoneOK(r)'
      /\ \A g \in hist.given : g.calm /\ ~g.blind => GivenOK(g)'
  BY <1>1, ReturnedKeeps
<1>3. CASE GrantReturns(w)
  <2>1. k.pc = "gDone" /\ hist'.revoked = hist.revoked
    BY <1>0, <1>3, GrantReturnsIs DEF At
  <2>2. PICK g \in Grants :
          /\ hist'.given = hist.given \cup {g}
          /\ g.access = k.access /\ g.id = k.id /\ g.mode = k.mode
          /\ g.key = k.key /\ (g.calm => k.calm) /\ (k.blind => g.blind)
    BY <1>0, <1>3, GrantReturnsIs
  <2>3. g.calm /\ ~g.blind => GivenOK(g)'
    BY <1>0, <1>1, <2>1, <2>2, NewlyGiven
  <2>4. \A h \in hist'.given : h.calm /\ ~h.blind => GivenOK(h)'
    BY <1>2, <2>2, <2>3
  <2>5. \A r \in hist'.revoked : GoneOK(r)'
    BY <1>2, <2>1
  <2> QED
    BY <1>2, <2>4, <2>5, KeptFrom
<1>4. CASE RevokeReturns(w)
  <2>1. k.pc = "rDone" /\ hist'.given = hist.given
    BY <1>0, <1>4, RevokeReturnsIs DEF At
  <2>2. ASSUME NEW r \in hist'.revoked PROVE GoneOK(r)'
    <3>1. CASE r \in hist.revoked
      BY <1>2, <3>1
    <3>2. CASE r.access = k.access /\ r.id = k.id /\ r.id # 0 /\ k.calm
      BY <1>0, <1>1, <2>1, <3>2, NewlyGone
    <3> QED
      BY <1>0, <1>4, <3>1, <3>2, RevokeReturnsIs
  <2>3. \A g \in hist'.given : g.calm /\ ~g.blind => GivenOK(g)'
    BY <1>2, <2>1
  <2> QED
    BY <1>2, <2>2, <2>3, KeptFrom
<1> QED
  BY <1>3, <1>4

\* At first nobody was told anything.
LEMMA KeptInit == Init => Kept
<1> SUFFICES ASSUME Init PROVE Kept
  OBVIOUS
<1>1. hist.given = {} /\ hist.revoked = {} /\ \A w \in Workers : work[w] = Idle
  BY DEF Init
<1>2. Idle.pc \notin GrantPoints \cup RevokePoints
  BY IdleType DEF GrantPoints, RevokePoints
<1>3. \A w \in Workers : CalmOK(w, work[w])
  BY <1>1, <1>2 DEF CalmOK
<1> QED
  BY <1>1, <1>3 DEF Kept

\* The types of the next state.
LEMMA BasedNext == Based' => CoreTypes'
<1>1. Based => CoreTypes
  BY DEF Based, Base
<1> QED
  BY <1>1, PTL

\* Nothing happens.
LEMMA StutterKept ==
    ASSUME NEW o \in Owners, Base(o), Kept, Unblind, UNCHANGED vars
    PROVE  Kept'
<1>1. Base(o)' /\ Evolves
  BY StutterBase
<1>2. CoreTypes'
  BY <1>1, BasedNext DEF Based
<1>3. /\ users' = users /\ keys' = keys /\ policy' = policy /\ acl' = acl
      /\ late' = late /\ work' = work /\ hist' = hist
  BY DEF vars, core
<1>4. \A a \in Accesses : Kindly(o, a)
  BY <1>3 DEF Kindly, KeysOf
<1> QED
  BY <1>1, <1>2, <1>3, <1>4, KindlyKept

\* Every step keeps it.
LEMMA KeptStep ==
    ASSUME NEW o \in Owners, Base(o), Kept, Unblind, Next
    PROVE  Kept'
<1>1. Based'
  BY BaseStep DEF Based
<1>2. CoreTypes'
  BY <1>1, BasedNext
<1>3. CASE \E w \in Workers : HandlerStep(w)
  BY <1>2, <1>3, HandlerBase, HandlerKept
<1>4. CASE \E w \in Workers : StartGrant(w) \/ StartRevoke(w)
  BY <1>2, <1>4, StartBase, StartKept
<1>5. CASE \E w \in Workers : GrantReturns(w) \/ RevokeReturns(w)
  BY <1>2, <1>5, ReturnBase, ReturnKept
<1>6. CASE LateWrite
  BY <1>2, <1>6, LateBase, LateKept
<1>7. CASE OperatorDeletesUser \/ BucketDeleted
  BY <1>2, <1>7, OutsideBase, OutsideIs, KindlyKept
<1> QED
  BY <1>3, <1>4, <1>5, <1>6, <1>7, NextIs

\* What calls that started undisturbed achieve is kept, always: the inductive
\* invariant behind the two theorems below.
THEOREM Keeping == Spec => []Kept
<1>1. Based /\ Unblind /\ Kept /\ [Next]_vars => Kept'
  <2> SUFFICES ASSUME Based, Unblind, Kept, [Next]_vars PROVE Kept'
    OBVIOUS
  <2>0. PICK o \in Owners : Base(o)
    BY DEF Based
  <2>1. CASE Next
    BY <2>0, <2>1, KeptStep
  <2>2. CASE UNCHANGED vars
    BY <2>0, <2>2, StutterKept
  <2> QED
    BY <2>1, <2>2
<1> QED
  BY <1>1, KeptInit, Belonging, Unblinding, PTL DEF Spec

\* A revoke that returned and that nothing of earlier calls disturbed leaves nothing of
\* the identity it was for, whatever other calls, lost answers and operators do then.
THEOREM RevokedLeavesNothing == Spec => []RevokedIsGone
<1>1. Based /\ Kept => RevokedIsGone
  <2> SUFFICES ASSUME Based, Kept PROVE RevokedIsGone
    OBVIOUS
  <2>1. PICK o \in Owners : Base(o)
    BY DEF Based
  <2>2. ASSUME NEW r \in hist.revoked
        PROVE  /\ r.id \notin Live
               /\ KeysOf(r.id) = {}
               /\ bucket.open => policy.stmts[r.access].id # r.id
               /\ bucket.root # 0 /\ (RootOf[r.access] # 0 \/ bucket.open) =>
                    EntriesOf(r.id, acl.entries) = {}
    <3>1. GoneOK(r)
      BY DEF Kept
    <3>2. r.id \notin Live
      BY <2>1, <3>1, GoneUser
    <3> QED
      BY <3>1, <3>2 DEF GoneOK, NoStatement, NoEntries
  <2> QED
    BY <2>2 DEF RevokedIsGone
<1> QED
  BY <1>1, Belonging, Keeping, PTL

\* A grant that returned gives what it says, until its caller asks for the access to be
\* granted anew or revoked, or an operator removes it.  Excepted is a grant that wrote its
\* statement while a call of another access was about to write one without If-Match.
THEOREM CredentialsHold == Spec => []CredentialsWork
<1>1. Kept => CredentialsWork
  BY DEF Kept, GivenOK, Exact, CredentialsWork
<1> QED
  BY <1>1, Keeping, PTL

=============================================================================
