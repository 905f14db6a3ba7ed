------------------------- MODULE AdminAccounts_proof -------------------------
(***************************************************************************)
(* Proofs about AdminAccounts: the lock of every replica for any number of *)
(* replicas, and what it is for, with one replica, for any number of       *)
(* accounts and requests, any faults and any restarts.                     *)
(***************************************************************************)
EXTENDS AdminAccounts, FiniteSetTheorems, TLAPS

\* A request in the chain of a lock is there once, and waits unless it is
\* the first; a request that goes by what it has counted is the first.
Waits(q) == req[q].pc = "read"
ChainInv ==
  \A r \in Replicas : \A i \in DOMAIN lock[r] :
    /\ req[lock[r][i]].pc \in Locked \cup {"sync"}
    /\ i # 1 => Waits(lock[r][i])
    /\ \A j \in DOMAIN lock[r] : lock[r][j] = lock[r][i] => j = i
HolderInv ==
  \A q \in Requests :
    \/ req[q].pc \in {"count", "apply"}
    \/ req[q].pc = "sync" /\ req[q].then = "leave"
    => HoldsLock(q)
LockInv == TypeOK /\ ChainInv /\ HolderInv

\* What a request is for.
Aim(q) ==
  /\ req[q].pc # "idle" => req[q].target \in Users
  /\ req[q].pc = "create" => req[q].role = "admin"
  /\ req[q].pc = "promote" => req[q].role = "admin" /\ req[q].target \in Designated
  /\ req[q].pc = "scim" => req[q].role = "keep"
  /\ req[q].pc = "sync" => req[q].then # "end"
  /\ req[q].pc \in {"count", "apply"} =>
       /\ role[req[q].target] # "absent"
       /\ req[q].role = "admin" <=> req[q].then = "join"
       /\ req[q].then = "leave" => req[q].role = "viewer"
AimInv == \A q \in Requests : Aim(q)

\* The count is still good: who takes an administrator away leaves another.
CountInv ==
  \A q \in Requests :
    req[q].pc = "apply" /\ req[q].role \in {"viewer", "gone"}
      => Admins \ {req[q].target} # {}

\* An administrator off the team is about to be put on it, and nobody takes
\* one off whom somebody else has promoted.
Joining(u) ==
  \E q \in Requests : req[q].pc = "sync" /\ req[q].then = "join" /\ req[q].target = u
TeamInv ==
  /\ faults = 0 => \A u \in Admins \ Designated : u \in team \cup expelled \/ Joining(u)
  /\ \A q \in Requests :
       req[q].pc = "sync" /\ req[q].then = "leave"
         => /\ role[req[q].target] # "absent"
            /\ req[q].target \notin Admins \ Designated

IndInv == LockInv /\ AimInv /\ CountInv /\ AdminRemains /\ TeamInv

-----------------------------------------------------------------------------
(* The lock.                                                               *)

RequestRecord ==
  [pc : Locked \cup Unlocked \cup {"idle", "sync"},
   at : Replicas \cup {Nobody}, target : Users \cup {Nobody},
   role : {"keep", "viewer", "admin", "gone"},
   active : {"keep", "on", "off"}, then : {"end", "join", "leave"}]

\* The part of LockInv that speaks of the requests and the locks.
Queues ==
  /\ req \in [Requests -> RequestRecord]
  /\ lock \in [Replicas -> Seq(Requests)]
  /\ \A r \in Replicas : \A i \in DOMAIN lock[r] : req[lock[r][i]].at = r
  /\ ChainInv
  /\ HolderInv
Unqueued(q) == \A r \in Replicas : \A i \in DOMAIN lock[r] : lock[r][i] # q

LEMMA Sequence ==
  ASSUME NEW S, NEW s \in Seq(S)
  PROVE  /\ s # <<>> => /\ Head(s) = s[1]
                        /\ 1 \in DOMAIN s
                        /\ Tail(s) \in Seq(S)
                        /\ \A i \in DOMAIN Tail(s) :
                             i + 1 \in DOMAIN s /\ i + 1 # 1 /\ Tail(s)[i] = s[i + 1]
         /\ \A x \in S : /\ Append(s, x) \in Seq(S)
                         /\ \A i \in DOMAIN Append(s, x) :
                              \/ i \in DOMAIN s /\ Append(s, x)[i] = s[i]
                              \/ i = Len(s) + 1 /\ Append(s, x)[i] = x
         /\ DOMAIN s \subseteq Nat \ {0}
         /\ Len(s) + 1 \notin DOMAIN s
         /\ Len(s) + 1 = 1 => s = <<>>
         /\ DOMAIN s # {} => s # <<>>
BY SMT

LEMMA HolderIsFirst ==
  ASSUME Queues, NEW q \in Requests, HoldsLock(q) \/ ~Waits(q),
         NEW r \in Replicas, NEW i \in DOMAIN lock[r], lock[r][i] = q
  PROVE  i = 1 /\ lock[r] # <<>> /\ Head(lock[r]) = q
<1>1. lock[r] \in Seq(Requests)
  BY DEF Queues
<1>2. CASE ~Waits(q)
  BY <1>1, <1>2, Sequence DEF Queues, ChainInv
<1>3. CASE HoldsLock(q)
  <2>1. PICK p \in Replicas : lock[p] # <<>> /\ Head(lock[p]) = q
    BY <1>3 DEF HoldsLock
  <2>2. lock[p] \in Seq(Requests)
    BY DEF Queues
  <2>3. 1 \in DOMAIN lock[p] /\ lock[p][1] = q
    BY <2>1, <2>2, Sequence
  <2>4. p = r
    BY <2>3 DEF Queues
  <2>5. i = 1
    BY <2>3, <2>4 DEF Queues, ChainInv
  <2>. QED BY <2>1, <2>4, <2>5
<1>. QED BY <1>2, <1>3

LEMMA FinishStep ==
  ASSUME Queues, NEW q \in Requests, Finish(q), HoldsLock(q) \/ ~Waits(q)
  PROVE  Queues'
<1>. DEFINE won(r) == lock[r] # <<>> /\ Head(lock[r]) = q
<1>1. req' = [req EXCEPT ![q] = Idle] /\ req' \in [Requests -> RequestRecord]
  BY DEF Finish, Idle, RequestRecord, Queues
<1>2. lock' \in [Replicas -> Seq(Requests)]
  BY Sequence DEF Finish, Queues
<1>3. \A r \in Replicas : lock'[r] = IF won(r) THEN Tail(lock[r]) ELSE lock[r]
  BY DEF Finish
<1>4. ASSUME NEW r \in Replicas, NEW i \in DOMAIN lock'[r]
      PROVE  \E k \in DOMAIN lock[r] :
               /\ lock'[r][i] = lock[r][k]
               /\ lock[r][k] # q
               /\ k = (IF won(r) THEN i + 1 ELSE i)
  <2>1. lock[r] \in Seq(Requests)
    BY DEF Queues
  <2>2. CASE won(r)
    <3>1. i + 1 \in DOMAIN lock[r] /\ lock'[r][i] = lock[r][i + 1] /\ i + 1 # 1
      <4>1. lock[r] # <<>> /\ lock'[r] = Tail(lock[r])
        BY <1>3, <2>2
      <4>2. i \in DOMAIN Tail(lock[r])
        BY <4>1
      <4>. QED BY <2>1, <4>1, <4>2, Sequence
    <3>2. lock[r][i + 1] # q
      BY <3>1, HolderIsFirst
    <3>. QED BY <2>2, <3>1, <3>2
  <2>3. CASE ~won(r)
    <3>1. i \in DOMAIN lock[r] /\ lock'[r][i] = lock[r][i]
      BY <1>3, <2>3
    <3>2. lock[r][i] # q
      BY <2>3, <3>1, HolderIsFirst
    <3>. QED BY <2>3, <3>1, <3>2
  <2>. QED BY <2>2, <2>3
<1>5. \A r \in Replicas : \A i \in DOMAIN lock'[r] :
        lock'[r][i] \in Requests /\ req'[lock'[r][i]] = req[lock'[r][i]]
  <2>1. ASSUME NEW r \in Replicas, NEW i \in DOMAIN lock'[r]
        PROVE  lock'[r][i] \in Requests
    <3>1. lock'[r] \in Seq(Requests)
      BY <1>2
    <3>. QED BY <3>1
  <2>. QED BY <1>1, <1>4, <2>1 DEF Queues
<1>6. \A r \in Replicas : \A i \in DOMAIN lock'[r] : req'[lock'[r][i]].at = r
  BY <1>4, <1>5 DEF Queues
<1>7. ChainInv'
  <2>1. ASSUME NEW r \in Replicas, NEW i \in DOMAIN lock'[r]
        PROVE  req'[lock'[r][i]].pc \in Locked \cup {"sync"}
    BY <1>4, <1>5 DEF Queues, ChainInv
  <2>2. ASSUME NEW r \in Replicas, NEW i \in DOMAIN lock'[r], i # 1
        PROVE  req'[lock'[r][i]].pc = "read"
    <3>1. lock'[r] \in Seq(Requests) /\ lock[r] \in Seq(Requests)
      BY <1>2 DEF Queues
    <3>2. PICK k \in DOMAIN lock[r] : /\ lock'[r][i] = lock[r][k]
                                      /\ k = (IF won(r) THEN i + 1 ELSE i)
      BY <1>4
    <3>3. k # 1
      BY <2>2, <3>1, <3>2, Sequence
    <3>. QED BY <1>5, <3>2, <3>3 DEF Queues, ChainInv, Waits
  <2>3. ASSUME NEW r \in Replicas, NEW i \in DOMAIN lock'[r], NEW j \in DOMAIN lock'[r],
               lock'[r][j] = lock'[r][i]
        PROVE  j = i
    <3>1. i \in Nat /\ j \in Nat
      <4>1. lock'[r] \in Seq(Requests)
        BY <1>2
      <4>. QED BY <4>1, Sequence
    <3>2. (IF won(r) THEN i + 1 ELSE i) = (IF won(r) THEN j + 1 ELSE j)
      BY <1>4, <2>3 DEF Queues, ChainInv
    <3>. QED BY <3>1, <3>2
  <2>. QED BY <2>1, <2>2, <2>3 DEF ChainInv, Waits
<1>8. HolderInv'
  <2>1. ASSUME NEW p \in Requests,
               \/ req'[p].pc \in {"count", "apply"}
               \/ req'[p].pc = "sync" /\ req'[p].then = "leave"
        PROVE  HoldsLock(p)'
    <3>1. p # q /\ req'[p] = req[p]
      BY <1>1, <2>1 DEF Idle, Queues
    <3>2. HoldsLock(p)
      BY <2>1, <3>1 DEF Queues, HolderInv
    <3>. QED BY <1>3, <3>1, <3>2 DEF HoldsLock
  <2>. QED BY <2>1 DEF HolderInv
<1>. QED BY <1>1, <1>2, <1>6, <1>7, <1>8 DEF Queues

\* A request goes on; the locks stay.
LEMMA GotoStep ==
  ASSUME Queues, NEW q \in Requests, NEW x \in RequestRecord,
         req' = [req EXCEPT ![q] = x], UNCHANGED lock,
         x.at = req[q].at \/ Unqueued(q),
         (HoldsLock(q) /\ x.pc \in Locked \cup {"sync"}) \/ Unqueued(q),
         \/ HoldsLock(q)
         \/ x.pc \notin {"count", "apply", "sync"}
         \/ x.pc = "sync" /\ x.then # "leave"
  PROVE  Queues'
<1>1. req' \in [Requests -> RequestRecord] /\ req'[q] = x
      /\ \A p \in Requests \ {q} : req'[p] = req[p]
  BY DEF Queues
<1>2. \A r \in Replicas : \A i \in DOMAIN lock[r] : lock[r][i] \in Requests
  BY DEF Queues
<1>3. ASSUME NEW r \in Replicas, NEW i \in DOMAIN lock[r], lock[r][i] = q
      PROVE  /\ x.at = r
             /\ i = 1
             /\ x.pc \in Locked \cup {"sync"}
  BY <1>3, HolderIsFirst DEF Queues, Unqueued
<1>4. \A r \in Replicas : \A i \in DOMAIN lock'[r] : req'[lock'[r][i]].at = r
  BY <1>1, <1>2, <1>3 DEF Queues
<1>5. ChainInv'
  BY <1>1, <1>2, <1>3 DEF Queues, ChainInv, Waits
<1>6. HolderInv'
  BY <1>1 DEF Queues, HolderInv, HoldsLock
<1>. QED BY <1>1, <1>4, <1>5, <1>6 DEF Queues

LEMMA HolderStep ==
  ASSUME Queues, NEW q \in Requests, NEW x \in RequestRecord,
         req' = [req EXCEPT ![q] = x], UNCHANGED lock, x.at = req[q].at,
         HoldsLock(q), x.pc \in {"count", "apply", "sync"}
  PROVE  Queues'
<1>1. x.pc \in Locked \cup {"sync"}
  BY DEF Locked
<1>. QED BY <1>1, GotoStep

LEMMA IdleIsUnqueued ==
  ASSUME Queues, NEW q \in Requests, req[q].pc \notin Locked \cup {"sync"}
  PROVE  Unqueued(q)
BY DEF Queues, ChainInv, Unqueued

LEMMA StartStep ==
  ASSUME Queues, NEW q \in Requests, NEW pc \in Unlocked \cup {"read"}, NEW u \in Users,
         NEW newRole \in {"keep", "viewer", "admin", "gone"},
         NEW active \in {"keep", "on", "off"},
         Start(q, pc, u, newRole, active)
  PROVE  /\ Queues'
         /\ req[q].pc = "idle"
         /\ \A p \in Requests \ {q} : req'[p] = req[p]
         /\ req'[q].pc = pc /\ req'[q].target = u /\ req'[q].role = newRole
<1>1. PICK r \in Replicas :
        /\ req' = [req EXCEPT ![q] = [pc |-> pc, at |-> r, target |-> u, role |-> newRole,
                                      active |-> active, then |-> "end"]]
        /\ lock' = IF pc \in Locked THEN [lock EXCEPT ![r] = Append(@, q)] ELSE lock
  BY DEF Start
<1>2. req[q].pc = "idle" /\ Unqueued(q)
  BY IdleIsUnqueued DEF Start, Locked
<1>. DEFINE x == [pc |-> pc, at |-> r, target |-> u, role |-> newRole,
                  active |-> active, then |-> "end"]
<1>3. x \in RequestRecord
  BY DEF RequestRecord, Unlocked, Locked
<1>4. /\ \A p \in Requests \ {q} : req'[p] = req[p]
      /\ req'[q] = x
      /\ req' \in [Requests -> RequestRecord]
  BY <1>1, <1>3 DEF Queues
<1>5. CASE pc \notin Locked
  <2>1. UNCHANGED lock /\ req' = [req EXCEPT ![q] = x]
    BY <1>1, <1>5
  <2>2. x.pc \notin {"count", "apply", "sync"}
    BY DEF Unlocked
  <2>3. Queues'
    BY <1>2, <1>3, <2>1, <2>2, GotoStep
  <2>. QED BY <1>2, <1>4, <2>3
<1>6. CASE pc \in Locked
  <2>1. pc = "read" /\ lock' = [lock EXCEPT ![r] = Append(@, q)]
    BY <1>1, <1>6 DEF Locked, Unlocked
  <2>2. /\ lock[r] \in Seq(Requests)
        /\ lock'[r] = Append(lock[r], q)
        /\ \A p \in Replicas \ {r} : lock'[p] = lock[p]
        /\ lock' \in [Replicas -> Seq(Requests)]
    BY <2>1, Sequence DEF Queues
  <2>3. ASSUME NEW p \in Replicas, NEW i \in DOMAIN lock'[p]
        PROVE  \/ /\ i \in DOMAIN lock[p] /\ lock'[p][i] = lock[p][i]
                  /\ lock'[p][i] # q /\ lock[p][i] \in Requests
               \/ p = r /\ lock'[p][i] = q /\ i = Len(lock[r]) + 1
    <3>1. CASE p = r
      <4>1. i \in DOMAIN Append(lock[r], q)
        BY <2>2, <3>1
      <4>2. \/ i \in DOMAIN lock[r] /\ lock'[r][i] = lock[r][i]
            \/ i = Len(lock[r]) + 1 /\ lock'[r][i] = q
        BY <2>2, <4>1, Sequence
      <4>. QED BY <1>2, <2>2, <3>1, <4>2 DEF Unqueued
    <3>2. CASE p # r
      <4>1. lock'[p] = lock[p] /\ lock[p] \in Seq(Requests)
        BY <2>2, <3>2 DEF Queues
      <4>. QED BY <1>2, <4>1 DEF Unqueued
    <3>. QED BY <3>1, <3>2
  <2>4. ASSUME NEW p \in Replicas, NEW i \in DOMAIN lock'[p]
        PROVE  req'[lock'[p][i]].at = p
    <3>1. CASE p = r /\ lock'[p][i] = q
      BY <1>4, <3>1
    <3>2. CASE /\ i \in DOMAIN lock[p] /\ lock'[p][i] = lock[p][i]
               /\ lock'[p][i] # q /\ lock[p][i] \in Requests
      <4>1. req'[lock'[p][i]] = req[lock[p][i]]
        BY <1>4, <3>2
      <4>2. req[lock[p][i]].at = p
        BY <3>2 DEF Queues
      <4>. QED BY <4>1, <4>2
    <3>. QED BY <2>3, <3>1, <3>2
  <2>5. ChainInv'
    <3>1. ASSUME NEW p \in Replicas, NEW i \in DOMAIN lock'[p]
          PROVE  /\ req'[lock'[p][i]].pc \in Locked \cup {"sync"}
                 /\ i # 1 => req'[lock'[p][i]].pc = "read"
      BY <1>4, <2>1, <2>3 DEF Queues, ChainInv, Waits, Locked
    <3>2. ASSUME NEW p \in Replicas, NEW i \in DOMAIN lock'[p], NEW j \in DOMAIN lock'[p],
                 lock'[p][j] = lock'[p][i]
          PROVE  j = i
      BY <2>3, <3>2 DEF Queues, ChainInv
    <3>. QED BY <3>1, <3>2 DEF ChainInv, Waits
  <2>6. HolderInv'
    <3>1. ASSUME NEW p \in Requests, HoldsLock(p) PROVE HoldsLock(p)'
      <4>1. PICK o \in Replicas : lock[o] # <<>> /\ Head(lock[o]) = p
        BY <3>1 DEF HoldsLock
      <4>2. lock'[o] # <<>> /\ Head(lock'[o]) = p
        <5>1. CASE o = r
          <6>1. lock[r] # <<>> => Append(lock[r], q) # <<>>
                                  /\ Head(Append(lock[r], q)) = Head(lock[r])
            BY <2>2, SMT
          <6>. QED BY <2>2, <4>1, <5>1, <6>1
        <5>. QED BY <2>2, <4>1, <5>1
      <4>. QED BY <4>2 DEF HoldsLock
    <3>. QED BY <1>4, <2>1, <3>1 DEF Queues, HolderInv
  <2>7. Queues'
    BY <1>4, <2>2, <2>4, <2>5, <2>6 DEF Queues
  <2>. QED BY <1>2, <1>4, <2>7
<1>. QED BY <1>5, <1>6

\* The rows, the team and the bounds.
RowsType ==
  /\ role \in [Users -> {"absent", "viewer", "admin", "gone"}]
  /\ disabled \subseteq Users /\ team \subseteq Users /\ expelled \subseteq Users
  /\ faults \in Nat /\ crashes \in Nat

LEMMA LockInvParts == LockInv <=> Queues /\ RowsType
BY DEF LockInv, TypeOK, Queues, RowsType, RequestRecord

\* What a request's first step does.
StartsAs(q, pcs, newRole) ==
  \E pc \in pcs, u \in Users, active \in {"keep", "on", "off"} :
    Start(q, pc, u, newRole, active)

LEMMA Starts ==
  ASSUME RowsType, NEW q \in Requests
  PROVE  /\ Patch(q) => \E n \in {"keep", "viewer", "admin"} : StartsAs(q, {"read"}, n)
         /\ Delete(q) => StartsAs(q, {"read"}, "gone")
         /\ CreateAdmin(q) \/ Setup(q) => StartsAs(q, {"create"}, "admin")
         /\ ScimRead(q) => StartsAs(q, {"scim"}, "keep")
<1>1. Rows \subseteq Users
  BY DEF Rows
<1>2. Patch(q) => \E n \in {"keep", "viewer", "admin"} : StartsAs(q, {"read"}, n)
  BY <1>1 DEF Patch, StartsAs
<1>3. Delete(q) => StartsAs(q, {"read"}, "gone")
  BY <1>1 DEF Delete, StartsAs
<1>4. CreateAdmin(q) \/ Setup(q) => StartsAs(q, {"create"}, "admin")
  BY DEF CreateAdmin, Setup, StartsAs
<1>5. ScimRead(q) => StartsAs(q, {"scim"}, "keep")
  BY <1>1 DEF ScimRead, StartsAs
<1>. QED BY <1>2, <1>3, <1>4, <1>5

LEMMA RowsStep == RowsType /\ Queues /\ AimInv /\ [Next]_vars => RowsType'
<1>. SUFFICES ASSUME RowsType, Queues, AimInv, [Next]_vars PROVE RowsType'
  OBVIOUS
<1>. USE DEF RowsType, accounts, bounds
<1>1. ASSUME NEW q \in Requests, req[q].pc # "idle" PROVE req[q].target \in Users
  BY <1>1 DEF AimInv, Aim
<1>2. ASSUME NEW q \in Requests, req[q].pc # "idle"
      PROVE  /\ WriteRow(q) => /\ role' \in [Users -> {"absent", "viewer", "admin", "gone"}]
                               /\ disabled' \subseteq Users
             /\ SyncTeam(q) => team' \subseteq Users /\ expelled' \subseteq Users
  BY <1>1, <1>2 DEF WriteRow, SyncTeam, Queues, RequestRecord
<1>3. ASSUME NEW q \in Requests,
             \/ Patch(q) \/ Delete(q) \/ CreateAdmin(q) \/ Setup(q) \/ SsoLogin(q)
             \/ ScimRead(q) \/ ReadTarget(q) \/ CountAdmins(q)
      PROVE  RowsType'
  BY <1>3 DEF Patch, Delete, CreateAdmin, Setup, SsoLogin, ScimRead, ReadTarget, CountAdmins
<1>4. ASSUME NEW q \in Requests,
             Apply(q) \/ Sync(q) \/ Create(q) \/ Promote(q) \/ ScimApply(q)
      PROVE  RowsType'
  BY <1>2, <1>4 DEF Apply, Sync, Create, Promote, ScimApply
<1>5. ASSUME NEW q \in Requests, Fault(q) PROVE RowsType'
  BY <1>2, <1>5 DEF Fault
<1>6. CASE CreateViewer \/ AddMember \/ RemoveMember
  BY <1>6 DEF CreateViewer, AddMember, RemoveMember, Rows
<1>7. ASSUME NEW r \in Replicas, Restart(r) PROVE RowsType'
  BY <1>7 DEF Restart, Admins
<1>8. CASE UNCHANGED vars
  BY <1>8 DEF vars
<1>. QED BY <1>3, <1>4, <1>5, <1>6, <1>7, <1>8 DEF Next, Step

LEMMA QueuesStep == RowsType /\ Queues /\ [Next]_vars => Queues'
<1>. SUFFICES ASSUME RowsType, Queues, [Next]_vars PROVE Queues'
  OBVIOUS
<1>. USE DEF accounts, bounds
<1>1. ASSUME NEW q \in Requests,
             Patch(q) \/ Delete(q) \/ CreateAdmin(q) \/ Setup(q) \/ ScimRead(q)
      PROVE  Queues'
  <2>1. PICK pc \in Unlocked \cup {"read"}, n \in {"keep", "viewer", "admin", "gone"} :
          StartsAs(q, {pc}, n)
    BY <1>1, Starts DEF Unlocked
  <2>2. PICK u \in Users, active \in {"keep", "on", "off"} : Start(q, pc, u, n, active)
    BY <2>1 DEF StartsAs
  <2>. QED BY <2>2, StartStep
<1>2. ASSUME NEW q \in Requests, SsoLogin(q) PROVE Queues'
  <2>1. CASE \E u \in Users : \/ Start(q, "create", u, "admin", "keep")
                             \/ Start(q, "promote", u, "admin", "keep")
    BY <2>1, StartStep DEF Unlocked
  <2>2. ASSUME NEW u \in Users, req[q].pc = "idle", UNCHANGED lock,
               req' = [req EXCEPT ![q] = [Idle EXCEPT !.pc = "sync", !.target = u,
                                                      !.then = "join"]]
        PROVE  Queues'
    <3>1. [Idle EXCEPT !.pc = "sync", !.target = u, !.then = "join"] \in RequestRecord
      BY DEF Idle, RequestRecord
    <3>2. Unqueued(q)
      BY <2>2, IdleIsUnqueued DEF Locked
    <3>3. [Idle EXCEPT !.pc = "sync", !.target = u, !.then = "join"].pc = "sync"
          /\ [Idle EXCEPT !.pc = "sync", !.target = u, !.then = "join"].then = "join"
      BY DEF Idle
    <3>. QED BY <2>2, <3>1, <3>2, <3>3, GotoStep
  <2>. QED BY <1>2, <2>1, <2>2 DEF SsoLogin
<1>3. ASSUME NEW q \in Requests, ReadTarget(q) PROVE Queues'
  <2>1. CASE Finish(q)
    BY <1>3, <2>1, FinishStep DEF ReadTarget
  <2>2. CASE ~Finish(q)
    <3>. DEFINE x == [req[q] EXCEPT !.pc = IF Strips(q) THEN "count" ELSE "apply",
                                    !.then = TeamStep(q)]
    <3>1. req' = [req EXCEPT ![q] = x] /\ UNCHANGED lock /\ HoldsLock(q)
      BY <1>3, <2>2 DEF ReadTarget, Queues, RequestRecord
    <3>2. x \in RequestRecord /\ x.pc \in {"count", "apply"} /\ x.at = req[q].at
      BY ZenonT(40) DEF Queues, RequestRecord, TeamStep, Locked
    <3>. HIDE DEF x
    <3>. QED BY <3>1, <3>2, HolderStep
  <2>. QED BY <2>1, <2>2
<1>4. ASSUME NEW q \in Requests, CountAdmins(q) PROVE Queues'
  <2>1. HoldsLock(q)
    BY <1>4 DEF CountAdmins, Queues, HolderInv
  <2>2. CASE Finish(q)
    BY <2>1, <2>2, FinishStep
  <2>3. CASE Goto(q, "apply")
    <3>. DEFINE x == [req[q] EXCEPT !.pc = "apply"]
    <3>1. /\ x \in RequestRecord
          /\ x.pc = "apply"
          /\ x.at = req[q].at
          /\ req' = [req EXCEPT ![q] = x]
          /\ UNCHANGED lock
      BY <2>3 DEF Goto, Queues, RequestRecord, Locked
    <3>. HIDE DEF x
    <3>. QED BY <2>1, <3>1, HolderStep
  <2>. QED BY <1>4, <2>2, <2>3 DEF CountAdmins
<1>5. ASSUME NEW q \in Requests, Apply(q) PROVE Queues'
  <2>1. HoldsLock(q)
    BY <1>5 DEF Apply, Queues, HolderInv
  <2>2. CASE Finish(q)
    BY <2>1, <2>2, FinishStep
  <2>3. CASE Goto(q, "sync")
    <3>. DEFINE x == [req[q] EXCEPT !.pc = "sync"]
    <3>1. /\ x \in RequestRecord
          /\ x.pc = "sync"
          /\ x.at = req[q].at
          /\ req' = [req EXCEPT ![q] = x]
          /\ UNCHANGED lock
      BY <2>3 DEF Goto, Queues, RequestRecord
    <3>. HIDE DEF x
    <3>. QED BY <2>1, <3>1, HolderStep
  <2>. QED BY <1>5, <2>2, <2>3 DEF Apply
<1>6. ASSUME NEW q \in Requests, Create(q) \/ Promote(q) PROVE Queues'
  <2>1. Unqueued(q)
    BY <1>6, IdleIsUnqueued DEF Create, Promote, Locked
  <2>2. CASE Finish(q)
    BY <1>6, <2>2, FinishStep DEF Create, Promote, Waits
  <2>3. CASE ~Finish(q)
    <3>. DEFINE x == [req[q] EXCEPT !.pc = "sync", !.then = "join"]
    <3>1. x \in RequestRecord /\ x.pc = "sync" /\ x.then = "join"
      BY DEF Queues, RequestRecord
    <3>2. req' = [req EXCEPT ![q] = x] /\ UNCHANGED lock
      BY <1>6, <2>3 DEF Create, Promote, Queues, RequestRecord
    <3>. HIDE DEF x
    <3>. QED BY <2>1, <3>1, <3>2, GotoStep
  <2>. QED BY <2>2, <2>3
<1>7. ASSUME NEW q \in Requests, Sync(q) \/ ScimApply(q) \/ Fault(q) PROVE Queues'
  <2>1. Finish(q)
    BY <1>7 DEF Sync, ScimApply, Fault
  <2>2. HoldsLock(q) \/ ~Waits(q)
    BY <1>7 DEF Sync, ScimApply, Fault, Waits
  <2>. QED BY <2>1, <2>2, FinishStep
<1>8. ASSUME NEW r \in Replicas, Restart(r) PROVE Queues'
  <2>1. /\ req' = [q \in Requests |-> IF req[q].at = r THEN Idle ELSE req[q]]
        /\ lock' = [lock EXCEPT ![r] = <<>>]
    BY <1>8 DEF Restart
  <2>2. req' \in [Requests -> RequestRecord] /\ lock' \in [Replicas -> Seq(Requests)]
    BY <2>1 DEF Queues, RequestRecord, Idle
  <2>3. /\ lock'[r] = <<>>
        /\ \A p \in Replicas \ {r} : lock'[p] = lock[p]
    BY <2>1 DEF Queues
  <2>4. ASSUME NEW p \in Replicas, NEW i \in DOMAIN lock'[p]
        PROVE  /\ p # r
               /\ lock'[p] = lock[p]
               /\ lock[p][i] \in Requests
               /\ req[lock[p][i]].at = p
               /\ req'[lock[p][i]] = req[lock[p][i]]
    <3>1. p # r
      BY <2>3
    <3>2. lock'[p] = lock[p] /\ lock[p] \in Seq(Requests)
      BY <2>3, <3>1 DEF Queues
    <3>3. lock[p][i] \in Requests /\ req[lock[p][i]].at = p
      BY <3>2 DEF Queues
    <3>. QED BY <2>1, <3>1, <3>2, <3>3
  <2>5. ChainInv'
    BY <2>4 DEF Queues, ChainInv, Waits
  <2>6. HolderInv'
    <3>1. ASSUME NEW q \in Requests,
                 \/ req'[q].pc \in {"count", "apply"}
                 \/ req'[q].pc = "sync" /\ req'[q].then = "leave"
          PROVE  HoldsLock(q)'
      <4>1. req'[q] = req[q] /\ req[q].at # r
        BY <2>1, <3>1 DEF Idle
      <4>2. PICK p \in Replicas : lock[p] # <<>> /\ Head(lock[p]) = q
        BY <3>1, <4>1 DEF Queues, HolderInv, HoldsLock
      <4>3. lock[p] \in Seq(Requests)
        BY DEF Queues
      <4>4. 1 \in DOMAIN lock[p] /\ lock[p][1] = q
        BY <4>2, <4>3, Sequence
      <4>5. p # r
        BY <4>1, <4>4 DEF Queues
      <4>. QED BY <2>3, <4>2, <4>5 DEF HoldsLock
    <3>. QED BY <3>1 DEF HolderInv
  <2>. QED BY <2>2, <2>4, <2>5, <2>6 DEF Queues
<1>9. CASE CreateViewer \/ AddMember \/ RemoveMember \/ UNCHANGED vars
  BY <1>9 DEF CreateViewer, AddMember, RemoveMember, vars, Queues, ChainInv, HolderInv,
    HoldsLock, Waits
<1>. QED BY <1>1, <1>2, <1>3, <1>4, <1>5, <1>6, <1>7, <1>8, <1>9 DEF Next, Step

-----------------------------------------------------------------------------
(* What requests are for.                                                  *)

\* The step of a request changes no other request.
RequestStep(q) ==
  \/ Patch(q) \/ Delete(q) \/ CreateAdmin(q) \/ Setup(q)
  \/ SsoLogin(q) \/ ScimRead(q)
  \/ Step(q)
  \/ Fault(q)

LEMMA OthersStay ==
  ASSUME Queues, RowsType, NEW q \in Requests, RequestStep(q)
  PROVE  \A p \in Requests \ {q} : req'[p] = req[p]
<1>1. CASE Patch(q) \/ Delete(q) \/ CreateAdmin(q) \/ Setup(q) \/ SsoLogin(q) \/ ScimRead(q)
  BY <1>1 DEF Patch, Delete, CreateAdmin, Setup, SsoLogin, ScimRead, Start, Queues
<1>2. CASE Step(q) \/ Fault(q)
  BY <1>2 DEF Step, Fault, ReadTarget, CountAdmins, Apply, Sync, Create, Promote, ScimApply,
    Finish, Goto, Queues
<1>. QED BY <1>1, <1>2 DEF RequestStep

\* What becomes of the rows: one is written, created or none.
Wrote(q) == req[q].pc \in {"apply", "scim", "promote"} /\ WriteRow(q)
Created(q) ==
  /\ req[q].pc = "create" /\ role[req[q].target] = "absent"
  /\ role' = [role EXCEPT ![req[q].target] = "admin"]

LEMMA RoleStep ==
  ASSUME Queues, RowsType, NEW q \in Requests, RequestStep(q)
  PROVE  UNCHANGED role \/ Wrote(q) \/ Created(q)
<1>. USE DEF accounts, Wrote, Created
<1>1. CASE Patch(q) \/ Delete(q) \/ CreateAdmin(q) \/ Setup(q) \/ SsoLogin(q) \/ ScimRead(q)
  BY <1>1 DEF Patch, Delete, CreateAdmin, Setup, SsoLogin, ScimRead
<1>2. CASE Step(q) \/ Fault(q)
  BY <1>2 DEF Step, Fault, ReadTarget, CountAdmins, Apply, Sync, Create, Promote, ScimApply
<1>. QED BY <1>1, <1>2 DEF RequestStep

\* A written row has the request's role, if it was there.
LEMMA WriteStep ==
  ASSUME Queues, RowsType, NEW q \in Requests, Aim(q), Wrote(q)
  PROVE  /\ req[q].target \in Users
         /\ \A u \in Users \ {req[q].target} : role'[u] = role[u]
         /\ \/ /\ role'[req[q].target] = role[req[q].target]
               /\ req[q].role = "keep" \/ req[q].target \notin Rows
            \/ /\ role'[req[q].target] = req[q].role
               /\ req[q].role # "keep" /\ req[q].target \in Rows
BY DEF Wrote, Aim, WriteRow, RowsType, Rows

LEMMA RowsStay ==
  ASSUME Queues, RowsType, AimInv, [Next]_vars, NEW u \in Users, role[u] # "absent"
  PROVE  role'[u] # "absent"
<1>1. ASSUME NEW q \in Requests, RequestStep(q) PROVE role'[u] # "absent"
  <2>1. CASE Wrote(q)
    <3>1. Aim(q) /\ req[q].role \in {"keep", "viewer", "admin", "gone"}
      BY DEF AimInv, Queues, RequestRecord
    <3>2. req[q].target = u \/ role'[u] = role[u]
      BY <2>1, <3>1, WriteStep
    <3>3. role'[req[q].target] = role[req[q].target] \/ role'[req[q].target] = req[q].role
      BY <2>1, <3>1, WriteStep
    <3>. QED BY <3>1, <3>2, <3>3
  <2>2. CASE Created(q)
    BY <2>2 DEF Created, RowsType
  <2>. QED BY <1>1, <2>1, <2>2, RoleStep
<1>2. CASE CreateViewer
  BY <1>2 DEF CreateViewer, RowsType
<1>3. CASE AddMember \/ RemoveMember \/ \E r \in Replicas : Restart(r)
  BY <1>3 DEF AddMember, RemoveMember, Restart
<1>4. CASE UNCHANGED vars
  BY <1>4 DEF vars
<1>. QED BY <1>1, <1>2, <1>3, <1>4 DEF Next, RequestStep

LEMMA AimStep == Queues /\ RowsType /\ AimInv /\ [Next]_vars => AimInv'
<1>. SUFFICES ASSUME Queues, RowsType, AimInv, [Next]_vars, NEW p \in Requests PROVE Aim(p)'
  BY DEF AimInv
<1>1. req'[p] = req[p] => Aim(p)'
  BY RowsStay DEF AimInv, Aim
<1>2. req'[p] = Idle => Aim(p)'
  BY DEF Aim, Idle
<1>3. CASE RequestStep(p)
  <2>1. CASE Patch(p) \/ Delete(p) \/ CreateAdmin(p) \/ Setup(p) \/ ScimRead(p)
    <3>1. \/ \E n \in {"keep", "viewer", "admin", "gone"} : StartsAs(p, {"read"}, n)
          \/ StartsAs(p, {"create"}, "admin")
          \/ StartsAs(p, {"scim"}, "keep")
      BY <2>1, Starts
    <3>. QED BY <3>1, StartStep DEF StartsAs, Unlocked, Aim
  <2>2. CASE SsoLogin(p)
    <3>1. CASE \E u \in Designated : \/ Start(p, "create", u, "admin", "keep")
                                    \/ Start(p, "promote", u, "admin", "keep")
      BY <3>1, StartStep, AdminConstants DEF Unlocked, Aim
    <3>2. ASSUME NEW u \in Users,
                 req' = [req EXCEPT ![p] = [Idle EXCEPT !.pc = "sync", !.target = u,
                                                        !.then = "join"]]
          PROVE  Aim(p)'
      BY <3>2 DEF Idle, Aim, Queues
    <3>. QED BY <2>2, <3>1, <3>2 DEF SsoLogin
  <2>3. CASE Finish(p)
    BY <1>2, <2>3 DEF Finish, Queues
  <2>4. CASE ReadTarget(p) /\ ~Finish(p)
    <3>1. /\ req[p].pc = "read" /\ req[p].target \in Rows
          /\ req'[p] = [req[p] EXCEPT !.pc = IF Strips(p) THEN "count" ELSE "apply",
                                      !.then = TeamStep(p)]
          /\ UNCHANGED role
      BY <2>4 DEF ReadTarget, Queues, accounts
    <3>2. /\ req'[p].target = req[p].target
          /\ req'[p].role = req[p].role
          /\ req'[p].then = TeamStep(p)
          /\ req'[p].pc \in {"count", "apply"}
      BY <3>1 DEF Queues, RequestRecord
    <3>3. /\ req[p].target \in Users
          /\ role'[req[p].target] # "absent"
      BY <3>1 DEF Rows
    <3>4. /\ req[p].role = "admin" <=> TeamStep(p) = "join"
          /\ TeamStep(p) = "leave" => req[p].role = "viewer"
      BY DEF TeamStep
    <3>. QED BY <3>2, <3>3, <3>4 DEF Aim
  <2>5. CASE (CountAdmins(p) \/ Apply(p)) /\ ~Finish(p)
    <3>1. PICK pc \in {"apply", "sync"} :
            /\ req'[p] = [req[p] EXCEPT !.pc = pc]
            /\ req[p].pc = (IF pc = "apply" THEN "count" ELSE "apply")
            /\ pc = "sync" => req[p].then # "end"
      <4>1. CASE CountAdmins(p)
        <5>1. req[p].pc = "count" /\ Goto(p, "apply")
          BY <2>5, <4>1 DEF CountAdmins
        <5>. QED BY <5>1 DEF Goto, Queues
      <4>2. CASE Apply(p)
        <5>1. req[p].pc = "apply" /\ Goto(p, "sync") /\ req[p].then # "end"
          BY <2>5, <4>2 DEF Apply
        <5>. QED BY <5>1 DEF Goto, Queues
      <4>. QED BY <2>5, <4>1, <4>2
    <3>2. /\ req'[p].target = req[p].target
          /\ req'[p].role = req[p].role
          /\ req'[p].then = req[p].then
          /\ \/ req'[p].pc = "apply" /\ req[p].pc = "count"
             \/ /\ req'[p].pc = "sync" /\ req[p].pc = "apply"
                /\ req'[p].then # "end"
      BY <3>1 DEF Queues, RequestRecord
    <3>. QED BY <3>2, RowsStay DEF AimInv, Aim
  <2>6. CASE (Create(p) \/ Promote(p)) /\ ~Finish(p)
    <3>1. /\ req[p].pc # "idle"
          /\ req'[p] = [req[p] EXCEPT !.pc = "sync", !.then = "join"]
      BY <2>6 DEF Create, Promote, Queues
    <3>2. req'[p].target = req[p].target /\ req'[p].pc = "sync" /\ req'[p].then = "join"
      BY <3>1 DEF Queues, RequestRecord
    <3>. QED BY <3>1, <3>2 DEF AimInv, Aim
  <2>. QED BY <1>3, <2>1, <2>2, <2>3, <2>4, <2>5, <2>6
         DEF RequestStep, Step, Sync, ScimApply, Fault
<1>4. ASSUME NEW q \in Requests, q # p, RequestStep(q) PROVE Aim(p)'
  BY <1>1, <1>4, OthersStay
<1>5. CASE CreateViewer \/ AddMember \/ RemoveMember \/ UNCHANGED vars
  BY <1>1, <1>5 DEF CreateViewer, AddMember, RemoveMember, vars
<1>6. CASE \E r \in Replicas : Restart(r)
  BY <1>1, <1>2, <1>6 DEF Restart
<1>. QED BY <1>3, <1>4, <1>5, <1>6 DEF Next, RequestStep

-----------------------------------------------------------------------------
(* One replica.                                                            *)

OneReplica == \A r, p \in Replicas : r = p
TypedInv == Queues /\ RowsType /\ AimInv

LEMMA OneHolder ==
  ASSUME OneReplica, NEW p, NEW q, HoldsLock(p), HoldsLock(q)
  PROVE  p = q
BY DEF OneReplica, HoldsLock

\* Two requests that go by what they have read are one.
Decided(q) ==
  \/ req[q].pc \in {"count", "apply"}
  \/ req[q].pc = "sync" /\ req[q].then = "leave"

LEMMA OneDecided ==
  ASSUME OneReplica, Queues, NEW p \in Requests, NEW q \in Requests, Decided(p), Decided(q)
  PROVE  p = q
BY OneHolder DEF Queues, HolderInv, Decided

\* More than one administrator is another one.
LEMMA AnotherAdmin ==
  ASSUME NEW q, ~LastAdmin(q), NEW u
  PROVE  Admins \ {u} # {}
<1>. SUFFICES ASSUME Admins \ {u} = {} PROVE FALSE
  OBVIOUS
<1>1. Admins = {} \/ Admins = {u}
  OBVIOUS
<1>2. Cardinality({}) = 0 /\ Cardinality({u}) = 1
  BY FS_EmptySet, FS_Singleton
<1>. QED BY <1>1, <1>2 DEF LastAdmin

\* Administrators go by the write of a request that has counted; others come
\* only where there are administrators, or as one.
LEMMA AdminsStep ==
  ASSUME TypedInv, NEW q \in Requests, RequestStep(q)
  PROVE  /\ \/ Admins \subseteq Admins'
            \/ /\ req[q].pc = "apply" /\ req[q].role \in {"viewer", "gone"}
               /\ Admins \ {req[q].target} \subseteq Admins'
         /\ Rows = {} => Rows' = {} \/ Admins' # {}
         /\ \A u \in Admins' \ Admins :
              \/ u \in Designated
              \/ role[u] = "absent" /\ req[q].pc = "create" /\ u = req[q].target
              \/ req[q].pc = "apply" /\ req[q].role = "admin" /\ u = req[q].target
<1>. USE DEF TypedInv, Admins, Rows
<1>1. Aim(q) /\ req[q].role \in {"keep", "viewer", "admin", "gone"}
  BY DEF AimInv, Queues, RequestRecord
<1>2. CASE Wrote(q)
  <2>1. /\ req[q].target \in Users
        /\ \A u \in Users \ {req[q].target} : role'[u] = role[u]
        /\ \/ role'[req[q].target] = role[req[q].target]
           \/ role'[req[q].target] = req[q].role /\ req[q].target \in Rows
    BY <1>1, <1>2, WriteStep
  <2>2. CASE req[q].pc = "apply"
    <3>1. Rows = {} => Rows' = {} \/ Admins' # {}
      BY <2>1
    <3>2. \A u \in Admins' \ Admins : req[q].role = "admin" /\ u = req[q].target
      BY <2>1
    <3>3. CASE req[q].role \in {"viewer", "gone"}
      BY <2>1, <2>2, <3>1, <3>2, <3>3
    <3>4. CASE req[q].role \in {"keep", "admin"}
      <4>1. Admins \subseteq Admins'
        BY <1>1, <1>2, <2>1, <3>4, WriteStep
      <4>. QED BY <2>2, <3>1, <3>2, <4>1
    <3>. QED BY <1>1, <3>3, <3>4
  <2>3. CASE req[q].pc = "scim"
    <3>1. req[q].role = "keep"
      BY <1>1, <2>3 DEF Aim
    <3>2. role'[req[q].target] = role[req[q].target]
      BY <1>1, <1>2, <3>1, WriteStep DEF RowsType
    <3>. QED BY <2>1, <3>2
  <2>4. CASE req[q].pc = "promote"
    BY <1>1, <2>1, <2>4 DEF Aim
  <2>. QED BY <1>2, <2>2, <2>3, <2>4 DEF Wrote
<1>3. CASE Created(q)
  <2>1. req[q].target \in Users /\ role'[req[q].target] = "admin"
    BY <1>1, <1>3 DEF Created, Aim, RowsType
  <2>. QED BY <1>3, <2>1 DEF Created, RowsType
<1>4. CASE UNCHANGED role
  BY <1>4
<1>. QED BY <1>2, <1>3, <1>4, RoleStep

LEMMA CountStep ==
  OneReplica /\ TypedInv /\ CountInv /\ AdminRemains /\ [Next]_vars
    => CountInv' /\ AdminRemains'
<1>. SUFFICES ASSUME OneReplica, TypedInv, CountInv, AdminRemains, [Next]_vars
              PROVE  CountInv' /\ AdminRemains'
  OBVIOUS
<1>. USE DEF TypedInv
<1>1. ASSUME NEW q \in Requests, RequestStep(q) PROVE CountInv' /\ AdminRemains'
  <2>1. AdminRemains'
    <3>1. CASE Admins = {}
      <4>1. Rows = {}
        BY <3>1 DEF AdminRemains
      <4>. QED BY <1>1, <4>1, AdminsStep DEF AdminRemains
    <3>2. CASE Admins # {}
      BY <1>1, <3>2, AdminsStep DEF AdminRemains, CountInv
    <3>. QED BY <3>1, <3>2
  <2>2. ASSUME NEW p \in Requests, p # q,
               req'[p].pc = "apply", req'[p].role \in {"viewer", "gone"}
        PROVE  Admins' \ {req'[p].target} # {}
    <3>1. req'[p] = req[p]
      BY <1>1, <2>2, OthersStay
    <3>2. Admins \ {req[p].target} # {}
      BY <2>2, <3>1 DEF CountInv
    <3>3. req[q].pc # "apply"
      BY <2>2, <3>1, OneDecided DEF Decided
    <3>. QED BY <1>1, <3>1, <3>2, <3>3, AdminsStep
  <2>3. ASSUME req'[q].pc = "apply", req'[q].role \in {"viewer", "gone"}
        PROVE  Admins' \ {req'[q].target} # {}
    <3>1. (ReadTarget(q) \/ CountAdmins(q)) /\ ~Finish(q)
      <4>1. ~Finish(q)
        BY <2>3 DEF Finish, Idle, Queues
      <4>2. ~(Patch(q) \/ Delete(q) \/ CreateAdmin(q) \/ Setup(q) \/ ScimRead(q))
        BY <2>3, Starts, StartStep DEF StartsAs, Unlocked
      <4>3. ~SsoLogin(q)
        <5>1. \A u \in Users : ~Start(q, "create", u, "admin", "keep")
                              /\ ~Start(q, "promote", u, "admin", "keep")
          BY <2>3, StartStep DEF Unlocked
        <5>2. \A u \in Users :
                ~(req' = [req EXCEPT ![q] = [Idle EXCEPT !.pc = "sync", !.target = u,
                                                        !.then = "join"]])
          BY <2>3 DEF Idle, Queues
        <5>. QED BY <5>1, <5>2 DEF SsoLogin
      <4>4. ~(Apply(q) \/ Create(q) \/ Promote(q))
        BY <2>3, <4>1 DEF Apply, Create, Promote, Goto, Queues, RequestRecord
      <4>. QED BY <1>1, <4>1, <4>2, <4>3, <4>4 DEF RequestStep, Step, Sync, ScimApply, Fault
    <3>2. CASE ReadTarget(q)
      <4>1. /\ req[q].target \in Rows /\ UNCHANGED role
            /\ req'[q] = [req[q] EXCEPT !.pc = IF Strips(q) THEN "count" ELSE "apply",
                                        !.then = TeamStep(q)]
        BY <3>1, <3>2 DEF ReadTarget, accounts, Queues
      <4>2. /\ req'[q].target = req[q].target
            /\ req'[q].role = req[q].role
            /\ ~Strips(q)
        BY <2>3, <4>1 DEF Queues, RequestRecord
      <4>3. req[q].target \notin Admins
        BY <2>3, <4>2 DEF Strips, Admins
      <4>4. Admins # {} /\ Admins' = Admins
        BY <4>1 DEF AdminRemains, Admins
      <4>. QED BY <4>2, <4>3, <4>4
    <3>3. CASE CountAdmins(q)
      <4>1. UNCHANGED role /\ ~LastAdmin(q)
        BY <3>1, <3>3 DEF CountAdmins, accounts
      <4>2. Admins' = Admins
        BY <4>1 DEF Admins
      <4>. QED BY <4>1, <4>2, AnotherAdmin
    <3>. QED BY <3>1, <3>2, <3>3
  <2>. QED BY <2>1, <2>2, <2>3 DEF CountInv
<1>2. CASE CreateViewer
  <2>1. Admins # {} /\ Admins \subseteq Admins'
    BY <1>2 DEF CreateViewer, Admins, RowsType
  <2>. QED BY <1>2, <2>1 DEF CreateViewer, CountInv, AdminRemains
<1>3. CASE AddMember \/ RemoveMember \/ UNCHANGED vars
  BY <1>3 DEF AddMember, RemoveMember, vars, CountInv, AdminRemains, Admins, Rows
<1>4. ASSUME NEW r \in Replicas, Restart(r) PROVE CountInv' /\ AdminRemains'
  BY <1>4 DEF Restart, Idle, CountInv, AdminRemains, Admins, Rows
<1>. QED BY <1>1, <1>2, <1>3, <1>4 DEF Next, RequestStep

\* An administrator is on the team, was taken off it or is about to join.
Placed(u) == u \in team \cup expelled \/ Joining(u)
Leaves(q) == req[q].pc = "sync" /\ req[q].then = "leave"

LEMMA PlacedStep ==
  ASSUME TypedInv, TeamInv, NEW q \in Requests, RequestStep(q), faults' = 0,
         NEW u \in Admins' \ Designated
  PROVE  Placed(u)'
<1>. USE DEF TypedInv, accounts, bounds
<1>1. faults = 0 /\ ~Fault(q)
  <2>1. ~Fault(q)
    BY DEF Fault, RowsType
  <2>. QED BY <2>1 DEF RequestStep, Step, Patch, Delete, CreateAdmin, Setup, SsoLogin, ScimRead,
         ReadTarget, CountAdmins, Apply, Sync, Create, Promote, ScimApply
<1>2. u \in Users
  BY DEF Admins
<1>3. CASE u \in Admins
  <2>1. Placed(u)
    BY <1>1, <1>3 DEF TeamInv, Placed
  <2>2. CASE ~Sync(q)
    <3>1. team' = team /\ expelled' = expelled /\ req[q].pc # "sync"
      BY <1>1, <2>2 DEF RequestStep, Step, Patch, Delete, CreateAdmin, Setup, SsoLogin, ScimRead,
        Start, ReadTarget, CountAdmins, Apply, Create, Promote, ScimApply
    <3>2. Joining(u) => Joining(u)'
      BY <3>1, OthersStay DEF Joining
    <3>. QED BY <2>1, <3>1, <3>2 DEF Placed
  <2>3. CASE Sync(q)
    <3>1. req[q].pc = "sync" /\ SyncTeam(q) /\ UNCHANGED role
      BY <2>3 DEF Sync
    <3>2. CASE req[q].then = "join"
      <4>1. team \cup expelled \cup {req[q].target} \subseteq team' \cup expelled'
        BY <3>1, <3>2 DEF SyncTeam
      <4>2. Joining(u) /\ u # req[q].target => Joining(u)'
        BY OthersStay DEF Joining
      <4>. QED BY <2>1, <4>1, <4>2 DEF Placed
    <3>3. CASE req[q].then # "join"
      <4>1. Leaves(q)
        BY <1>1, <2>3, <3>1, <3>3 DEF TeamInv, Queues, RequestRecord, Leaves, AimInv, Aim
      <4>2. u # req[q].target
        BY <1>3, <4>1 DEF TeamInv, Leaves
      <4>3. team' = team \ {req[q].target} /\ expelled' = expelled
        BY <3>1, <3>3 DEF SyncTeam
      <4>4. Joining(u) => Joining(u)'
        BY <3>3, OthersStay DEF Joining
      <4>. QED BY <2>1, <4>2, <4>3, <4>4 DEF Placed
    <3>. QED BY <3>2, <3>3
  <2>. QED BY <2>2, <2>3
<1>4. CASE u \notin Admins
  <2>1. u \notin Designated /\ role' # role
    BY <1>4 DEF Admins
  <2>2. \/ req[q].pc = "create" /\ u = req[q].target /\ role[u] = "absent"
        \/ req[q].pc = "apply" /\ req[q].role = "admin" /\ u = req[q].target
    BY <1>4, <2>1, AdminsStep
  <2>3. CASE req[q].pc = "create"
    <3>1. Create(q) /\ role[req[q].target] = "absent"
      BY <1>1, <2>1, <2>2, <2>3 DEF RequestStep, Step, Patch, Delete, CreateAdmin, Setup,
        SsoLogin, ScimRead, Start, ReadTarget, CountAdmins, Apply, Sync, Promote, ScimApply
    <3>2. req'[q] = [req[q] EXCEPT !.pc = "sync", !.then = "join"]
      BY <3>1 DEF Create, Queues
    <3>3. req'[q].pc = "sync" /\ req'[q].then = "join" /\ req'[q].target = req[q].target
      BY <3>2 DEF Queues, RequestRecord
    <3>. QED BY <2>2, <2>3, <3>3 DEF Placed, Joining
  <2>4. CASE req[q].pc = "apply" /\ req[q].role = "admin"
    <3>1. Apply(q)
      BY <1>1, <2>1, <2>4 DEF RequestStep, Step, Patch, Delete, CreateAdmin, Setup,
        SsoLogin, ScimRead, Start, ReadTarget, CountAdmins, Create, Sync, Promote, ScimApply
    <3>2. req[q].then = "join"
      BY <2>4 DEF AimInv, Aim
    <3>3. req'[q] = [req[q] EXCEPT !.pc = "sync"]
      BY <3>1, <3>2 DEF Apply, Goto, Queues
    <3>4. req'[q].pc = "sync" /\ req'[q].then = "join" /\ req'[q].target = req[q].target
      BY <3>2, <3>3 DEF Queues, RequestRecord
    <3>. QED BY <2>2, <2>4, <3>4 DEF Placed, Joining
  <2>. QED BY <2>2, <2>3, <2>4
<1>. QED BY <1>3, <1>4

LEMMA LeavesStep ==
  ASSUME OneReplica, TypedInv, TeamInv, NEW q \in Requests, RequestStep(q),
         NEW p \in Requests, Leaves(p)'
  PROVE  role'[req'[p].target] # "absent" /\ req'[p].target \notin Admins' \ Designated
<1>. USE DEF TypedInv, accounts, bounds
<1>1. CASE req'[p] = req[p]
  <2>1. Leaves(p)
    BY <1>1 DEF Leaves
  <2>2. req[p].target \in Users /\ role[req[p].target] # "absent"
        /\ req[p].target \notin Admins \ Designated
    BY <2>1 DEF TeamInv, Leaves, AimInv, Aim
  <2>3. role'[req[p].target] # "absent"
    <3>1. [Next]_vars
      BY DEF Next, RequestStep
    <3>. QED BY <2>2, <3>1, RowsStay
  <2>4. req[q].pc # "apply"
    BY <2>1, OneDecided DEF Decided, Leaves
  <2>5. req[p].target \notin Admins' \ Designated
    BY <2>2, <2>4, AdminsStep
  <2>. QED BY <1>1, <2>3, <2>5
<1>2. CASE req'[p] # req[p]
  <2>1. p = q
    BY <1>2, OthersStay
  <2>2. ~Finish(q)
    BY <2>1 DEF Leaves, Finish, Idle, Queues
  <2>3. ~(Patch(q) \/ Delete(q) \/ CreateAdmin(q) \/ Setup(q) \/ ScimRead(q))
    BY <2>1, Starts, StartStep DEF StartsAs, Unlocked, Leaves
  <2>4. ~SsoLogin(q)
    <3>1. \A u \in Users : ~Start(q, "create", u, "admin", "keep")
                          /\ ~Start(q, "promote", u, "admin", "keep")
      BY <2>1, StartStep DEF Unlocked, Leaves
    <3>2. \A u \in Users :
            ~(req' = [req EXCEPT ![q] = [Idle EXCEPT !.pc = "sync", !.target = u,
                                                    !.then = "join"]])
      BY <2>1 DEF Idle, Queues, Leaves
    <3>. QED BY <3>1, <3>2 DEF SsoLogin
  <2>5. ~(ReadTarget(q) \/ CountAdmins(q) \/ Create(q) \/ Promote(q))
    BY <2>1, <2>2 DEF Leaves, ReadTarget, CountAdmins, Create, Promote, Goto, Queues,
      RequestRecord
  <2>6. Apply(q) /\ Goto(q, "sync")
    BY <2>2, <2>3, <2>4, <2>5 DEF RequestStep, Step, Sync, ScimApply, Fault, Apply
  <2>7. req'[q] = [req[q] EXCEPT !.pc = "sync"]
    BY <2>6 DEF Goto, Queues
  <2>8. req'[q].target = req[q].target /\ req[q].then = "leave" /\ req[q].pc = "apply"
    BY <2>1, <2>6, <2>7 DEF Queues, RequestRecord, Leaves, Apply
  <2>9. /\ req[q].target \in Users
        /\ role[req[q].target] # "absent"
        /\ req[q].role = "viewer"
        /\ Aim(q)
    BY <2>8 DEF AimInv, Aim
  <2>10. role'[req[q].target] \notin {"absent", "admin"}
    BY <2>6, <2>8, <2>9, WriteStep DEF Wrote, Apply, RowsType, Rows
  <2>. QED BY <2>1, <2>8, <2>10 DEF Admins
<1>. QED BY <1>1, <1>2

LEMMA TeamInvStep == OneReplica /\ TypedInv /\ TeamInv /\ [Next]_vars => TeamInv'
<1>. SUFFICES ASSUME OneReplica, TypedInv, TeamInv, [Next]_vars PROVE TeamInv'
  OBVIOUS
<1>. USE DEF TypedInv
<1>1. ASSUME NEW q \in Requests, RequestStep(q) PROVE TeamInv'
  BY <1>1, PlacedStep, LeavesStep DEF TeamInv, Placed, Leaves
<1>2. CASE CreateViewer
  <2>1. UNCHANGED <<team, expelled, req, faults>>
    BY <1>2 DEF CreateViewer, bounds
  <2>2. Admins' = Admins
    BY <1>2 DEF CreateViewer, Admins, RowsType
  <2>3. \A q \in Requests : Leaves(q) => req[q].target \in Users
    BY DEF AimInv, Aim, Leaves
  <2>. QED BY <2>1, <2>2, <2>3, RowsStay DEF TeamInv, Joining, Leaves
<1>3. CASE AddMember \/ RemoveMember
  <2>1. UNCHANGED <<role, req, faults>> /\ team \cup expelled \subseteq team' \cup expelled'
    BY <1>3 DEF AddMember, RemoveMember, bounds
  <2>. QED BY <2>1 DEF TeamInv, Joining, Admins
<1>4. CASE UNCHANGED vars
  BY <1>4 DEF vars, TeamInv, Joining, Admins
<1>5. ASSUME NEW r \in Replicas, Restart(r) PROVE TeamInv'
  <2>1. /\ UNCHANGED role
        /\ \A q \in Requests : req'[q] = Idle \/ req'[q] = req[q]
    BY <1>5 DEF Restart
  <2>2. faults' = 0 => Admins \subseteq team'
    BY <1>5 DEF Restart, RowsType
  <2>. QED BY <2>1, <2>2 DEF TeamInv, Admins, Idle
<1>. QED BY <1>1, <1>2, <1>3, <1>4, <1>5 DEF Next, RequestStep

-----------------------------------------------------------------------------
(* The theorems.                                                           *)

LEMMA InitTyped == Init => TypedInv
BY DEF Init, TypedInv, Queues, RowsType, AimInv, Aim, Idle, RequestRecord, ChainInv, HolderInv

LEMMA TypedStep == TypedInv /\ [Next]_vars => TypedInv'
BY RowsStep, QueuesStep, AimStep DEF TypedInv

\* Whatever fails or restarts, everybody in the chain of a lock waits for the
\* one before him, and who goes by what he has counted holds the lock.
THEOREM Locking == Spec => []LockInv
<1>1. TypedInv => LockInv
  BY LockInvParts DEF TypedInv
<1>. QED BY <1>1, InitTyped, TypedStep, PTL DEF Spec

\* With one replica, whoever is about to take an administrator away leaves
\* another, and every administrator is on the team or about to be put on it.
THEOREM Invariance == ASSUME OneReplica PROVE Spec => []IndInv
<1>. DEFINE Inv == TypedInv /\ CountInv /\ AdminRemains /\ TeamInv
<1>1. Init => Inv
  <2>1. Init => CountInv /\ AdminRemains /\ TeamInv
    BY DEF Init, Idle, CountInv, AdminRemains, TeamInv, Rows, Admins
  <2>. QED BY <2>1, InitTyped
<1>2. Inv /\ [Next]_vars => Inv'
  BY TypedStep, CountStep, TeamInvStep
<1>3. Inv => IndInv
  BY LockInvParts DEF TypedInv, IndInv
<1>. QED BY <1>1, <1>2, <1>3, PTL DEF Spec

\* With one replica the accounts never lose their last administrator, for any
\* number of requests, faults and restarts.
THEOREM AntiLockout == ASSUME OneReplica PROVE Spec => []AdminRemains
<1>1. IndInv => AdminRemains
  BY DEF IndInv
<1>. QED BY <1>1, Invariance, PTL

\* With one replica every administrator ends up on the console's team.
THEOREM TeamFollows == ASSUME OneReplica PROVE Spec => []AdminsOnTeam
<1>1. IndInv => AdminsOnTeam
  BY DEF IndInv, TeamInv, AdminsOnTeam, Joining
<1>. QED BY <1>1, Invariance, PTL
=============================================================================
