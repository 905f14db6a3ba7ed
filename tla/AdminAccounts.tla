---------------------------- MODULE AdminAccounts ----------------------------
(***************************************************************************)
(* Accounts and the Platform Administrator Team: the console's requests    *)
(* (routes/users.routes.ts, routes/teams.routes.ts) with their per-process *)
(* lock, the setup wizard (auth/auth.service.ts), SSO logins               *)
(* (auth/sso.service.ts) and the SCIM directory (routes/scim.routes.ts),   *)
(* which write the same rows without that lock.                            *)
(*                                                                         *)
(* A row is read, counted and written by statements of their own, each     *)
(* step a request's next one.                                              *)
(***************************************************************************)
EXTENDS Naturals, Sequences, FiniteSets

CONSTANTS
  Users,       \* accounts, by row id; an id is used once
  Designated,  \* the accounts whose email is in the SSO adminEmails
  Requests,    \* requests under way, at most one per element
  Replicas,
  Nobody,      \* no account, no replica
  MaxFaults,   \* bound: failed database statements
  MaxCrashes   \* bound: process restarts

ASSUME AdminConstants ==
  /\ Designated \subseteq Users
  /\ Nobody \notin Users \cup Replicas
  /\ MaxFaults \in Nat /\ MaxCrashes \in Nat

VARIABLES
  role,        \* role[u]: users.role; "viewer" stands for editor as well
  disabled,    \* the accounts with users.disabled = 1
  team,        \* the members of the Platform Administrator Team
  expelled,    \* those somebody took off the team by hand (history)
  req,         \* req[q]: the request q
  lock,        \* lock[r]: who waits for r's adminWriteLock, holder first
  faults, crashes

accounts == <<role, disabled, team, expelled>>
bounds == <<faults, crashes>>
vars == <<role, disabled, team, expelled, req, lock, faults, crashes>>

Rows == {u \in Users : role[u] \in {"viewer", "admin"}}
Admins == {u \in Users : role[u] = "admin"}

Idle == [pc |-> "idle", at |-> Nobody, target |-> Nobody, role |-> "keep",
         active |-> "keep", then |-> "end"]

Locked == {"read", "count", "apply"}
Unlocked == {"create", "scim", "promote"}

TypeOK ==
  /\ role \in [Users -> {"absent", "viewer", "admin", "gone"}]
  /\ disabled \subseteq Users /\ team \subseteq Users /\ expelled \subseteq Users
  /\ req \in [Requests ->
       [pc : Locked \cup Unlocked \cup {"idle", "sync"},
        at : Replicas \cup {Nobody}, target : Users \cup {Nobody},
        role : {"keep", "viewer", "admin", "gone"},
        active : {"keep", "on", "off"}, then : {"end", "join", "leave"}]]
  /\ lock \in [Replicas -> Seq(Requests)]
  /\ \A r \in Replicas : \A i \in DOMAIN lock[r] : req[lock[r][i]].at = r
  /\ faults \in Nat /\ crashes \in Nat

Init ==
  /\ role = [u \in Users |-> "absent"]
  /\ disabled = {} /\ team = {} /\ expelled = {}
  /\ req = [q \in Requests |-> Idle]
  /\ lock = [r \in Replicas |-> <<>>]
  /\ faults = 0 /\ crashes = 0

-----------------------------------------------------------------------------
(* Requests and the lock.                                                  *)

Goto(q, pc) == req' = [req EXCEPT ![q].pc = pc] /\ UNCHANGED lock

\* Mutant of HoldsLock: there is no lock.
HoldsLockAlways(q) == TRUE

HoldsLock(q) ==
  \E r \in Replicas : lock[r] # <<>> /\ Head(lock[r]) = q

\* Mutant of Finish: a request that ends keeps the lock.
FinishKeeping(q) ==
  req' = [req EXCEPT ![q] = Idle] /\ UNCHANGED lock

\* The request has been answered; the next in the chain gets the lock.
Finish(q) ==
  /\ req' = [req EXCEPT ![q] = Idle]
  /\ lock' = [r \in Replicas |-> IF lock[r] # <<>> /\ Head(lock[r]) = q
                                 THEN Tail(lock[r]) ELSE lock[r]]

\* The console admits enabled administrators: users.write and teams.write
\* are permissions of the role "admin" alone.
Operators == Admins \ disabled

Start(q, pc, target, newRole, active) ==
  /\ req[q].pc = "idle"
  /\ \E r \in Replicas :
       /\ req' = [req EXCEPT ![q] =
            [pc |-> pc, at |-> r, target |-> target, role |-> newRole,
             active |-> active, then |-> "end"]]
       /\ lock' = IF pc \in Locked THEN [lock EXCEPT ![r] = Append(@, q)] ELSE lock

-----------------------------------------------------------------------------
(* PATCH and DELETE /api/users/:id.                                        *)

\* Nobody disables or deletes his own account.
Patch(q) ==
  /\ \E me \in Operators, u \in Rows, newRole \in {"keep", "viewer", "admin"},
        active \in {"keep", "on", "off"} :
       /\ newRole # "keep" \/ active # "keep"
       /\ active = "off" => u # me
       /\ Start(q, "read", u, newRole, active)
  /\ UNCHANGED <<accounts, bounds>>

Delete(q) ==
  /\ \E me \in Operators : \E u \in Rows \ {me} : Start(q, "read", u, "gone", "keep")
  /\ UNCHANGED <<accounts, bounds>>

\* Demoting, disabling or deleting an administrator.
Strips(q) ==
  /\ role[req[q].target] = "admin"
  /\ req[q].role \in {"viewer", "gone"} \/ req[q].active = "off"

\* What remains to be done on the team after the update.
TeamStep(q) ==
  IF req[q].role = "admin" THEN "join"
  ELSE IF req[q].role = "viewer" /\ role[req[q].target] = "admin" THEN "leave"
  ELSE "end"

ReadTarget(q) ==
  /\ req[q].pc = "read" /\ HoldsLock(q)
  /\ IF req[q].target \notin Rows THEN Finish(q)
     ELSE /\ req' = [req EXCEPT ![q].pc = IF Strips(q) THEN "count" ELSE "apply",
                                ![q].then = TeamStep(q)]
          /\ UNCHANGED lock
  /\ UNCHANGED <<accounts, bounds>>

LastAdmin(q) == Cardinality(Admins) <= 1

CountAdmins(q) ==
  /\ req[q].pc = "count"
  /\ IF LastAdmin(q) THEN Finish(q) ELSE Goto(q, "apply")
  /\ UNCHANGED <<accounts, bounds>>

\* The row as the request wants it, if there still is one.
WriteRow(q) ==
  LET u == req[q].target
  IN IF u \notin Rows THEN UNCHANGED <<role, disabled>>
     ELSE /\ role' = IF req[q].role = "keep" THEN role
                     ELSE [role EXCEPT ![u] = req[q].role]
          /\ disabled' = IF req[q].active = "off" THEN disabled \cup {u}
                         ELSE IF req[q].active = "on" THEN disabled \ {u}
                         ELSE disabled

Apply(q) ==
  /\ req[q].pc = "apply"
  /\ WriteRow(q)
  /\ IF req[q].then = "end" THEN Finish(q) ELSE Goto(q, "sync")
  /\ UNCHANGED <<team, expelled, bounds>>

\* Mutant of SyncTeam: promoting does not join the team.
SyncTeamLeaveOnly(q) ==
  IF req[q].then = "join" THEN UNCHANGED <<team, expelled>>
  ELSE team' = team \ {req[q].target} /\ UNCHANGED expelled

\* ensurePlatformAdminMembership or removeMember.
SyncTeam(q) ==
  IF req[q].then = "join"
  THEN team' = team \cup {req[q].target} /\ expelled' = expelled \ {req[q].target}
  ELSE team' = team \ {req[q].target} /\ UNCHANGED expelled

Sync(q) ==
  /\ req[q].pc = "sync"
  /\ SyncTeam(q)
  /\ Finish(q)
  /\ UNCHANGED <<role, disabled, bounds>>

-----------------------------------------------------------------------------
(* Accounts that come into being.                                          *)

\* POST /api/users with the role "admin".
CreateAdmin(q) ==
  /\ Operators # {}
  /\ \E u \in Users : role[u] = "absent" /\ Start(q, "create", u, "admin", "keep")
  /\ UNCHANGED <<accounts, bounds>>

\* setup and bootstrapFromEnv: the check ...
Setup(q) ==
  /\ Rows = {}
  /\ \E u \in Users : role[u] = "absent" /\ Start(q, "create", u, "admin", "keep")
  /\ UNCHANGED <<accounts, bounds>>

\* ... and the insert, which an account of that email makes fail.
Create(q) ==
  /\ req[q].pc = "create"
  /\ IF role[req[q].target] = "absent"
     THEN /\ role' = [role EXCEPT ![req[q].target] = "admin"]
          /\ req' = [req EXCEPT ![q].pc = "sync", ![q].then = "join"]
          /\ UNCHANGED lock
     ELSE Finish(q) /\ UNCHANGED role
  /\ UNCHANGED <<disabled, team, expelled, bounds>>

\* Registration, SCIM, the first SSO login and the console make others.  All
\* of them have to be configured by an administrator first.
CreateViewer ==
  /\ Admins # {}
  /\ \E u \in Users \ Designated :
       role[u] = "absent" /\ role' = [role EXCEPT ![u] = "viewer"]
  /\ UNCHANGED <<disabled, team, expelled, req, lock, bounds>>

-----------------------------------------------------------------------------
(* SSO logins and the SCIM directory, outside the lock.                    *)

\* findOrCreate reads the account: a designated one is created or promoted,
\* an administrator's membership reaffirmed.
SsoLogin(q) ==
  /\ Admins # {}
  /\ \E u \in Users :
       \/ u \in Designated /\ role[u] = "absent" /\ Start(q, "create", u, "admin", "keep")
       \/ u \in Designated /\ role[u] = "viewer" /\ Start(q, "promote", u, "admin", "keep")
       \/ /\ role[u] = "admin" /\ req[q].pc = "idle"
          /\ req' = [req EXCEPT ![q] = [Idle EXCEPT !.pc = "sync", !.target = u,
                                                    !.then = "join"]]
          /\ UNCHANGED lock
  /\ UNCHANGED <<accounts, bounds>>

Promote(q) ==
  /\ req[q].pc = "promote"
  /\ WriteRow(q)
  /\ req' = [req EXCEPT ![q].pc = "sync", ![q].then = "join"]
  /\ UNCHANGED <<team, expelled, lock, bounds>>

\* "Never an admin": of an account that was none when it was read.
ScimRead(q) ==
  /\ \E u \in Rows \ Admins, active \in {"on", "off"} :
       Start(q, "scim", u, "keep", active)
  /\ UNCHANGED <<accounts, bounds>>

ScimApply(q) ==
  /\ req[q].pc = "scim"
  /\ WriteRow(q)
  /\ Finish(q)
  /\ UNCHANGED <<team, expelled, bounds>>

-----------------------------------------------------------------------------
(* The team's own routes.                                                  *)

AddMember ==
  /\ Operators # {}
  /\ \E u \in Rows : team' = team \cup {u} /\ expelled' = expelled \ {u}
  /\ UNCHANGED <<role, disabled, req, lock, bounds>>

\* Nobody removes himself.
RemoveMember ==
  /\ \E me \in Operators : \E u \in team \ {me} :
       team' = team \ {u} /\ expelled' = expelled \cup {u}
  /\ UNCHANGED <<role, disabled, req, lock, bounds>>

-----------------------------------------------------------------------------
\* A statement fails before or after the database applied it: the request
\* throws, and the chain of the lock goes on all the same.
Fault(q) ==
  /\ faults < MaxFaults
  /\ faults' = faults + 1
  /\ \/ req[q].pc \in {"read", "count"} /\ HoldsLock(q) /\ UNCHANGED accounts
     \/ /\ req[q].pc \in {"apply", "scim", "promote"}
        /\ UNCHANGED <<role, disabled>> \/ WriteRow(q)
        /\ UNCHANGED <<team, expelled>>
     \/ /\ req[q].pc = "create"
        /\ \/ UNCHANGED role
           \/ /\ role[req[q].target] = "absent"
              /\ role' = [role EXCEPT ![req[q].target] = "admin"]
        /\ UNCHANGED <<disabled, team, expelled>>
     \/ /\ req[q].pc = "sync"
        /\ UNCHANGED <<team, expelled>> \/ SyncTeam(q)
        /\ UNCHANGED <<role, disabled>>
  /\ Finish(q)
  /\ UNCHANGED crashes

\* A replica restarts: its requests are gone, and reconcilePlatformAdmins
\* puts every administrator on the team, unless it fails.
Restart(r) ==
  /\ crashes < MaxCrashes
  /\ crashes' = crashes + 1
  /\ req' = [q \in Requests |-> IF req[q].at = r THEN Idle ELSE req[q]]
  /\ lock' = [lock EXCEPT ![r] = <<>>]
  /\ \/ /\ team' = team \cup Admins
        /\ expelled' = expelled \ Admins
        /\ UNCHANGED faults
     \/ /\ faults < MaxFaults
        /\ faults' = faults + 1
        /\ UNCHANGED <<team, expelled>>
  /\ UNCHANGED <<role, disabled>>

Step(q) ==
  \/ ReadTarget(q)
  \/ CountAdmins(q)
  \/ Apply(q)
  \/ Sync(q)
  \/ Create(q)
  \/ Promote(q)
  \/ ScimApply(q)

Next ==
  \/ \E q \in Requests :
       \/ Patch(q) \/ Delete(q) \/ CreateAdmin(q) \/ Setup(q)
       \/ SsoLogin(q) \/ ScimRead(q)
       \/ Step(q)
       \/ Fault(q)
  \/ CreateViewer \/ AddMember \/ RemoveMember
  \/ \E r \in Replicas : Restart(r)

Spec == Init /\ [][Next]_vars

\* Awaited statements return; the promise chain is first come, first served.
Fairness == \A q \in Requests : WF_vars(Step(q))
FairSpec == Spec /\ Fairness

-----------------------------------------------------------------------------
(* Properties.                                                             *)

\* With one replica, no interleaving of demotions, deletions, promotions,
\* SSO logins and SCIM calls leaves accounts without an administrator among
\* them (users.routes.ts:9-10).
AdminRemains == Rows # {} => Admins # {}

\* An administrator is on the console's team unless somebody took him off,
\* also when a process died between the update and the join.  Designated
\* accounts may miss it until their next login.
AdminsOnTeam ==
  faults = 0 =>
    \A u \in Admins \ Designated :
      (\A q \in Requests : req[q].target # u) => u \in team \cup expelled

\* Whoever waits for the lock is answered, even if those before him throw.
RequestAnswered ==
  \A q \in Requests : (req[q].pc # "idle" ~> req[q].pc = "idle")

\* users.routes.ts:48, "Anti-lockout: don't strip the last admin of admin
\* powers - by demotion OR by disabling": somebody can still administer.
OperatorRemains == Rows # {} => Operators # {}
=============================================================================
