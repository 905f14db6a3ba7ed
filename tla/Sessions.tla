------------------------------ MODULE Sessions ------------------------------
(***************************************************************************)
(* Console sessions of one account: signed tokens, their rows in sessions, *)
(* the denylist token_revocations (auth/plugin.ts, auth.routes.ts).  Every *)
(* await is a step, so requests interleave between their reads and writes. *)
(*                                                                         *)
(* Most writes here swallow their error, and a process may stop anywhere.  *)
(***************************************************************************)
EXTENDS Naturals, FiniteSets

CONSTANTS
  Jtis,            \* tokens that can be issued
  Requests         \* requests at a time

VARIABLES
  issued,          \* the tokens issued
  row,             \* row[j]: "none", "live" or "revoked"
  denied,          \* the jtis in token_revocations
  idle,            \* the tokens last seen longer ago than the idle time-out
  touching,        \* the tokens whose last-seen time is about to be refreshed
  active,          \* the account is enabled
  req,             \* req[p]: the request under way
  signedOut,       \* history: the tokens somebody was told are signed out
  upsets           \* writes and reads that failed, processes that stopped

sessionVars == <<issued, row, denied, idle, touching, active, req, signedOut, upsets>>

Ops == {"call", "mcp", "logout", "revoke", "others", "refresh"}
Checks == {"denied", "row", "denyIdle", "revokeIdle", "user"}
Handling == {"admitted", "deny", "revoke", "select", "revokeAll", "denyAll", "issue"}

NoRequest == [pc |-> "none"]
Running(p) == req[p] # NoRequest

SessionsTypeOK ==
  /\ issued \subseteq Jtis /\ denied \subseteq Jtis
  /\ row \in [Jtis -> {"none", "live", "revoked"}]
  /\ idle \subseteq Jtis /\ touching \subseteq Jtis /\ signedOut \subseteq issued
  /\ active \in BOOLEAN /\ upsets \in Nat
  /\ \A p \in Requests : Running(p) =>
       /\ req[p].op \in Ops /\ req[p].pc \in Checks \cup Handling
       /\ req[p].j \in issued /\ req[p].target \in issued
       /\ req[p].known \subseteq issued /\ req[p].left \subseteq req[p].list

\* The sessions of S are open.
SessionsInit(S) ==
  /\ issued = S /\ denied = {} /\ idle = {} /\ touching = {} /\ signedOut = {}
  /\ row = [j \in Jtis |-> IF j \in S THEN "live" ELSE "none"]
  /\ active = TRUE
  /\ req = [p \in Requests |-> NoRequest]
  /\ upsets = 0

-----------------------------------------------------------------------------
(* Steps of a request.                                                     *)

At(p, pc) == Running(p) /\ req[p].pc = pc
Goto(p, pc) == req' = [req EXCEPT ![p].pc = pc]
End(p) == req' = [req EXCEPT ![p] = NoRequest]

\* A write that may be lost, its error swallowed.
Denied(j) ==
  \/ denied' = denied \cup {j} /\ UNCHANGED upsets
  \/ UNCHANGED denied /\ upsets' = upsets + 1

RowSet(j, v) ==
  \/ row' = [row EXCEPT ![j] = v] /\ UNCHANGED upsets
  \/ UNCHANGED row /\ upsets' = upsets + 1

\* SessionsRepo.revoke updates the row there is.
RowRevoked(j) == IF row[j] = "none" THEN UNCHANGED <<row, upsets>> ELSE RowSet(j, "revoked")

\* issueSession: a token, and its row if the insert works.
Issue(j) ==
  /\ j \in Jtis \ issued
  /\ issued' = issued \cup {j}
  /\ RowSet(j, "live")

\* Nobody else is at work on signing j out.
Settled(j) == \A q \in Requests : Running(q) => j \notin req[q].list

\* out and off: what held of the token and the account when it started.
Start(p, op, j, target) ==
  /\ ~Running(p)
  /\ op \in Ops /\ j \in issued /\ target \in issued
  /\ req' = [req EXCEPT ![p] =
       [op |-> op, pc |-> "denied", j |-> j, target |-> target, left |-> {}, list |-> {},
        known |-> { i \in issued : row[i] # "none" } \ {j},
        out |-> j \in signedOut /\ Settled(j), off |-> ~active]]
  /\ UNCHANGED <<issued, row, denied, idle, touching, active, signedOut, upsets>>

\* isRevoked; a failing read denies.
CheckDenied(p) ==
  /\ At(p, "denied")
  /\ \/ /\ IF req[p].j \in denied THEN End(p)
           ELSE Goto(p, IF req[p].op = "mcp" THEN "user" ELSE "row")
        /\ UNCHANGED upsets
     \/ End(p) /\ upsets' = upsets + 1
  /\ UNCHANGED <<issued, row, denied, idle, touching, active, signedOut>>

\* The row, if there is one; a failing read is taken for no row.
CheckRow(p) ==
  /\ At(p, "row")
  /\ LET j == req[p].j IN
     \/ row[j] = "revoked" /\ End(p) /\ UNCHANGED <<touching, upsets>>
     \/ row[j] = "live" /\ j \in idle /\ Goto(p, "denyIdle") /\ UNCHANGED <<touching, upsets>>
     \/ /\ row[j] = "live" /\ j \notin idle /\ Goto(p, "user")
        /\ touching' \in {touching, touching \cup {j}}
        /\ UNCHANGED upsets
     \/ row[j] = "none" /\ Goto(p, "user") /\ UNCHANGED <<touching, upsets>>
     \/ row[j] # "none" /\ Goto(p, "user") /\ upsets' = upsets + 1 /\ UNCHANGED touching
  /\ UNCHANGED <<issued, row, denied, idle, active, signedOut>>

DenyIdle(p) ==
  /\ At(p, "denyIdle")
  /\ Denied(req[p].j)
  /\ Goto(p, "revokeIdle")
  /\ UNCHANGED <<issued, row, idle, touching, active, signedOut>>

\* 'session_idle', the client is told.
RevokeIdle(p) ==
  /\ At(p, "revokeIdle")
  /\ RowRevoked(req[p].j)
  /\ signedOut' = signedOut \cup {req[p].j}
  /\ End(p)
  /\ UNCHANGED <<issued, denied, idle, touching, active>>

\* What follows the authentication of a request.
FirstStep(op) ==
  CASE op \in {"call", "mcp"} -> "admitted"
    [] op \in {"logout", "revoke"} -> "deny"
    [] op = "others" -> "select"
    [] op = "refresh" -> "issue"

CheckUser(p) ==
  /\ At(p, "user")
  /\ IF active THEN Goto(p, FirstStep(req[p].op)) ELSE End(p)
  /\ UNCHANGED <<issued, row, denied, idle, touching, active, signedOut, upsets>>

Serve(p) ==
  /\ At(p, "admitted")
  /\ End(p)
  /\ UNCHANGED <<issued, row, denied, idle, touching, active, signedOut, upsets>>

\* The other sessions known when the request came are declared out.
AllOut(p) ==
  /\ signedOut' = signedOut \cup req[p].known
  /\ End(p)

\* A session that is not in the list cannot be revoked by hand.
Deny(p) ==
  /\ At(p, "deny")
  /\ IF req[p].op = "revoke" /\ row[req[p].target] = "none"
     THEN End(p) /\ UNCHANGED <<denied, upsets>>
     ELSE Denied(req[p].target) /\ Goto(p, "revoke")
  /\ UNCHANGED <<issued, row, idle, touching, active, signedOut>>

Revoke(p) ==
  /\ At(p, "revoke")
  /\ RowRevoked(req[p].target)
  /\ signedOut' = signedOut \cup {req[p].target}
  /\ End(p)
  /\ UNCHANGED <<issued, denied, idle, touching, active>>

\* revoke-others: the live rows but the caller's, each revoked, then each denied.
Select(p) ==
  /\ At(p, "select")
  /\ LET live == { j \in issued : row[j] = "live" } \ {req[p].j} IN
       IF live = {} THEN AllOut(p)
       ELSE /\ req' = [req EXCEPT ![p] =
                 [@ EXCEPT !.pc = "revokeAll", !.left = live, !.list = live]]
            /\ UNCHANGED signedOut
  /\ UNCHANGED <<issued, row, denied, idle, touching, active, upsets>>

RevokeNext(p) ==
  /\ At(p, "revokeAll")
  /\ \E j \in req[p].left :
       /\ RowRevoked(j)
       /\ req' = [req EXCEPT ![p] =
            IF req[p].left = {j}
            THEN [@ EXCEPT !.pc = "denyAll", !.left = req[p].list]
            ELSE [@ EXCEPT !.left = req[p].left \ {j}]]
  /\ UNCHANGED <<issued, denied, idle, touching, active, signedOut>>

\* Mutant of DenyNext: the rows are thought to be enough.
DenyNextNot(p) ==
  /\ At(p, "denyAll")
  /\ AllOut(p)
  /\ UNCHANGED <<issued, row, denied, idle, touching, active, upsets>>

DenyNext(p) ==
  /\ At(p, "denyAll")
  /\ \E j \in req[p].left :
       /\ Denied(j)
       /\ IF req[p].left = {j} THEN AllOut(p)
          ELSE req' = [req EXCEPT ![p].left = @ \ {j}] /\ UNCHANGED signedOut
  /\ UNCHANGED <<issued, row, idle, touching, active>>

\* refresh: a new token first, then the old one is signed out.
Refresh(p) ==
  /\ At(p, "issue")
  /\ IF active THEN (\E j \in Jtis : Issue(j)) /\ Goto(p, "deny")
     ELSE End(p) /\ UNCHANGED <<issued, row, upsets>>
  /\ UNCHANGED <<denied, idle, touching, active, signedOut>>

-----------------------------------------------------------------------------
(* Around the requests.                                                    *)

\* The detached update of the last-seen time.
Touch(j) ==
  /\ j \in touching
  /\ touching' = touching \ {j}
  /\ idle' = idle \ {j}
  /\ UNCHANGED <<issued, row, denied, active, req, signedOut, upsets>>

Lapse(j) ==
  /\ j \in issued \ idle
  /\ idle' = idle \cup {j}
  /\ UNCHANGED <<issued, row, denied, touching, active, req, signedOut, upsets>>

\* The process that works on a request stops.
Stop(p) ==
  /\ Running(p)
  /\ End(p)
  /\ upsets' = upsets + 1
  /\ UNCHANGED <<issued, row, denied, idle, touching, active, signedOut>>

\* An administrator disables the account.
Disable ==
  /\ active
  /\ active' = FALSE
  /\ UNCHANGED <<issued, row, denied, idle, touching, req, signedOut, upsets>>

RequestStep(p) ==
  \/ CheckDenied(p) \/ CheckRow(p) \/ DenyIdle(p) \/ RevokeIdle(p) \/ CheckUser(p)
  \/ Serve(p) \/ Deny(p) \/ Revoke(p) \/ Select(p) \/ RevokeNext(p) \/ DenyNext(p)
  \/ Refresh(p)

-----------------------------------------------------------------------------
(* Properties.                                                             *)

\* A token that somebody was told is signed out gets nothing any more, once
\* nobody is at work on it: for the console two of its safeguards must have
\* failed ("Defense in depth", auth/plugin.ts:66), for the MCP and A2A
\* endpoints, which look at the denylist alone, one.  A disabled account gets
\* nothing at all.
SignedOutStaysOut ==
  \A p \in Requests :
    Running(p) /\ req[p].pc \in Handling =>
      /\ ~req[p].off
      /\ req[p].out => upsets >= IF req[p].op = "mcp" THEN 1 ELSE 2
=============================================================================
