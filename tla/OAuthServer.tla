----------------------------- MODULE OAuthServer -----------------------------
(***************************************************************************)
(* The OAuth 2.1 authorization server (auth/oauth.service.ts): pending     *)
(* authorizations and their consent, single-use codes, rotating refresh    *)
(* tokens and the deletion of the account behind them, on any number of    *)
(* replicas over one database.                                             *)
(*                                                                         *)
(* Codes and tokens are random, so every row has an id of its own; hashes, *)
(* PKCE and the comparison of the redirect URI are one bit of a request.   *)
(***************************************************************************)
EXTENDS Naturals, FiniteSets

CONSTANTS
  Users,
  Pendings,    \* ids of oauth_pending rows
  Codes,       \* ids of oauth_auth_codes rows
  Tokens,      \* ids of oauth_refresh_tokens rows
  Requests,    \* requests under way, at most one per element, on any replica
  None,        \* no row, no user
  MaxClients,  \* MAX_CLIENTS
  MaxFaults    \* bound: failed database statements

ASSUME OAuthConstants ==
  /\ None \notin Users \cup Pendings \cup Codes \cup Tokens
  /\ IsFiniteSet(Requests)
  /\ MaxClients \in Nat \ {0} /\ MaxFaults \in Nat

VARIABLES
  account,     \* account[u]: "active", "disabled" or "gone"
  pending,     \* pending[p]
  decided,     \* the pending requests a decision was answered for (history)
  code,        \* code[c]: the row, from the consent p of the user u
  token,       \* token[k]: the row, descended from the code c
  clients,     \* SELECT COUNT(*) FROM oauth_clients
  req,         \* req[q]: the request q
  faults

rows == <<account, pending, decided, code, token, clients>>
vars == <<account, pending, decided, code, token, clients, req, faults>>

\* A row is there, has run out but is still there, or is gone.
RowStates == {"absent", "live", "expired", "gone"}
NoCode == [st |-> "absent", p |-> None, u |-> None]
NoToken == [st |-> "absent", c |-> None]
Idle == [pc |-> "idle", p |-> None, u |-> None, c |-> None, k |-> None]

Pcs == {"idle", "drop", "mint", "deny", "take", "claim", "user", "issue",
        "revoke", "register"}

CodeRow == [st : RowStates, p : Pendings \cup {None}, u : Users \cup {None}]
TokenRow == [st : RowStates, c : Codes \cup {None}]
Request == [pc : Pcs, p : Pendings \cup {None}, u : Users \cup {None},
            c : Codes \cup {None}, k : Tokens \cup {None}]

TypeOK ==
  /\ account \in [Users -> {"active", "disabled", "gone"}]
  /\ pending \in [Pendings -> RowStates]
  /\ decided \subseteq Pendings
  /\ code \in [Codes -> CodeRow]
  /\ token \in [Tokens -> TokenRow]
  /\ clients \in Nat
  /\ req \in [Requests -> Request]
  /\ faults \in Nat

Init ==
  /\ account = [u \in Users |-> "active"]
  /\ pending = [p \in Pendings |-> "absent"]
  /\ decided = {}
  /\ code = [c \in Codes |-> NoCode]
  /\ token = [k \in Tokens |-> NoToken]
  /\ clients = 0
  /\ req = [q \in Requests |-> Idle]
  /\ faults = 0

NewCodes == {c \in Codes : code[c].st = "absent"}
NewTokens == {k \in Tokens : token[k].st = "absent"}
There == {"live", "expired"}

Goto(q, pc) == req' = [req EXCEPT ![q].pc = pc]
Done(q) == req' = [req EXCEPT ![q] = Idle]

-----------------------------------------------------------------------------
(* Registration of clients: public, with an absolute cap.                  *)

UnderCap == clients < MaxClients

RegisterCheck(q) ==
  /\ req[q].pc = "idle"
  /\ UnderCap
  /\ Goto(q, "register")
  /\ UNCHANGED <<rows, faults>>

Register(q) ==
  /\ req[q].pc = "register"
  /\ clients' = clients + 1
  /\ Done(q)
  /\ UNCHANGED <<account, pending, decided, code, token, faults>>

-----------------------------------------------------------------------------
(* Authorization and consent.                                              *)

StartAuthorize ==
  /\ \E p \in Pendings : pending[p] = "absent"
  /\ LET p == CHOOSE x \in Pendings : pending[x] = "absent"
     IN pending' = [pending EXCEPT ![p] = "live"]
  /\ UNCHANGED <<account, decided, code, token, clients, req, faults>>

\* approve and deny read the row, which has to be live and of this browser.
Consent(q) ==
  /\ req[q].pc = "idle"
  /\ \E p \in Pendings, u \in Users, pc \in {"drop", "deny"} :
       /\ pending[p] = "live"
       /\ account[u] = "active"
       /\ req' = [req EXCEPT ![q] = [Idle EXCEPT !.pc = pc, !.p = p, !.u = u]]
  /\ UNCHANGED <<rows, faults>>

\* Mutant of DropPending: the row is left to the garbage collector.
DropPendingLater(p) == UNCHANGED pending

\* DELETE FROM oauth_pending, whether or not the row still is there.
DropPending(p) == pending' = [pending EXCEPT ![p] = "gone"]

ApproveDrop(q) ==
  /\ req[q].pc = "drop"
  /\ DropPending(req[q].p)
  /\ Goto(q, "mint")
  /\ UNCHANGED <<account, decided, code, token, clients, faults>>

InsertCode(q) ==
  LET c == CHOOSE x \in NewCodes : TRUE
  IN code' = [code EXCEPT ![c] = [st |-> "live", p |-> req[q].p, u |-> req[q].u]]

ApproveMint(q) ==
  /\ req[q].pc = "mint" /\ NewCodes # {}
  /\ InsertCode(q)
  /\ decided' = decided \cup {req[q].p}
  /\ Done(q)
  /\ UNCHANGED <<account, pending, token, clients, faults>>

Deny(q) ==
  /\ req[q].pc = "deny"
  /\ DropPending(req[q].p)
  /\ decided' = decided \cup {req[q].p}
  /\ Done(q)
  /\ UNCHANGED <<account, code, token, clients, faults>>

-----------------------------------------------------------------------------
(* The token endpoint.                                                     *)

\* takeCode and claimRefresh read the row ...
ReadCode(q) ==
  /\ req[q].pc = "idle"
  /\ \E c \in Codes : /\ code[c].st \in There
                      /\ req' = [req EXCEPT ![q] = [Idle EXCEPT !.pc = "take", !.c = c]]
  /\ UNCHANGED <<rows, faults>>

ReadToken(q) ==
  /\ req[q].pc = "idle"
  /\ \E k \in Tokens : /\ token[k].st \in There
                       /\ req' = [req EXCEPT ![q] =
                            [Idle EXCEPT !.pc = "claim", !.k = k, !.c = token[k].c]]
  /\ UNCHANGED <<rows, faults>>

\* Mutant of Wins: who has read the row may have it.
WinsAlways(st) == TRUE

\* ... and only the one whose DELETE removed it goes on.
Wins(st) == st \in There

\* A code or token that has run out, or comes with the wrong verifier,
\* redirect URI or client, is spent all the same.
Verified(q, st) ==
  IF Wins(st)
  THEN Done(q) \/ (st # "expired" /\ Goto(q, "user"))
  ELSE Done(q)

TakeCode(q) ==
  /\ req[q].pc = "take"
  /\ code' = [code EXCEPT ![req[q].c].st = "gone"]
  /\ Verified(q, code[req[q].c].st)
  /\ UNCHANGED <<account, pending, decided, token, clients, faults>>

ClaimToken(q) ==
  /\ req[q].pc = "claim"
  /\ token' = [token EXCEPT ![req[q].k].st = "gone"]
  /\ Verified(q, token[req[q].k].st)
  /\ UNCHANGED <<account, pending, decided, code, clients, faults>>

\* Mutant of MayHaveTokens: the account is not read again.
MayHaveTokensAlways(u) == TRUE

MayHaveTokens(u) == account[u] = "active"

\* issueTokens: "the single choke point".
CheckUser(q) ==
  /\ req[q].pc = "user"
  /\ IF MayHaveTokens(code[req[q].c].u) THEN Goto(q, "issue") ELSE Done(q)
  /\ UNCHANGED <<rows, faults>>

InsertToken(q) ==
  LET k == CHOOSE x \in NewTokens : TRUE
  IN token' = [token EXCEPT ![k] = [st |-> "live", c |-> req[q].c]]

Issue(q) ==
  /\ req[q].pc = "issue" /\ NewTokens # {}
  /\ InsertToken(q)
  /\ Done(q)
  /\ UNCHANGED <<account, pending, decided, code, clients, faults>>

-----------------------------------------------------------------------------
(* The accounts (routes/users.routes.ts) and the passing of time.          *)

SetDisabled(u) ==
  /\ account[u] # "gone"
  /\ account' = [account EXCEPT ![u] = IF @ = "active" THEN "disabled" ELSE "active"]
  /\ UNCHANGED <<pending, decided, code, token, clients, req, faults>>

DeleteUser(q) ==
  /\ req[q].pc = "idle"
  /\ \E u \in Users :
       /\ account[u] # "gone"
       /\ account' = [account EXCEPT ![u] = "gone"]
       /\ req' = [req EXCEPT ![q] = [Idle EXCEPT !.pc = "revoke", !.u = u]]
  /\ UNCHANGED <<pending, decided, code, token, clients, faults>>

\* "Revoke the user's OAuth grants": the refresh tokens, not the codes.
Revoke(q) ==
  /\ req[q].pc = "revoke"
  /\ token' = [k \in Tokens |->
       IF token[k].st \in There /\ code[token[k].c].u = req[q].u
       THEN [token[k] EXCEPT !.st = "gone"] ELSE token[k]]
  /\ Done(q)
  /\ UNCHANGED <<account, pending, decided, code, clients, faults>>

\* A row runs out.
Expire ==
  /\ \/ /\ \E p \in Pendings : pending[p] = "live"
                              /\ pending' = [pending EXCEPT ![p] = "expired"]
        /\ UNCHANGED <<code, token>>
     \/ /\ \E c \in Codes : code[c].st = "live"
                            /\ code' = [code EXCEPT ![c].st = "expired"]
        /\ UNCHANGED <<pending, token>>
     \/ /\ \E k \in Tokens : token[k].st = "live"
                             /\ token' = [token EXCEPT ![k].st = "expired"]
        /\ UNCHANGED <<pending, code>>
  /\ UNCHANGED <<account, decided, clients, req, faults>>

\* The garbage collector, one statement of it at a time: the next may fail.
Gc ==
  /\ \/ /\ pending' = [p \in Pendings |-> IF pending[p] = "expired" THEN "gone"
                                          ELSE pending[p]]
        /\ UNCHANGED <<code, token>>
     \/ /\ code' = [c \in Codes |-> IF code[c].st = "expired"
                                    THEN [code[c] EXCEPT !.st = "gone"] ELSE code[c]]
        /\ UNCHANGED <<pending, token>>
     \/ /\ token' = [k \in Tokens |-> IF token[k].st = "expired"
                                      THEN [token[k] EXCEPT !.st = "gone"] ELSE token[k]]
        /\ UNCHANGED <<pending, code>>
  /\ UNCHANGED <<account, decided, clients, req, faults>>

\* The request's statement fails, before or after the database applied it,
\* or its process dies: what it has read or claimed is lost with it.
Fault(q) ==
  /\ faults < MaxFaults
  /\ faults' = faults + 1
  /\ \/ req[q].pc # "idle" /\ UNCHANGED <<pending, code, token, clients>>
     \/ /\ req[q].pc \in {"drop", "deny"} /\ DropPending(req[q].p)
        /\ UNCHANGED <<code, token, clients>>
     \/ /\ req[q].pc = "mint" /\ NewCodes # {} /\ InsertCode(q)
        /\ UNCHANGED <<pending, token, clients>>
     \/ /\ req[q].pc = "take"
        /\ code' = [code EXCEPT ![req[q].c].st = "gone"]
        /\ UNCHANGED <<pending, token, clients>>
     \/ /\ req[q].pc = "claim"
        /\ token' = [token EXCEPT ![req[q].k].st = "gone"]
        /\ UNCHANGED <<pending, code, clients>>
     \/ /\ req[q].pc = "issue" /\ NewTokens # {} /\ InsertToken(q)
        /\ UNCHANGED <<pending, code, clients>>
     \/ /\ req[q].pc = "register" /\ clients' = clients + 1
        /\ UNCHANGED <<pending, code, token>>
  /\ Done(q)
  /\ UNCHANGED <<account, decided>>

Next ==
  \/ StartAuthorize \/ Expire \/ Gc
  \/ \E q \in Requests :
       \/ RegisterCheck(q) \/ Register(q)
       \/ Consent(q) \/ ApproveDrop(q) \/ ApproveMint(q) \/ Deny(q)
       \/ ReadCode(q) \/ TakeCode(q)
       \/ ReadToken(q) \/ ClaimToken(q)
       \/ CheckUser(q) \/ Issue(q)
       \/ DeleteUser(q) \/ Revoke(q)
       \/ Fault(q)
  \/ \E u \in Users : SetDisabled(u)

Spec == Init /\ [][Next]_vars

-----------------------------------------------------------------------------
(* Properties.                                                             *)

\* What an approval is worth at the moment: its code, the refresh token the
\* code was exchanged for, or a request between the two.
Holding(q, c) == req[q].pc \in {"user", "issue"} /\ req[q].c = c
Bearers(c) ==
  {<<"code", x>> : x \in {y \in {c} : code[y].st \in There}}
    \cup {<<"token", k>> : k \in {y \in Tokens : token[y].st \in There /\ token[y].c = c}}
    \cup {<<"request", q>> : q \in {y \in Requests : Holding(y, c)}}

\* No code is worth two things at a time.
NoFork == \A c \in Codes : \A x, y \in Bearers(c) : x = y

\* The codes that were ever given out, and what is left of each.
GivenOut == {c \in Codes : code[c].st # "absent"}
AllBearers == [c \in Codes |-> Bearers(c)]
Abstract == INSTANCE SingleUse WITH begun <- GivenOut, bearers <- AllBearers

\* Codes and tokens are single-use and rotation never forks: whoever redeems
\* them at the same time and wherever it fails, what a code is worth passes
\* from one bearer to the next, and what is lost never comes back
\* (oauth.service.ts:299, :314).
ImplementsSingleUse == Abstract!SUSpec

\* Why: a claim leaves the row it has won behind it, and a token is there
\* only because its code was spent.
Claim(q) ==
  /\ req[q].pc \in {"drop", "mint", "deny"} => req[q].p \in Pendings /\ req[q].u \in Users
  /\ req[q].pc = "take" => req[q].c \in Codes /\ code[req[q].c].st # "absent"
  /\ req[q].pc = "claim" => /\ req[q].k \in Tokens
                            /\ token[req[q].k].st # "absent"
                            /\ token[req[q].k].c = req[q].c
  /\ req[q].pc \in {"user", "issue"} => req[q].c \in Codes /\ code[req[q].c].st = "gone"
Issued(k) ==
  token[k].st # "absent" => token[k].c \in Codes /\ code[token[k].c].st = "gone"
Claims ==
  /\ \A q \in Requests : Claim(q)
  /\ \A k \in Tokens : Issued(k)

OneBearer ==
  /\ \A k, l \in Tokens :
       token[k].st \in There /\ token[l].st \in There /\ token[k].c = token[l].c
         => k = l
  /\ \A q \in Requests, c \in Codes : Holding(q, c) =>
       /\ \A r \in Requests : Holding(r, c) => r = q
       /\ \A k \in Tokens : token[k].st \in There => token[k].c # c

IndInv == TypeOK /\ Claims /\ OneBearer

\* Once a decision was answered and no other is under way, no more codes
\* come of that consent.
UnderDecision(p) == \E q \in Requests : req[q].p = p
CodesOf(p) == {c \in Codes : code[c].p = p}
DecisionIsFinal ==
  \A p \in Pendings : \A some \in SUBSET Codes :
    [](p \in decided /\ ~UnderDecision(p) /\ CodesOf(p) = some
         => [](CodesOf(p) = some))

\* Once an account is deleted and nobody has its tokens in his hands, it gets
\* none any more, though its codes and what was being rotated outlive it
\* (oauth.service.ts:324, users.routes.ts:85).
Issuing(u) == \E q \in Requests : req[q].pc = "issue" /\ code[req[q].c].u = u
NothingAfterDeletion ==
  \A u \in Users :
    [](account[u] = "gone" /\ ~Issuing(u) => []~Issuing(u))

\* The cap is overshot by those who counted together, and by no more.
Counted == {q \in Requests : req[q].pc = "register"}
CapOvershoot == clients + Cardinality(Counted) < MaxClients + Cardinality(Requests)
=============================================================================
