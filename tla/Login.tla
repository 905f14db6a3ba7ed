------------------------------- MODULE Login --------------------------------
(***************************************************************************)
(* Ways into a session (auth.routes.ts, auth/rate-limit.ts,                *)
(* auth/sso.service.ts): passwords behind the brute-force limiter, OIDC    *)
(* logins whose pending state lives in the shared store, the handoff code  *)
(* that is exchanged for a token; and the sessions they issue.             *)
(***************************************************************************)
EXTENDS SharedStore, Sessions

CONSTANTS
  Attempts,        \* password attempts at a time, from one address
  Callbacks,       \* SSO callbacks and exchanges at a time
  Emails,          \* the accounts tried
  MaxAttempts,     \* auth.loginRateLimit.maxAttempts
  IpKey,           \* the counter of the address
  Budgets,         \* bounds: what a behaviour may contain
  None

ASSUME LoginConstants ==
  /\ Keys = {IpKey} \cup Emails /\ IpKey \notin Emails
  /\ MaxAttempts \in Nat \ {0}
  /\ IsFiniteSet(Attempts)

VARIABLES
  budget,          \* what is left of the bounds
  attempt,         \* attempt[a]: the password attempt under way
  failures,        \* history: failed attempts since the address was cleared
  crossed,         \* history: of those, looked up in one store, counted in another
  callback,        \* callback[c]: the SSO request under way
  torn,            \* history: pending logins stored twice by a failing command
  codes,           \* codes[v]: handoff codes given for login v
  used,            \* the handoff codes consumed
  logins           \* history: logins[v]: tokens issued for login v

limiterVars == <<attempt, failures, crossed>>
ssoVars == <<callback, torn, codes, used, logins>>
vars == <<storeVars, sessionVars, limiterVars, ssoVars, budget>>

Kinds == {"sessions", "wrong", "right", "logins", "callbacks", "requests", "outages", "upsets", "lapses", "disable"}
Spend(k) == budget[k] > 0 /\ budget' = [budget EXCEPT ![k] = @ - 1]
MayFail == budget["outages"] > 0

\* Pays for a command that failed.
Pay(r, a) ==
  budget' = IF Failed(r, a) THEN [budget EXCEPT !["outages"] = @ - 1] ELSE budget

TypeOK ==
  /\ StoreTypeOK /\ SessionsTypeOK
  /\ budget \in [Kinds -> Nat]
  /\ \A a \in Attempts : attempt[a] = None \/
       attempt[a].pc \in {"peek", "verify", "failIp", "failEmail", "clearIp", "clearEmail", "issue"}
  /\ failures \in Nat /\ crossed \in 0..failures
  /\ codes \in [Values -> Nat] /\ used \subseteq Values \X Nat
  /\ logins \in [Values -> Nat] /\ torn \subseteq Values

Init ==
  /\ StoreInit
  /\ budget \in Budgets
  /\ \E S \in SUBSET Jtis : Cardinality(S) = budget["sessions"] /\ SessionsInit(S)
  /\ attempt = [a \in Attempts |-> None]
  /\ failures = 0 /\ crossed = 0
  /\ callback = [c \in Callbacks |-> None]
  /\ torn = {} /\ used = {}
  /\ codes = [v \in Values |-> 0]
  /\ logins = [v \in Values |-> 0]

-----------------------------------------------------------------------------
(* Passwords: blockedFor, login, recordFailure, clear.                     *)

StartAttempt(a, r, e, ok) ==
  /\ attempt[a] = None
  /\ Spend(IF ok THEN "right" ELSE "wrong")
  /\ attempt' = [attempt EXCEPT ![a] =
       [pc |-> "peek", r |-> r, email |-> e, ok |-> ok, via |-> "none"]]
  /\ UNCHANGED <<storeVars, sessionVars, failures, crossed, ssoVars>>

On(a, pc) == attempt[a] # None /\ attempt[a].pc = pc
Proceed(a, pc) == attempt' = [attempt EXCEPT ![a].pc = pc]
Answer(a) == attempt' = [attempt EXCEPT ![a] = None]

\* Mutant of blockedFor: one attempt too many.
blockedForLate(count) == count > MaxAttempts

blockedFor(count) == count >= MaxAttempts

\* The pre-block, on the address only.
PreBlock(a) ==
  /\ On(a, "peek")
  /\ LET r == attempt[a].r IN
     \E o \in run(r, peek(shared, IpKey), peek(local[r], IpKey), MayFail) :
       /\ Settle(r, o) /\ Pay(r, o)
       /\ attempt' = [attempt EXCEPT ![a] =
            IF blockedFor(o.out) THEN None ELSE [@ EXCEPT !.pc = "verify", !.via = o.via]]
  /\ UNCHANGED <<sessionVars, failures, crossed, ssoVars>>

Verify(a) ==
  /\ On(a, "verify")
  /\ IF ~attempt[a].ok THEN Proceed(a, "failIp")
     ELSE IF active THEN Proceed(a, "clearIp") ELSE Answer(a)
  /\ UNCHANGED <<storeVars, sessionVars, failures, crossed, ssoVars, budget>>

RecordIp(a) ==
  /\ On(a, "failIp")
  /\ LET r == attempt[a].r IN
     \E o \in run(r, incr(shared, IpKey), incr(local[r], IpKey), MayFail) :
       /\ Settle(r, o) /\ Pay(r, o)
       /\ crossed' = crossed + IF o.via = attempt[a].via THEN 0 ELSE 1
  /\ failures' = failures + 1
  /\ Proceed(a, "failEmail")
  /\ UNCHANGED <<sessionVars, ssoVars>>

\* The answer tells how long to wait; it changes nothing.
RecordEmail(a) ==
  /\ On(a, "failEmail")
  /\ LET r == attempt[a].r  e == attempt[a].email IN
     \E o \in run(r, incr(shared, e), incr(local[r], e), MayFail) :
       Settle(r, o) /\ Pay(r, o)
  /\ Answer(a)
  /\ UNCHANGED <<sessionVars, failures, crossed, ssoVars>>

ClearIp(a) ==
  /\ On(a, "clearIp")
  /\ LET r == attempt[a].r IN
     \E o \in del(r, IpKey, MayFail) : Settle(r, o) /\ Pay(r, o)
  /\ failures' = 0 /\ crossed' = 0
  /\ Proceed(a, "clearEmail")
  /\ UNCHANGED <<sessionVars, ssoVars>>

ClearEmail(a) ==
  /\ On(a, "clearEmail")
  /\ LET r == attempt[a].r IN
     \E o \in del(r, attempt[a].email, MayFail) : Settle(r, o) /\ Pay(r, o)
  /\ Proceed(a, "issue")
  /\ UNCHANGED <<sessionVars, failures, crossed, ssoVars>>

\* A swallowed error costs a unit of the bound on upsets.
Bounded ==
  /\ upsets' - upsets <= budget["upsets"]
  /\ budget' = [budget EXCEPT !["upsets"] = @ - (upsets' - upsets)]

SignIn(j) ==
  /\ Issue(j)
  /\ Bounded
  /\ UNCHANGED <<denied, idle, touching, active, req, signedOut>>

PasswordToken(a) ==
  /\ On(a, "issue")
  /\ \E j \in Jtis : SignIn(j)
  /\ Answer(a)
  /\ UNCHANGED <<storeVars, failures, crossed, ssoVars>>

-----------------------------------------------------------------------------
(* Single sign-on: oauthStart, oauthCallback, exchange.                    *)

\* The browser is sent to the identity provider.
oauthStart(r, v) ==
  /\ Spend("logins")
  /\ v \notin shared.kv /\ \A q \in Replicas : v \notin local[q].kv
  /\ codes[v] = 0 /\ logins[v] = 0
  /\ \E o \in run(r, set(shared, v), set(local[r], v), TRUE) :
       /\ Failed(r, o) => MayFail
       /\ Settle(r, o)
       /\ torn' = IF v \in o.shared.kv /\ v \in o.mine.kv THEN torn \cup {v} ELSE torn
  /\ UNCHANGED <<sessionVars, limiterVars, callback, codes, used, logins>>

StartCallback(c, r, v) ==
  /\ callback[c] = None
  /\ Spend("callbacks")
  /\ callback' = [callback EXCEPT ![c] = [pc |-> "take", r |-> r, v |-> v]]
  /\ UNCHANGED <<storeVars, sessionVars, limiterVars, torn, codes, used, logins>>

\* "exactly one concurrent/replayed callback for a given state can win", and
\* then the provider or findOrCreate may refuse it.
oauthCallback(c) ==
  /\ callback[c] # None /\ callback[c].pc = "take"
  /\ LET r == callback[c].r  v == callback[c].v IN
     \E o \in run(r, take(shared, v), take(local[r], v), MayFail) :
       /\ Settle(r, o) /\ Pay(r, o)
       /\ \/ o.out /\ codes' = [codes EXCEPT ![v] = @ + 1]
          \/ UNCHANGED codes
  /\ callback' = [callback EXCEPT ![c] = None]
  /\ UNCHANGED <<sessionVars, limiterVars, torn, used, logins>>

\* consume: the primary key lets one insert through; an error denies.
StartExchange(c, v, n) ==
  /\ callback[c] = None
  /\ n \in 1..codes[v]
  /\ Spend("callbacks")
  /\ \/ /\ <<v, n>> \notin used
        /\ used' = used \cup {<<v, n>>}
        /\ callback' = [callback EXCEPT ![c] = [pc |-> "issue", r |-> None, v |-> v]]
     \/ /\ used' \in {used, used \cup {<<v, n>>}}
        /\ UNCHANGED callback
  /\ UNCHANGED <<storeVars, sessionVars, limiterVars, torn, codes, logins>>

exchange(c) ==
  /\ callback[c] # None /\ callback[c].pc = "issue"
  /\ IF active
     THEN /\ \E j \in Jtis : SignIn(j)
          /\ logins' = [logins EXCEPT ![callback[c].v] = @ + 1]
     ELSE UNCHANGED <<sessionVars, logins, budget>>
  /\ callback' = [callback EXCEPT ![c] = None]
  /\ UNCHANGED <<storeVars, limiterVars, torn, codes, used>>

\* The pending state outlives its ten minutes nowhere.
Expire(v) ==
  /\ v \in shared.kv \cup UNION { local[r].kv : r \in Replicas }
  /\ shared' = [shared EXCEPT !.kv = @ \ {v}]
  /\ local' = [r \in Replicas |-> [local[r] EXCEPT !.kv = @ \ {v}]]
  /\ UNCHANGED <<open, sessionVars, limiterVars, ssoVars, budget>>

-----------------------------------------------------------------------------
(* Everything together.                                                    *)

Outage(r) == trip(r) /\ Spend("outages") /\ UNCHANGED <<sessionVars, limiterVars, ssoVars>>
Recovery(r) == Recover(r) /\ UNCHANGED <<sessionVars, limiterVars, ssoVars, budget>>

StartRequest ==
  \E p \in Requests, op \in Ops, j, target \in issued :
    /\ op # "revoke" => target = j
    /\ Start(p, op, j, target)
    /\ Spend("requests")
    /\ UNCHANGED <<storeVars, limiterVars, ssoVars>>

Request(p) == (RequestStep(p) \/ Stop(p)) /\ Bounded /\ UNCHANGED <<storeVars, limiterVars, ssoVars>>
Clock(j) ==
  /\ \/ Touch(j) /\ UNCHANGED budget
     \/ Lapse(j) /\ Spend("lapses")
  /\ UNCHANGED <<storeVars, limiterVars, ssoVars>>
Disabled == Disable /\ Spend("disable") /\ UNCHANGED <<storeVars, limiterVars, ssoVars>>

Attempt(a) ==
  \/ \E r \in Replicas, e \in Emails, ok \in BOOLEAN : StartAttempt(a, r, e, ok)
  \/ PreBlock(a) \/ Verify(a) \/ RecordIp(a) \/ RecordEmail(a)
  \/ ClearIp(a) \/ ClearEmail(a) \/ PasswordToken(a)

SingleSignOn ==
  \/ \E r \in Replicas, v \in Values : oauthStart(r, v)
  \/ \E c \in Callbacks :
       \/ \E r \in Replicas, v \in Values : StartCallback(c, r, v)
       \/ \E v \in Values, n \in 1..2 : StartExchange(c, v, n)
       \/ oauthCallback(c)
       \/ exchange(c)
  \/ \E v \in Values : Expire(v)

Next ==
  \/ \E a \in Attempts : Attempt(a)
  \/ SingleSignOn
  \/ StartRequest
  \/ \E p \in Requests : Request(p)
  \/ \E j \in Jtis : Clock(j)
  \/ Disabled
  \/ \E r \in Replicas : Outage(r) \/ Recovery(r)

Spec == Init /\ [][Next]_vars

-----------------------------------------------------------------------------
(* Properties.                                                             *)

\* However Redis comes and goes, an address gets no more failed attempts in
\* a window than the stores that count it would each give it, and those whose
\* lookup and whose count Redis' coming or going sent to different stores.
Counting ==
  Cardinality({ r \in Replicas : local[r].count[IpKey] > 0 })
    + IF shared.count[IpKey] > 0 THEN 1 ELSE 0
AttemptsAreBounded ==
  failures <= Counting * (MaxAttempts + Cardinality(Attempts) - 1) + crossed

\* One login at the identity provider gives one session, two only when the
\* command that stored its state was applied and failed nevertheless.
OneSessionPerLogin ==
  \A v \in Values : logins[v] <= IF v \in torn THEN 2 ELSE 1
=============================================================================
