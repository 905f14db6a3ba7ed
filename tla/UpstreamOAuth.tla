---------------------------- MODULE UpstreamOAuth ----------------------------
(* The OAuth client that lets the gateway use a remote server which asks for     *)
(* OAuth (UpstreamOAuthService): an administrator begins an authorization, the   *)
(* provider sends the browser back with a code, the code is exchanged for        *)
(* tokens, and every connection to the server takes a token from the stored row  *)
(* and refreshes it when it has run out.  One server, any number of requests on  *)
(* any number of replicas over one database; nothing holds a lock.               *)
EXTENDS Naturals, FiniteSets

CONSTANTS
  Starts,       \* authorizations begun: each has a state of its own
  Callbacks,    \* requests of the provider's redirect, a reload is another
  Connections,  \* connections to the server that need a token
  Issuers,      \* authorization servers
  Home,         \* the one the server's own metadata names
  None,
  Scenarios     \* the bounds, one choice of them per behaviour: the provider's
                \* policies and the forms asked with, and how many times access
                \* tokens run out, the server is edited and something fails

(* A provider issues no refresh tokens; or one that stays good and is left out   *)
(* of later answers; or a new one at each refresh, the old one being refused; or *)
(* it takes a refused one for a theft and revokes the whole grant.               *)
Policies == {"none", "keeps", "rotates", "detects"}

RefreshTokens == [as : Issuers, client : Nat, grant : Starts, n : Nat]
IssuedCodes   == [as : Issuers, client : Nat]

ASSUME UpstreamOAuthConstants ==
  /\ Home \in Issuers
  /\ None \notin Issuers \cup Nat \cup IssuedCodes \cup RefreshTokens
  /\ \A b \in Scenarios :
       /\ b.asked \subseteq [issuer : Issuers \cup {None}, app : BOOLEAN]
       /\ b.policies \subseteq Policies
       /\ b.expiries \in Nat /\ b.edits \in Nat /\ b.upsets \in Nat

VARIABLES
  bound,    \* the scenario
  policy,   \* the provider's
  server,   \* the server's row is there
  row,      \* its server_oauth row
  pending,  \* server_oauth_pending: "live", "expired" or "none", by state
  start,    \* start[s]: the authorize request
  cb,       \* cb[k]: the redirect's request
  conn,     \* conn[c]: the connection's accessTokenFor
  clients,  \* clients registered at each issuer
  code,     \* code[s]: the code the issuer gave, and the client it gave it to
  spent,    \* codes exchanged
  live,     \* refresh tokens the providers accept
  history      \* bounds, and what happened, for the properties

oauthVars == <<bound, policy, server, row, pending, start, cb, conn, clients, code, spent, live, history>>
provider == <<bound, policy, clients, code, spent, live>>

-------------------------------------------------------------------------------
(* A form: the fields of the request or the stored ones, empty ones None and FALSE *)
NoForm == [issuer |-> None, app |-> FALSE]
App == 0                        \* the client the operator registered by hand
NoRow == [there |-> FALSE, as |-> None, client |-> None, access |-> "none",
          refresh |-> None, op |-> NoForm]
NoStart == [at |-> "new", as |-> None, app |-> FALSE, client |-> None]
NoCallback == [at |-> "new", s |-> None, cfg |-> NoRow, refresh |-> None]
NoConnection == [at |-> "new", cfg |-> NoRow, refresh |-> None]

OAuthInit ==
  /\ bound \in Scenarios
  /\ policy \in bound.policies
  /\ server = TRUE
  /\ row = NoRow
  /\ pending = [s \in Starts |-> "none"]
  /\ start = [s \in Starts |-> NoStart]
  /\ cb = [k \in Callbacks |-> NoCallback]
  /\ conn = [c \in Connections |-> NoConnection]
  /\ clients = [i \in Issuers |-> 0]
  /\ code = [s \in Starts |-> None]
  /\ spent = {}
  /\ live = {}
  /\ history = [expiries |-> 0, edits |-> 0, upsets |-> 0, forms |-> {}, startsOverlap |-> FALSE,
             overlap |-> FALSE, presented |-> [s \in Starts |-> 0], strayed |-> {}]

Starting(s) == start[s].at \in {"client", "select", "insert", "update", "pending", "gc"}
Refreshing(c) == conn[c].at \in {"exchange", "save"}

StartTo(s, at) == start' = [start EXCEPT ![s].at = at]
CallbackTo(k, at) == cb' = [cb EXCEPT ![k].at = at]

-------------------------------------------------------------------------------
(* startAuthorization *)

(* The operator's stored fields, overridden by those given with the request;     *)
(* the issuer is the one named there, or the one the server's metadata names.    *)
(* Discovery may fail: then the form is shown and nothing was stored.            *)
EffectiveConfig(form) ==
  [issuer |-> IF form.issuer # None THEN form.issuer ELSE row.op.issuer,
   app    |-> form.app \/ row.op.app]

BeginStart(s, form) ==
  /\ start[s].at = "new" /\ server
  /\ LET eff == EffectiveConfig(form)
         as  == IF eff.issuer # None THEN eff.issuer ELSE Home
     IN /\ start' = [start EXCEPT ![s] = [at |-> "client", as |-> as, app |-> eff.app, client |-> None]]
        /\ history' = [history EXCEPT !.forms = @ \cup {[as |-> as, app |-> eff.app]},
                                !.startsOverlap = @ \/ \E t \in Starts \ {s} : Starting(t)]
  /\ UNCHANGED <<server, row, pending, cb, conn, provider>>

(* The operator's client, the one already registered at this issuer, or a new    *)
(* one, if the issuer registers clients                                          *)
Reusable(s) == row.there /\ row.as = start[s].as /\ row.client # None
ChooseClient(s) ==
  /\ start[s].at = "client"
  /\ LET as == start[s].as
         becomes(client) == start' = [start EXCEPT ![s].at = "select", ![s].client = client]
     IN \/ start[s].app /\ becomes(App) /\ UNCHANGED clients
        \/ ~start[s].app /\ Reusable(s) /\ becomes(row.client) /\ UNCHANGED clients
        \/ /\ ~start[s].app /\ ~Reusable(s)
           /\ clients' = [clients EXCEPT ![as] = @ + 1]
           /\ becomes(clients[as] + 1)
        \/ ~start[s].app /\ ~Reusable(s) /\ StartTo(s, "failed") /\ UNCHANGED clients
  /\ UNCHANGED <<bound, policy, server, row, pending, cb, conn, code, spent, live, history>>

(* upsertConfig: the tokens of the row are kept *)
SelectConfig(s) ==
  /\ start[s].at = "select"
  /\ StartTo(s, IF row.there THEN "update" ELSE "insert")
  /\ UNCHANGED <<server, row, pending, cb, conn, provider, history>>

Configured(s) == [row EXCEPT !.there = TRUE, !.as = start[s].as, !.client = start[s].client]
WriteConfig(s) ==
  /\ \/ /\ start[s].at \in {"insert", "update"}
        /\ start[s].at = "insert" => ~row.there
        /\ row' = Configured(s)
        /\ StartTo(s, "pending")
     \/ /\ start[s].at = "insert" /\ row.there      \* another request inserted it
        /\ StartTo(s, "failed")
        /\ UNCHANGED row
  /\ UNCHANGED <<server, pending, cb, conn, provider, history>>

CreatePending(s) ==
  /\ start[s].at = "pending"
  /\ pending' = [pending EXCEPT ![s] = "live"]
  /\ StartTo(s, "gc")
  /\ UNCHANGED <<server, row, cb, conn, provider, history>>

(* gc, and the administrator is sent to the provider *)
CollectPending(s) ==
  /\ start[s].at = "gc"
  /\ pending' = [t \in Starts |-> IF pending[t] = "expired" THEN "none" ELSE pending[t]]
  /\ StartTo(s, "sent")
  /\ UNCHANGED <<server, row, cb, conn, provider, history>>

PendingExpires(s) ==
  /\ pending[s] = "live"
  /\ pending' = [pending EXCEPT ![s] = "expired"]
  /\ UNCHANGED <<server, row, start, cb, conn, provider, history>>

(* The administrator signs in and consents *)
Consent(s) ==
  /\ start[s].at = "sent" /\ code[s] = None
  /\ code' = [code EXCEPT ![s] = [as |-> start[s].as, client |-> start[s].client]]
  /\ UNCHANGED <<bound, policy, server, row, pending, start, cb, conn, clients, spent, live, history>>

-------------------------------------------------------------------------------
(* completeAuthorization *)

(* takePending: the row is read and then deleted, and only the request whose     *)
(* deletion removed it goes on                                                   *)
ReadPending(k, s) ==
  /\ cb[k].at = "new" /\ code[s] # None
  /\ cb' = [cb EXCEPT ![k] = [@ EXCEPT !.at = IF pending[s] = "none" THEN "failed" ELSE "take", !.s = s]]
  /\ UNCHANGED <<server, row, pending, start, conn, provider, history>>

AnyTaker(s) == TRUE
Wins(s) == pending[s] # "none"
TakePending(k) ==
  /\ cb[k].at = "take"
  /\ LET s == cb[k].s IN
     /\ pending' = [pending EXCEPT ![s] = "none"]
     /\ CallbackTo(k, IF Wins(s) /\ pending[s] # "expired" THEN "config" ELSE "failed")
  /\ UNCHANGED <<server, row, start, conn, provider, history>>

ReadConfig(k) ==
  /\ cb[k].at = "config"
  /\ cb' = [cb EXCEPT ![k].at = "exchange", ![k].cfg = row]
  /\ UNCHANGED <<server, row, pending, start, conn, provider, history>>

(* The token request with a code *)
Issued(s) == IF policy = "none" THEN None
             ELSE [as |-> code[s].as, client |-> code[s].client, grant |-> s, n |-> 1]
AsIssued(k) == code[cb[k].s] = [as |-> cb[k].cfg.as, client |-> cb[k].cfg.client]

Presents(s, k) == [history EXCEPT !.presented[s] = @ + 1,
                               !.strayed = IF AsIssued(k) THEN @ ELSE @ \cup {s}]
ExchangeCode(k) ==
  /\ cb[k].at = "exchange"
  /\ LET s == cb[k].s IN
     /\ history' = Presents(s, k)
     /\ IF AsIssued(k) /\ s \notin spent
        THEN /\ spent' = spent \cup {s}
             /\ live' = IF policy = "none" THEN live ELSE live \cup {Issued(s)}
             /\ cb' = [cb EXCEPT ![k].at = "save", ![k].refresh = Issued(s)]
        ELSE /\ CallbackTo(k, "failed")
             /\ UNCHANGED <<spent, live>>
  /\ UNCHANGED <<bound, policy, server, row, pending, start, conn, clients, code>>

(* persistTokens *)
Stored(refresh) == [row EXCEPT !.access = "fresh", !.refresh = refresh]
SaveCodeTokens(k) ==
  /\ cb[k].at = "save"
  /\ row' = Stored(cb[k].refresh)
  /\ CallbackTo(k, "done")
  /\ UNCHANGED <<server, pending, start, conn, provider, history>>

-------------------------------------------------------------------------------
(* accessTokenFor, when the server is connected *)

(* A token that lasts is used as it is; one that has run out needs the refresh   *)
(* token that was read with it                                                   *)
ReadToken(c) ==
  /\ conn[c].at = "new" /\ server
  /\ conn' = [conn EXCEPT ![c] =
       [@ EXCEPT !.cfg = row,
                 !.at = CASE row.access = "none"  -> "failed"
                          [] row.access = "fresh" -> "done"
                          [] OTHER -> IF row.refresh = None THEN "failed" ELSE "exchange"]]
  /\ history' = [history EXCEPT !.overlap = @ \/ \E d \in Connections \ {c} : Refreshing(d)]
  /\ UNCHANGED <<server, row, pending, start, cb, provider>>

(* The token request with a refresh token: the provider knows it, from its own   *)
(* client, and gives a new access token, and as its policy is a new refresh      *)
(* token; a refresh token left out of the answer is the one that was sent        *)
Forgotten(c) == None
Kept(c) == conn[c].cfg.refresh
Known(c) == LET cfg == conn[c].cfg IN
  cfg.refresh \in live /\ cfg.refresh.as = cfg.as /\ cfg.refresh.client = cfg.client
Rotated(t) == [t EXCEPT !.n = @ + 1]
Refresh(c) ==
  /\ conn[c].at = "exchange"
  /\ LET t == conn[c].cfg.refresh
         rotates == policy \in {"rotates", "detects"}
     IN IF Known(c)
        THEN /\ live' = IF rotates THEN (live \ {t}) \cup {Rotated(t)} ELSE live
             /\ conn' = [conn EXCEPT ![c].at = "save",
                                     ![c].refresh = IF rotates THEN Rotated(t) ELSE Kept(c)]
        ELSE /\ live' = IF policy = "detects" /\ t.as = conn[c].cfg.as
                        THEN {u \in live : u.grant # t.grant} ELSE live
             /\ conn' = [conn EXCEPT ![c].at = "failed"]
  /\ UNCHANGED <<bound, policy, server, row, pending, start, cb, clients, code, spent, history>>

SaveRefreshed(c) ==
  /\ conn[c].at = "save"
  /\ row' = Stored(conn[c].refresh)
  /\ conn' = [conn EXCEPT ![c].at = "done"]
  /\ UNCHANGED <<server, pending, start, cb, provider, history>>

AccessExpires ==
  /\ row.access = "fresh" /\ history.expiries < bound.expiries
  /\ row' = [row EXCEPT !.access = "stale"]
  /\ history' = [history EXCEPT !.expiries = @ + 1]
  /\ UNCHANGED <<server, pending, start, cb, conn, provider>>

-------------------------------------------------------------------------------
(* The server's form, its deletion, and what may go wrong *)

(* saveConfig replaces the operator's fields, making a row if there is none *)
SaveConfig(form) ==
  /\ server /\ history.edits < bound.edits
  /\ row' = [row EXCEPT !.there = TRUE, !.op = form]
  /\ history' = [history EXCEPT !.edits = @ + 1]
  /\ UNCHANGED <<server, pending, start, cb, conn, provider>>

(* deleteServer leaves the OAuth rows where they are *)
DeleteServer ==
  /\ server /\ history.edits < bound.edits
  /\ server' = FALSE
  /\ history' = [history EXCEPT !.edits = @ + 1]
  /\ UNCHANGED <<row, pending, start, cb, conn, provider>>

Upset == /\ history.upsets < bound.upsets
         /\ history' = [history EXCEPT !.upsets = @ + 1]

(* A request dies, its statement fails or its replica stops, between two steps;  *)
(* at a token request the provider may have done its part                        *)
StartDies(s) ==
  /\ Starting(s) /\ Upset
  /\ StartTo(s, "failed")
  /\ UNCHANGED <<server, row, pending, cb, conn, provider>>

CallbackDies(k) ==
  /\ cb[k].at \in {"take", "config", "exchange", "save"} /\ Upset
  /\ CallbackTo(k, "failed")
  /\ UNCHANGED <<server, row, pending, start, conn, provider>>

ConnectionDies(c) ==
  /\ Refreshing(c) /\ Upset
  /\ conn' = [conn EXCEPT ![c].at = "failed"]
  /\ UNCHANGED <<server, row, pending, start, cb, provider>>

-------------------------------------------------------------------------------
StartSteps(s) ==
  \/ \E form \in bound.asked : BeginStart(s, form)
  \/ ChooseClient(s) \/ SelectConfig(s) \/ WriteConfig(s) \/ CreatePending(s)
  \/ CollectPending(s) \/ PendingExpires(s) \/ Consent(s) \/ StartDies(s)

CallbackSteps(k) ==
  \/ \E s \in Starts : ReadPending(k, s)
  \/ TakePending(k) \/ ReadConfig(k) \/ ExchangeCode(k) \/ SaveCodeTokens(k) \/ CallbackDies(k)

ConnectionSteps(c) ==
  ReadToken(c) \/ Refresh(c) \/ SaveRefreshed(c) \/ ConnectionDies(c)

OAuthNext ==
  \/ \E s \in Starts : StartSteps(s)
  \/ \E k \in Callbacks : CallbackSteps(k)
  \/ \E c \in Connections : ConnectionSteps(c)
  \/ \E form \in bound.asked : SaveConfig(form)
  \/ AccessExpires \/ DeleteServer

OAuthSpec == OAuthInit /\ [][OAuthNext]_oauthVars

-------------------------------------------------------------------------------
(* Properties *)

(* A code is presented at a token endpoint at most once, however often the       *)
(* redirect is loaded; and as long as every authorization asks for the same      *)
(* issuer and app and no two are begun at once, it is presented where it was     *)
(* issued, by the client it was issued to, which holds because a client is       *)
(* registered once and used again.                                               *)
OneApp == Cardinality(history.forms) <= 1 /\ ~history.startsOverlap
CodeSpentAsIssued ==
  /\ \A s \in Starts : history.presented[s] <= 1
  /\ OneApp => history.strayed = {}

(* While nobody is at it, the stored refresh token is one the provider accepts   *)
(* from the stored client, and it is there if the provider gave one: overlapping *)
(* refreshes and a new authorization may come in any order, unless the provider  *)
(* revokes a grant whose old token is sent twice, something failed halfway, or   *)
(* another issuer or app was asked for.                                          *)
Idle == /\ \A k \in Callbacks : cb[k].at # "save"
        /\ \A c \in Connections : conn[c].at # "save"
Undisturbed == OneApp /\ history.upsets = 0 /\ (policy = "detects" => ~history.overlap)
GrantKept ==
  (Undisturbed /\ Idle /\ row.access # "none") =>
    IF row.refresh = None THEN policy = "none"
    ELSE row.refresh \in live /\ row.refresh.as = row.as /\ row.refresh.client = row.client

=============================================================================
