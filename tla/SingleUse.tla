------------------------------ MODULE SingleUse ------------------------------
(***************************************************************************)
(* What an authorization server promises of the credentials it gives out,  *)
(* without replicas, races, faults, expiry or accounts: what a code is     *)
(* worth passes from hand to hand and never forks.  The code gives way to  *)
(* the request that redeems it, the request to a refresh token, that token *)
(* to the request that rotates it; what is lost on the way is lost for     *)
(* good.                                                                   *)
(*                                                                         *)
(* OAuthServer, the model of the code, implements this specification.      *)
(***************************************************************************)
CONSTANTS Codes, Tokens, Requests

VARIABLES
  begun,    \* the codes that were ever given out
  bearers   \* bearers[c]: what can still be turned into tokens of c

suVars == <<begun, bearers>>

SUInit ==
  /\ begun = {}
  /\ bearers = [c \in Codes |-> {}]

GiveCode(c) ==
  /\ c \notin begun
  /\ begun' = begun \cup {c}
  /\ bearers' = [bearers EXCEPT ![c] = {<<"code", c>>}]

\* A request takes the place of the row it redeems.
Redeem(c, row, q) ==
  /\ bearers[c] = {row}
  /\ bearers' = [bearers EXCEPT ![c] = {<<"request", q>>}]
  /\ UNCHANGED begun

GiveToken(c, q, k) ==
  /\ bearers[c] = {<<"request", q>>}
  /\ bearers' = [bearers EXCEPT ![c] = {<<"token", k>>}]
  /\ UNCHANGED begun

\* Refused, expired and collected, revoked, or failed half way.
Lose(some) ==
  /\ bearers' = [c \in Codes |-> IF c \in some THEN {} ELSE bearers[c]]
  /\ UNCHANGED begun

SUNext ==
  \/ \E c \in Codes :
       \/ GiveCode(c)
       \/ \E q \in Requests :
            \/ Redeem(c, <<"code", c>>, q)
            \/ \E k \in Tokens : Redeem(c, <<"token", k>>, q) \/ GiveToken(c, q, k)
  \/ \E some \in SUBSET Codes : Lose(some)

SUSpec == SUInit /\ [][SUNext]_suVars
=============================================================================
