---------------------------- MODULE MakerChecker ----------------------------
(***************************************************************************)
(* What the human approval gate promises, without processes, polling or    *)
(* faults: a held tool call is put before the approvers once, receives at  *)
(* most one verdict, an approval comes from somebody other than the maker  *)
(* of the call, and only an approved call is released to run.              *)
(*                                                                         *)
(* ToolApproval, the model of the code, implements this specification.     *)
(***************************************************************************)
CONSTANTS
  Calls,      \* held tool calls, one approval request each
  Users,      \* people who may decide
  Requester,  \* Requester[c]: the user on whose behalf the call c was made
  Nobody      \* no user: an unauthenticated maker, or no decision yet

VARIABLES
  status,     \* status[c]: the request's place in its life
  resolvedBy, \* resolvedBy[c]: who resolved it
  released    \* the held calls that were let through

mcvars == <<status, resolvedBy, released>>

Verdicts == {"approved", "denied"}

MCInit ==
  /\ status = [c \in Calls |-> "none"]
  /\ resolvedBy = [c \in Calls |-> Nobody]
  /\ released = {}

Submit(c) ==
  /\ status[c] = "none"
  /\ status' = [status EXCEPT ![c] = "pending"]
  /\ UNCHANGED <<resolvedBy, released>>

\* Maker-checker: the maker of a call may deny it but not approve it.
Resolve(c, u, v) ==
  /\ status[c] = "pending"
  /\ v = "approved" => u # Requester[c]
  /\ status' = [status EXCEPT ![c] = v]
  /\ resolvedBy' = [resolvedBy EXCEPT ![c] = u]
  /\ UNCHANGED released

Expire(c) ==
  /\ status[c] = "pending"
  /\ status' = [status EXCEPT ![c] = "expired"]
  /\ resolvedBy' = [resolvedBy EXCEPT ![c] = Nobody]
  /\ UNCHANGED released

Release(c) ==
  /\ status[c] = "approved"
  /\ released' = released \cup {c}
  /\ UNCHANGED <<status, resolvedBy>>

MCNext ==
  \E c \in Calls :
    \/ Submit(c)
    \/ \E u \in Users, v \in Verdicts : Resolve(c, u, v)
    \/ Expire(c)
    \/ Release(c)

MCSpec == MCInit /\ [][MCNext]_mcvars
=============================================================================
