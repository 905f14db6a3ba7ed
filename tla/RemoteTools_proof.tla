-------------------------- MODULE RemoteTools_proof --------------------------
(***************************************************************************)
(* Proofs about what a call of a remote server's tool waits for: the       *)
(* decision of a person (ToolApproval, for every set of calls, decisions,  *)
(* users and replicas and any number of faults and crashes, with the       *)
(* abstract gate MakerChecker it implements) and an access token of the    *)
(* server (UpstreamOAuth, for every set of authorizations, redirects,      *)
(* connections and issuers, every policy of the provider and any number of *)
(* expiries, edits and failures).                                          *)
(***************************************************************************)
EXTENDS ToolApproval, UpstreamOAuth, FiniteSetTheorems, TLAPS

-------------------------------------------------------------------------------
(* The approval gate.                                                      *)

LEMMA InitIndInv == Init => IndInv
BY ConstantsAssumption
   DEF Init, IndInv, TypeOK, ProgressInv, SeenInv, DecisionInv, ApprovedInv,
       OutcomeInv, Final, Statuses, Waiting, CallPcs, Outcomes, DecisionPcs,
       NoDecision, Verdicts

\* The conditional update changes a pending row only, and keeps the row typed.
LEMMA ResolveRowEffect ==
  ASSUME NEW c \in Calls, NEW s \in Final, NEW u \in Users \cup {Nobody},
         TypeOK, ResolveRow(c, s, u)
  PROVE  /\ status' \in [Calls -> Statuses]
         /\ resolvedBy' \in [Calls -> Users \cup {Nobody}]
         /\ \A k \in Calls \ {c} : status'[k] = status[k] /\ resolvedBy'[k] = resolvedBy[k]
         /\ status[c] = "pending" => status'[c] = s /\ resolvedBy'[c] = u
         /\ status[c] # "pending" => status'[c] = status[c] /\ resolvedBy'[c] = resolvedBy[c]
         /\ status'[c] # "pending"
BY DEF TypeOK, ResolveRow, Statuses, Final, rowVars

\* Every step of the hook keeps the invariant.
LEMMA HookIndInv ==
  ASSUME NEW c \in Calls, IndInv,
         \/ Arrive(c) \/ Request(c) \/ ReadRow(c) \/ ActOnRow(c)
         \/ PollTimer(c) \/ Elapse(c) \/ ExpireRow(c) \/ Reread(c)
         \/ HookFault(c)
  PROVE  IndInv'
<1> USE DEF IndInv
<1>1. CASE Arrive(c)
  <2>1. TypeOK'
    <3>1. PICK gate \in BOOLEAN :
            /\ held' = [held EXCEPT ![c] = gate]
            /\ IF gate THEN pc' = [pc EXCEPT ![c] = "create"] /\ UNCHANGED outcome
               ELSE Finish(c, "ran")
      <4>1. \A found \in BOOLEAN : ShouldGate(c, found) \in BOOLEAN
        BY DEF ShouldGate
      <4> QED BY <1>1, <4>1 DEF Arrive
    <3>2. faults' \in Nat /\ home' \in [Calls -> Replicas \cup {Nobody}]
      BY <1>1 DEF Arrive, DbFault, TypeOK
    <3>3. UNCHANGED <<rowVars, seen, overdue, dec, audit, crashes>>
      BY <1>1 DEF Arrive
    <3>4. held' \in [Calls -> BOOLEAN]
      BY <3>1 DEF TypeOK
    <3>5. pc' \in [Calls -> CallPcs] /\ outcome' \in [Calls -> Outcomes]
      BY <3>1 DEF TypeOK, Finish, CallPcs, Outcomes
    <3> QED BY <3>2, <3>3, <3>4, <3>5 DEF TypeOK, rowVars
  <2>2. UNCHANGED <<status, resolvedBy, seen, dec>>
    BY <1>1 DEF Arrive, rowVars
  <2>3. /\ \A k \in Calls \ {c} : pc'[k] = pc[k] /\ outcome'[k] = outcome[k]
                                  /\ held'[k] = held[k]
        /\ pc[c] = "idle"
        /\ \/ pc'[c] = "create" /\ outcome'[c] = outcome[c]
           \/ pc'[c] = "done" /\ outcome'[c] = "ran" /\ held'[c] = FALSE
    BY <1>1 DEF Arrive, Finish, TypeOK
  <2>4. ProgressInv' /\ OutcomeInv'
    BY <2>2, <2>3 DEF ProgressInv, OutcomeInv, Waiting
  <2>5. SeenInv' /\ DecisionInv' /\ ApprovedInv'
    BY <2>2 DEF SeenInv, DecisionInv, ApprovedInv
  <2> QED BY <2>1, <2>4, <2>5
<1>2. CASE Request(c)
  <2>1. TypeOK'
    BY <1>2 DEF Request, TypeOK, CallPcs, Waiting, Statuses
  <2>2. /\ UNCHANGED <<resolvedBy, seen, dec, held, outcome>>
        /\ pc[c] = "create" /\ pc'[c] = "read"
        /\ status[c] = "none" /\ status'[c] = "pending"
        /\ outcome[c] = "none"
        /\ \A k \in Calls \ {c} : pc'[k] = pc[k] /\ status'[k] = status[k]
    BY <1>2 DEF Request, TypeOK, ProgressInv
  <2>3. ProgressInv' /\ OutcomeInv' /\ ApprovedInv'
    BY <2>2 DEF ProgressInv, OutcomeInv, ApprovedInv, Waiting
  <2>4. SeenInv' /\ DecisionInv'
    BY <2>2 DEF SeenInv, DecisionInv, Final
  <2> QED BY <2>1, <2>3, <2>4
<1>3. CASE ReadRow(c)
  <2>1. TypeOK'
    BY <1>3 DEF ReadRow, TypeOK, CallPcs, Waiting, rowVars
  <2>2. /\ UNCHANGED <<status, resolvedBy, dec, held, outcome>>
        /\ pc[c] = "read" /\ pc'[c] = "act" /\ seen'[c] = status[c]
        /\ \A k \in Calls \ {c} : pc'[k] = pc[k] /\ seen'[k] = seen[k]
    BY <1>3 DEF ReadRow, TypeOK, rowVars
  <2>3. ProgressInv' /\ SeenInv'
    BY <2>2 DEF ProgressInv, SeenInv, Waiting
  <2>4. DecisionInv' /\ ApprovedInv' /\ OutcomeInv'
    BY <2>2 DEF DecisionInv, ApprovedInv, OutcomeInv
  <2> QED BY <2>1, <2>3, <2>4
<1>4. CASE ActOnRow(c)
  <2>1. TypeOK'
    BY <1>4 DEF ActOnRow, Finish, AfterPending, OutcomeOf, TypeOK, CallPcs,
                Waiting, Outcomes, rowVars
  <2>2. /\ UNCHANGED <<status, resolvedBy, seen, dec, held>>
        /\ pc[c] = "act" /\ pc'[c] \in {"done", "expire", "asleep"}
        /\ \A k \in Calls \ {c} : pc'[k] = pc[k] /\ outcome'[k] = outcome[k]
        /\ \/ /\ seen[c] # "pending"
              /\ pc'[c] = "done"
              /\ outcome'[c] = OutcomeOf(seen[c])
           \/ outcome'[c] = outcome[c] /\ pc'[c] # "done"
    BY <1>4 DEF ActOnRow, Finish, AfterPending, TypeOK, rowVars
  <2>3. ProgressInv'
    BY <2>2 DEF ProgressInv, Waiting
  <2>4. seen[c] \in Statuses /\ seen[c] # "none"
    BY <2>2 DEF ProgressInv, TypeOK
  <2>5. OutcomeInv'
    BY <2>2, <2>4 DEF OutcomeInv, OutcomeOf, SeenInv, Final, Statuses
  <2>6. SeenInv' /\ DecisionInv' /\ ApprovedInv'
    BY <2>2 DEF SeenInv, DecisionInv, ApprovedInv
  <2> QED BY <2>1, <2>3, <2>5, <2>6
<1>5. CASE PollTimer(c)
  BY <1>5 DEF PollTimer, TypeOK, CallPcs, Waiting, rowVars, ProgressInv,
              SeenInv, DecisionInv, ApprovedInv, OutcomeInv
<1>6. CASE Elapse(c)
  BY <1>6 DEF Elapse, TypeOK, rowVars, ProgressInv, SeenInv, DecisionInv,
              ApprovedInv, OutcomeInv
<1>7. CASE ExpireRow(c)
  <2>1. /\ ResolveRow(c, "expired", Nobody)
        /\ UNCHANGED <<seen, overdue, held, outcome, home, dec, audit, faults,
                       crashes>>
        /\ pc[c] = "expire" /\ pc' = [pc EXCEPT ![c] = "reread"]
    BY <1>7 DEF ExpireRow
  <2>2. /\ status' \in [Calls -> Statuses]
        /\ resolvedBy' \in [Calls -> Users \cup {Nobody}]
        /\ \A k \in Calls \ {c} : status'[k] = status[k]
                                  /\ resolvedBy'[k] = resolvedBy[k]
        /\ status[c] = "pending" => status'[c] = "expired"
        /\ status[c] # "pending" => status'[c] = status[c]
                                    /\ resolvedBy'[c] = resolvedBy[c]
        /\ status'[c] # "pending"
    BY <2>1, ResolveRowEffect DEF Final
  <2>3. TypeOK'
    BY <2>1, <2>2 DEF TypeOK, CallPcs, Waiting
  <2>4. /\ \A k \in Calls \ {c} : pc'[k] = pc[k]
        /\ pc'[c] = "reread"
    BY <2>1 DEF TypeOK
  <2>5. ProgressInv' /\ SeenInv' /\ ApprovedInv' /\ OutcomeInv'
    BY <2>1, <2>2, <2>4
       DEF ProgressInv, SeenInv, ApprovedInv, OutcomeInv, Waiting, Final
  <2>6. DecisionInv'
    BY <2>1 DEF DecisionInv
  <2> QED BY <2>3, <2>5, <2>6
<1>8. CASE Reread(c)
  <2>1. TypeOK'
    <3>1. /\ seen' = [seen EXCEPT ![c] = status[c]]
          /\ pc' = [pc EXCEPT ![c] = "done"]
          /\ outcome' = [outcome EXCEPT ![c] = OutcomeOf(status[c])]
          /\ UNCHANGED <<rowVars, home, overdue, held, dec, audit, faults,
                         crashes>>
      BY <1>8 DEF Reread, Finish, LateOutcome
    <3>2. OutcomeOf(status[c]) \in Outcomes
      BY DEF OutcomeOf, Outcomes
    <3> QED BY <3>1, <3>2 DEF TypeOK, CallPcs, rowVars
  <2>2. /\ UNCHANGED <<status, resolvedBy, dec, held>>
        /\ pc[c] = "reread" /\ pc'[c] = "done" /\ seen'[c] = status[c]
        /\ outcome'[c] = OutcomeOf(status[c])
        /\ \A k \in Calls \ {c} : pc'[k] = pc[k] /\ seen'[k] = seen[k]
                                  /\ outcome'[k] = outcome[k]
    BY <1>8 DEF Reread, Finish, LateOutcome, TypeOK, rowVars
  <2>3. status[c] \in Final
    BY <2>2 DEF ProgressInv, TypeOK, Statuses, Final, Waiting
  <2>4. ProgressInv' /\ SeenInv'
    BY <2>2 DEF ProgressInv, SeenInv, Waiting
  <2>5. OutcomeInv'
    BY <2>2, <2>3 DEF OutcomeInv, OutcomeOf, Final
  <2>6. DecisionInv' /\ ApprovedInv'
    BY <2>2 DEF DecisionInv, ApprovedInv
  <2> QED BY <2>1, <2>4, <2>5, <2>6
<1>9. CASE HookFault(c)
  <2>1. /\ pc[c] \in {"create", "read", "expire", "reread"}
        /\ pc' = [pc EXCEPT ![c] = "done"]
        /\ outcome' = [outcome EXCEPT ![c] = "error"]
        /\ faults' = faults + 1
        /\ UNCHANGED <<home, seen, overdue, held, dec, audit, crashes>>
    BY <1>9 DEF HookFault, Finish, DbFault
  <2>2. /\ status' \in [Calls -> Statuses]
        /\ resolvedBy' \in [Calls -> Users \cup {Nobody}]
        /\ \A k \in Calls \ {c} : status'[k] = status[k]
                                  /\ resolvedBy'[k] = resolvedBy[k]
        /\ \/ status'[c] = status[c] /\ resolvedBy'[c] = resolvedBy[c]
           \/ pc[c] = "create" /\ status'[c] = "pending"
           \/ status[c] = "pending" /\ status'[c] = "expired"
    <3>1. CASE UNCHANGED rowVars
      BY <3>1 DEF rowVars, TypeOK
    <3>2. CASE /\ pc[c] = "create"
               /\ status' = [status EXCEPT ![c] = "pending"]
               /\ UNCHANGED resolvedBy
      BY <3>2 DEF TypeOK, Statuses
    <3>3. CASE ResolveRow(c, "expired", Nobody)
      BY <3>3, ResolveRowEffect DEF Final
    <3> QED BY <1>9, <3>1, <3>2, <3>3 DEF HookFault
  <2>3. TypeOK'
    <3>1. pc' \in [Calls -> CallPcs] /\ outcome' \in [Calls -> Outcomes]
      BY <2>1 DEF TypeOK, CallPcs, Outcomes
    <3>2. faults' \in Nat
      BY <2>1 DEF TypeOK
    <3> QED BY <2>1, <2>2, <3>1, <3>2 DEF TypeOK
  <2>4. /\ \A k \in Calls \ {c} : pc'[k] = pc[k] /\ outcome'[k] = outcome[k]
        /\ pc'[c] = "done" /\ outcome'[c] = "error"
    BY <2>1 DEF TypeOK
  <2>5. ProgressInv'
    BY <2>1, <2>2, <2>4 DEF ProgressInv, Waiting
  <2>6. SeenInv'
    BY <2>1, <2>2 DEF SeenInv, ProgressInv, Final
  <2>7. ApprovedInv' /\ OutcomeInv'
    BY <2>1, <2>2, <2>4 DEF ApprovedInv, OutcomeInv
  <2>8. DecisionInv'
    BY <2>1 DEF DecisionInv
  <2> QED BY <2>3, <2>5, <2>6, <2>7, <2>8
<1> QED BY <1>1, <1>2, <1>3, <1>4, <1>5, <1>6, <1>7, <1>8, <1>9

\* Every step of a decider keeps the invariant.
LEMMA DecisionIndInv ==
  ASSUME NEW d \in Decisions, IndInv,
         DecideCheck(d) \/ DecideResolve(d) \/ DecideAnswer(d) \/ DecideFault(d)
  PROVE  IndInv'
<1> USE DEF IndInv
<1>1. CASE DecideCheck(d)
  <2>1. PICK c \in Calls, u \in Users, v \in Verdicts, r \in Replicas :
          dec' = [dec EXCEPT ![d] =
                    [pc |-> IF MayDecide(c, u, v) THEN "resolve" ELSE "refused",
                     call |-> c, by |-> u, verdict |-> v, at |-> r]]
    BY <1>1 DEF DecideCheck
  <2>2. UNCHANGED <<rowVars, callVars, audit, faults, crashes>>
    BY <1>1 DEF DecideCheck
  <2>3. TypeOK'
    BY <2>1, <2>2 DEF TypeOK, rowVars, callVars, DecisionPcs
  <2>4. DecisionInv'
    BY <2>1, ConstantsAssumption DEF DecisionInv, MayDecide, TypeOK
  <2>5. ProgressInv' /\ SeenInv' /\ ApprovedInv' /\ OutcomeInv'
    BY <2>2 DEF ProgressInv, SeenInv, ApprovedInv, OutcomeInv, rowVars,
                callVars
  <2> QED BY <2>3, <2>4, <2>5
<1>2. ASSUME dec[d].pc = "resolve",
             ResolveRow(dec[d].call, dec[d].verdict, dec[d].by),
             NEW p \in DecisionPcs \ {"resolve"},
             dec' = [dec EXCEPT ![d].pc = p],
             UNCHANGED <<callVars, audit, crashes>>,
             faults' \in Nat
      PROVE  IndInv'
  <2> DEFINE c == dec[d].call
             v == dec[d].verdict
             u == dec[d].by
  <2>1. /\ c \in Calls /\ u \in Users /\ v \in Verdicts
        /\ v = "approved" => u # Requester[c]
    BY <1>2 DEF DecisionInv, TypeOK
  <2>2. v \in Final /\ u \in Users \cup {Nobody}
    BY <2>1 DEF Verdicts, Final
  <2> HIDE DEF c, v, u
  <2>3. ResolveRow(c, v, u)
    BY <1>2 DEF c, v, u
  <2>4. /\ status' \in [Calls -> Statuses]
        /\ resolvedBy' \in [Calls -> Users \cup {Nobody}]
        /\ \A k \in Calls \ {c} : status'[k] = status[k]
                                  /\ resolvedBy'[k] = resolvedBy[k]
        /\ status[c] = "pending" => status'[c] = v /\ resolvedBy'[c] = u
        /\ status[c] # "pending" => status'[c] = status[c]
                                    /\ resolvedBy'[c] = resolvedBy[c]
        /\ status'[c] # "pending"
    BY <2>1, <2>2, <2>3, ResolveRowEffect
  <2>5. TypeOK'
    BY <1>2, <2>4 DEF TypeOK, callVars
  <2>6. DecisionInv'
    BY <1>2 DEF DecisionInv, TypeOK
  <2>7. UNCHANGED <<pc, seen, held, outcome>>
    BY <1>2 DEF callVars
  <2>8. status[c] \in Statuses
    BY <2>1 DEF TypeOK
  <2>9. ProgressInv' /\ SeenInv' /\ OutcomeInv'
    BY <2>1, <2>2, <2>4, <2>7 DEF ProgressInv, SeenInv, OutcomeInv, Final, Waiting
  <2>10. ApprovedInv'
    BY <2>1, <2>4 DEF ApprovedInv
  <2> QED BY <2>5, <2>6, <2>9, <2>10
<1>3. CASE DecideResolve(d)
  BY <1>2, <1>3 DEF DecideResolve, DecisionPcs, TypeOK
<1>4. CASE DecideAnswer(d)
  <2>1. /\ UNCHANGED <<status, resolvedBy, home, seen, overdue, held, outcome,
                       crashes>>
        /\ dec[d].pc = "answer"
        /\ dec' = [dec EXCEPT ![d].pc = "answered"]
        /\ pc' = pc \/ (pc[dec[d].call] = "asleep"
                         /\ pc' = [pc EXCEPT ![dec[d].call] = "read"])
        /\ audit' = audit \cup {AuditEntry(d)} \/ audit' = audit
        /\ faults' \in Nat
    BY <1>4 DEF DecideAnswer, DbFault, TypeOK, rowVars
  <2>2. DecisionInv'
    BY <2>1 DEF DecisionInv, TypeOK
  <2>3. SeenInv' /\ ApprovedInv' /\ OutcomeInv'
    BY <2>1 DEF SeenInv, ApprovedInv, OutcomeInv
  <2>4. pc' \in [Calls -> CallPcs] /\ ProgressInv'
    BY <2>1 DEF TypeOK, ProgressInv, CallPcs, Waiting
  <2>5. TypeOK'
    <3>1. AuditEntry(d) \in [call : Calls, by : Users, verdict : Verdicts]
      BY <2>1 DEF AuditEntry, DecisionInv, TypeOK
    <3>2. dec' \in [Decisions -> [pc : DecisionPcs, call : Calls \cup {Nobody},
                                  by : Users \cup {Nobody}, verdict : Verdicts,
                                  at : Replicas \cup {Nobody}]]
      BY <2>1 DEF TypeOK, DecisionPcs
    <3>3. audit' \subseteq [call : Calls, by : Users, verdict : Verdicts]
      BY <2>1, <3>1 DEF TypeOK
    <3> QED BY <2>1, <2>4, <3>2, <3>3 DEF TypeOK
  <2> QED BY <2>2, <2>3, <2>4, <2>5
<1>5. CASE DecideFault(d)
  <2>1. CASE ResolveRow(dec[d].call, dec[d].verdict, dec[d].by)
    <3>1. /\ dec[d].pc = "resolve"
          /\ dec' = [dec EXCEPT ![d].pc = "failed"]
          /\ UNCHANGED <<callVars, audit, crashes>>
      BY <1>5 DEF DecideFault
    <3>2. faults' \in Nat
      BY <1>5 DEF DecideFault, DbFault, TypeOK
    <3>3. "failed" \in DecisionPcs \ {"resolve"}
      BY DEF DecisionPcs
    <3> QED BY <1>2, <2>1, <3>1, <3>2, <3>3
  <2>2. CASE UNCHANGED rowVars
    <3>1. /\ UNCHANGED <<rowVars, callVars, audit, crashes>>
          /\ dec' = [dec EXCEPT ![d].pc = "failed"]
          /\ faults' = faults + 1
      BY <1>5, <2>2 DEF DecideFault, DbFault
    <3>2. TypeOK'
      BY <3>1 DEF TypeOK, rowVars, callVars, DecisionPcs
    <3>3. DecisionInv'
      BY <3>1 DEF DecisionInv, TypeOK
    <3>4. ProgressInv' /\ SeenInv' /\ ApprovedInv' /\ OutcomeInv'
      BY <3>1 DEF ProgressInv, SeenInv, ApprovedInv, OutcomeInv, rowVars,
                  callVars
    <3> QED BY <3>2, <3>3, <3>4
  <2> QED BY <1>5, <2>1, <2>2 DEF DecideFault
<1> QED BY <1>1, <1>3, <1>4, <1>5

LEMMA CrashIndInv ==
  ASSUME NEW r \in Replicas, IndInv, Crash(r)
  PROVE  IndInv'
<1> USE DEF IndInv
<1>1. UNCHANGED <<status, resolvedBy, home, seen, overdue, held, audit, faults>>
  BY DEF Crash, rowVars
<1>2. /\ pc' \in [Calls -> CallPcs] /\ outcome' \in [Calls -> Outcomes]
      /\ crashes' \in Nat
      /\ \A c \in Calls :
           \/ pc'[c] = pc[c] /\ outcome'[c] = outcome[c]
           \/ pc'[c] = "done" /\ outcome'[c] = "lost"
  BY DEF Crash, TypeOK, CallPcs, Outcomes
<1>3. /\ DOMAIN dec' = Decisions
      /\ \A d \in Decisions : dec'[d] = dec[d] \/ dec'[d] = [dec[d] EXCEPT !.pc = "lost"]
      /\ dec' = [d \in Decisions |-> dec'[d]]
  BY DEF Crash
<1>4. TypeOK'
  BY <1>1, <1>2, <1>3 DEF TypeOK, DecisionPcs
<1>5. DecisionInv'
  BY <1>3 DEF DecisionInv, TypeOK
<1>6. ProgressInv' /\ SeenInv' /\ ApprovedInv' /\ OutcomeInv'
  BY <1>1, <1>2 DEF ProgressInv, SeenInv, ApprovedInv, OutcomeInv, Waiting
<1> QED BY <1>4, <1>5, <1>6

LEMMA NextIndInv == IndInv /\ [Next]_vars => IndInv'
<1> SUFFICES ASSUME IndInv, [Next]_vars PROVE IndInv'
  OBVIOUS
<1>1. CASE UNCHANGED vars
  BY <1>1 DEF vars, IndInv, TypeOK, ProgressInv, SeenInv, DecisionInv,
              ApprovedInv, OutcomeInv
<1>2. CASE Next
  BY <1>2, HookIndInv, DecisionIndInv, CrashIndInv DEF Next
<1> QED BY <1>1, <1>2

-----------------------------------------------------------------------------
\* The inductive invariant holds in every reachable state.
THEOREM Invariance == Spec => []IndInv
BY InitIndInv, NextIndInv, PTL DEF Spec

\* Every variable keeps its type.
THEOREM TypeCorrect == Spec => []TypeOK
<1>1. IndInv => TypeOK
  BY DEF IndInv
<1> QED BY Invariance, <1>1, PTL

\* A held call runs only when somebody other than its maker has approved it
\* (approval.service.ts, decide and waitFor; approval-hook.ts, onToolCall).
THEOREM ApprovalSafety == Spec => []OnlyApprovedCallsRun
<1>1. IndInv => OnlyApprovedCallsRun
  BY DEF IndInv, OnlyApprovedCallsRun, ApprovedInv, OutcomeInv
<1> QED BY Invariance, <1>1, PTL

\* The caller is told what the row says, also when a decision and the
\* deadline race (approval.service.ts, waitFor).
THEOREM AnswerSafety == Spec => []CallerToldTheVerdict
<1>1. IndInv => CallerToldTheVerdict
  BY DEF IndInv, CallerToldTheVerdict, OutcomeInv
<1> QED BY Invariance, <1>1, PTL

-----------------------------------------------------------------------------
(* Refinement.                                                             *)

LEMMA InitRefines == Init => Abstract!MCInit
BY DEF Init, Abstract!MCInit, Released

\* An update that finds the row pending is the abstract step, else a stutter.
LEMMA ResolveRefines ==
  ASSUME NEW c \in Calls, NEW v \in Final, NEW u \in Users \cup {Nobody},
         ResolveRow(c, v, u), UNCHANGED Released,
         \/ v = "expired" /\ u = Nobody
         \/ /\ v \in Verdicts /\ u \in Users
            /\ v = "approved" => u # Requester[c]
  PROVE  [Abstract!MCNext]_(Abstract!mcvars)
<1>1. CASE status[c] # "pending"
  BY <1>1 DEF ResolveRow, rowVars, Abstract!mcvars
<1>2. CASE status[c] = "pending" /\ v = "expired" /\ u = Nobody
  <2>1. Abstract!Expire(c)
    BY <1>2 DEF ResolveRow, Abstract!Expire
  <2> QED BY <2>1 DEF Abstract!MCNext
<1>3. CASE /\ status[c] = "pending" /\ v \in Verdicts /\ u \in Users
           /\ v = "approved" => u # Requester[c]
  <2>1. Abstract!Resolve(c, u, v)
    BY <1>3 DEF ResolveRow, Abstract!Resolve
  <2>2. v \in Abstract!Verdicts
    BY <1>3 DEF Verdicts, Abstract!Verdicts
  <2> QED BY <1>3, <2>1, <2>2 DEF Abstract!MCNext
<1> QED BY <1>1, <1>2, <1>3

LEMMA HookRefines ==
  ASSUME NEW c \in Calls, IndInv,
         \/ Arrive(c) \/ Request(c) \/ ReadRow(c) \/ ActOnRow(c)
         \/ PollTimer(c) \/ Elapse(c) \/ ExpireRow(c) \/ Reread(c)
         \/ HookFault(c)
  PROVE  [Abstract!MCNext]_(Abstract!mcvars)
<1> USE DEF IndInv
<1>1. CASE Arrive(c)
  <2>1. UNCHANGED rowVars
    BY <1>1 DEF Arrive
  <2>2. /\ \A k \in Calls \ {c} : held'[k] = held[k] /\ outcome'[k] = outcome[k]
        /\ outcome[c] = "none"
        /\ outcome'[c] = "none" \/ held'[c] = FALSE
    BY <1>1 DEF Arrive, Finish, TypeOK, ProgressInv
  <2>3. UNCHANGED Released
    BY <2>2 DEF Released
  <2> QED BY <2>1, <2>3 DEF rowVars, Abstract!mcvars
<1>2. CASE Request(c)
  <2>1. /\ status[c] = "none"
        /\ status' = [status EXCEPT ![c] = "pending"]
        /\ UNCHANGED <<resolvedBy, held, outcome>>
    BY <1>2 DEF Request, ProgressInv
  <2>2. Abstract!Submit(c)
    BY <2>1 DEF Abstract!Submit, Released
  <2> QED BY <2>2 DEF Abstract!MCNext
<1>3. CASE ReadRow(c) \/ PollTimer(c) \/ Elapse(c)
  BY <1>3 DEF ReadRow, PollTimer, Elapse, rowVars, Released, Abstract!mcvars
<1>4. ASSUME UNCHANGED <<status, resolvedBy, held>>,
             NEW s \in Statuses, s = "approved" => status[c] = "approved",
             outcome' = [outcome EXCEPT ![c] = OutcomeOf(s)],
             outcome[c] = "none"
      PROVE  [Abstract!MCNext]_(Abstract!mcvars)
  <2>1. CASE s = "approved" /\ held[c]
    <3>1. Released' = Released \cup {c}
      BY <1>4, <2>1 DEF Released, OutcomeOf, TypeOK
    <3>2. Abstract!Release(c)
      BY <1>4, <2>1, <3>1 DEF Abstract!Release
    <3> QED BY <3>2 DEF Abstract!MCNext
  <2>2. CASE ~(s = "approved" /\ held[c])
    <3>1. UNCHANGED Released
      BY <1>4, <2>2 DEF Released, OutcomeOf, TypeOK
    <3> QED BY <1>4, <3>1 DEF Abstract!mcvars
  <2> QED BY <2>1, <2>2
<1>5. CASE ActOnRow(c)
  <2>1. /\ UNCHANGED <<status, resolvedBy, held>>
        /\ outcome[c] = "none"
        /\ seen[c] \in Statuses
        /\ seen[c] = "approved" => status[c] = "approved"
        /\ \/ outcome' = [outcome EXCEPT ![c] = OutcomeOf(seen[c])]
           \/ outcome' = outcome
    BY <1>5 DEF ActOnRow, Finish, ProgressInv, SeenInv, Final, TypeOK, rowVars
  <2>2. CASE outcome' = outcome
    BY <2>1, <2>2 DEF Released, Abstract!mcvars
  <2> QED BY <1>4, <2>1, <2>2
<1>6. CASE Reread(c)
  <2>1. /\ UNCHANGED <<status, resolvedBy, held>>
        /\ outcome[c] = "none"
        /\ status[c] \in Statuses
        /\ outcome' = [outcome EXCEPT ![c] = OutcomeOf(status[c])]
    BY <1>6 DEF Reread, Finish, LateOutcome, ProgressInv, TypeOK, rowVars
  <2> QED BY <1>4, <2>1
<1>7. CASE ExpireRow(c)
  <2>1. ResolveRow(c, "expired", Nobody) /\ UNCHANGED Released
    BY <1>7 DEF ExpireRow, Released
  <2> QED BY <2>1, ResolveRefines DEF Final
<1>8. CASE HookFault(c)
  <2>1. UNCHANGED Released
    <3>1. /\ outcome[c] = "none" /\ UNCHANGED held
          /\ outcome' = [outcome EXCEPT ![c] = "error"]
      BY <1>8 DEF HookFault, Finish, ProgressInv
    <3> QED BY <3>1 DEF Released, TypeOK
  <2>2. CASE UNCHANGED rowVars
    BY <2>1, <2>2 DEF rowVars, Abstract!mcvars
  <2>3. CASE /\ pc[c] = "create"
             /\ status' = [status EXCEPT ![c] = "pending"]
             /\ UNCHANGED resolvedBy
    <3>1. Abstract!Submit(c)
      BY <2>1, <2>3 DEF Abstract!Submit, ProgressInv
    <3> QED BY <3>1 DEF Abstract!MCNext
  <2>4. CASE ResolveRow(c, "expired", Nobody)
    BY <2>1, <2>4, ResolveRefines DEF Final
  <2> QED BY <1>8, <2>2, <2>3, <2>4 DEF HookFault
<1> QED BY <1>1, <1>2, <1>3, <1>5, <1>6, <1>7, <1>8

LEMMA DecisionRefines ==
  ASSUME NEW d \in Decisions, IndInv,
         DecideCheck(d) \/ DecideResolve(d) \/ DecideAnswer(d) \/ DecideFault(d)
  PROVE  [Abstract!MCNext]_(Abstract!mcvars)
<1> USE DEF IndInv
<1>1. UNCHANGED Released
  BY DEF DecideCheck, DecideResolve, DecideAnswer, DecideFault, callVars,
         Released
<1>2. CASE UNCHANGED rowVars
  BY <1>1, <1>2 DEF rowVars, Abstract!mcvars
<1>3. CASE dec[d].pc = "resolve"
           /\ ResolveRow(dec[d].call, dec[d].verdict, dec[d].by)
  <2>1. /\ dec[d].call \in Calls /\ dec[d].by \in Users
        /\ dec[d].verdict \in Verdicts
        /\ dec[d].verdict = "approved" => dec[d].by # Requester[dec[d].call]
    BY <1>3 DEF DecisionInv, TypeOK
  <2> QED BY <1>1, <1>3, <2>1, ResolveRefines DEF Verdicts, Final
<1> QED BY <1>2, <1>3 DEF DecideCheck, DecideResolve, DecideAnswer, DecideFault

LEMMA CrashRefines ==
  ASSUME NEW r \in Replicas, IndInv, Crash(r)
  PROVE  UNCHANGED Abstract!mcvars
<1>1. /\ UNCHANGED <<rowVars, held>>
      /\ \A c \in Calls : outcome'[c] = outcome[c]
                          \/ (outcome[c] = "none" /\ outcome'[c] = "lost")
  BY DEF Crash, IndInv, ProgressInv
<1>2. UNCHANGED Released
  BY <1>1 DEF Released
<1> QED BY <1>1, <1>2 DEF rowVars, Abstract!mcvars

LEMMA NextRefines ==
  IndInv /\ [Next]_vars => [Abstract!MCNext]_(Abstract!mcvars)
<1> SUFFICES ASSUME IndInv, [Next]_vars
             PROVE  [Abstract!MCNext]_(Abstract!mcvars)
  OBVIOUS
<1>1. CASE UNCHANGED vars
  BY <1>1 DEF vars, Abstract!mcvars, Released
<1>2. CASE Next
  BY <1>2, HookRefines, DecisionRefines, CrashRefines DEF Next
<1> QED BY <1>1, <1>2

\* The gate with its polling, races, faults and crashes is a maker-checker.
THEOREM Refinement == Spec => ImplementsMakerChecker
<1>1. Init => Abstract!MCInit
  BY InitRefines
<1>2. IndInv /\ [Next]_vars => [Abstract!MCNext]_(Abstract!mcvars)
  BY NextRefines
<1> QED BY <1>1, <1>2, Invariance, PTL
        DEF Spec, ImplementsMakerChecker, Abstract!MCSpec

\* No race, retry or crash changes a verdict once it is in the row.
THEOREM FinalVerdicts == Spec => VerdictIsFinal
<1>1. ASSUME IndInv, [Next]_vars, NEW c \in Calls, status[c] \in Final
      PROVE  UNCHANGED <<status[c], resolvedBy[c]>>
  <2>1. [Abstract!MCNext]_(Abstract!mcvars)
    BY <1>1, NextRefines
  <2>2. status \in [Calls -> Statuses]
        /\ resolvedBy \in [Calls -> Users \cup {Nobody}]
    BY <1>1 DEF IndInv, TypeOK
  <2> QED
    BY <1>1, <2>1, <2>2
       DEF Final, Abstract!MCNext, Abstract!mcvars, Abstract!Submit,
           Abstract!Resolve, Abstract!Expire, Abstract!Release
<1>2. IndInv /\ [Next]_vars =>
        [\A c \in Calls : status[c] \in {"approved", "denied", "expired"} =>
           UNCHANGED <<status[c], resolvedBy[c]>>]_vars
  BY <1>1 DEF Final
<1> QED BY <1>2, Invariance, PTL DEF Spec, VerdictIsFinal

-----------------------------------------------------------------------------
\* A verdict in the row is on the trail, or its author's request has stored
\* it and not yet answered, or never will.
Owes(d, c) ==
  /\ dec[d].pc \in {"answer", "lost"}
  /\ dec[d].call = c /\ dec[d].by = resolvedBy[c] /\ dec[d].verdict = status[c]
OnTrail(c) == [call |-> c, by |-> resolvedBy[c], verdict |-> status[c]] \in audit
TrailInv ==
  faults = 0 =>
    \A c \in Calls : status[c] \in Verdicts => OnTrail(c) \/ \E d \in Decisions : Owes(d, c)

\* No step of a hook writes a verdict.
LEMMA HooksWriteNoVerdict ==
  ASSUME TypeOK, NEW c \in Calls,
         \/ Arrive(c) \/ Request(c) \/ ReadRow(c) \/ ActOnRow(c)
         \/ PollTimer(c) \/ Elapse(c) \/ ExpireRow(c) \/ Reread(c)
         \/ HookFault(c),
         NEW k \in Calls, status'[k] \in Verdicts
  PROVE  status'[k] = status[k] /\ resolvedBy'[k] = resolvedBy[k]
<1>1. CASE Request(c)
  BY <1>1 DEF Request, TypeOK, Verdicts
<1>2. CASE ExpireRow(c)
  BY <1>2 DEF ExpireRow, ResolveRow, rowVars, TypeOK, Verdicts
<1>3. CASE HookFault(c)
  BY <1>3 DEF HookFault, ResolveRow, rowVars, TypeOK, Verdicts
<1>. QED BY <1>1, <1>2, <1>3 DEF Arrive, ReadRow, ActOnRow, PollTimer, Elapse, Reread, rowVars

LEMMA TrailStep == IndInv /\ TrailInv /\ [Next]_vars => TrailInv'
<1>. SUFFICES ASSUME IndInv, TrailInv, [Next]_vars, faults' = 0,
                     NEW c \in Calls, status'[c] \in Verdicts
              PROVE  OnTrail(c)' \/ \E d \in Decisions : Owes(d, c)'
  BY DEF TrailInv
<1>0. TypeOK /\ DecisionInv
  BY DEF IndInv
<1>1. ASSUME faults = 0, status'[c] = status[c], resolvedBy'[c] = resolvedBy[c]
      PROVE  OnTrail(c) \/ \E d \in Decisions : Owes(d, c)
  BY <1>1 DEF TrailInv
<1>2. ASSUME NEW k \in Calls,
             \/ Arrive(k) \/ Request(k) \/ ReadRow(k) \/ ActOnRow(k)
             \/ PollTimer(k) \/ Elapse(k) \/ ExpireRow(k) \/ Reread(k)
             \/ HookFault(k)
      PROVE  OnTrail(c)' \/ \E d \in Decisions : Owes(d, c)'
  <2>1. faults = 0 /\ UNCHANGED <<audit, dec>>
    BY <1>0, <1>2 DEF Arrive, Request, ReadRow, ActOnRow, PollTimer, Elapse, ExpireRow, Reread,
      HookFault, DbFault, TypeOK
  <2>2. status'[c] = status[c] /\ resolvedBy'[c] = resolvedBy[c]
    BY <1>0, <1>2, HooksWriteNoVerdict
  <2>. QED BY <1>1, <2>1, <2>2 DEF OnTrail, Owes
<1>3. ASSUME NEW d \in Decisions, DecideCheck(d)
      PROVE  OnTrail(c)' \/ \E e \in Decisions : Owes(e, c)'
  <2>1. /\ faults = 0 /\ UNCHANGED <<audit, rowVars>> /\ dec[d].pc = "idle"
        /\ \A e \in Decisions \ {d} : dec'[e] = dec[e]
    BY <1>0, <1>3 DEF DecideCheck, TypeOK
  <2>2. \A e \in Decisions : Owes(e, c) => Owes(e, c)'
    BY <2>1 DEF Owes, rowVars
  <2>. QED BY <1>1, <2>1, <2>2 DEF OnTrail, rowVars
<1>4. ASSUME NEW d \in Decisions, DecideResolve(d)
      PROVE  OnTrail(c)' \/ \E e \in Decisions : Owes(e, c)'
  <2>1. /\ faults = 0 /\ UNCHANGED audit /\ dec[d].pc = "resolve" /\ dec'[d].pc = "answer"
        /\ dec'[d].call = dec[d].call /\ dec'[d].by = dec[d].by
        /\ dec'[d].verdict = dec[d].verdict
        /\ \A e \in Decisions \ {d} : dec'[e] = dec[e]
        /\ ResolveRow(dec[d].call, dec[d].verdict, dec[d].by)
    BY <1>0, <1>4 DEF DecideResolve, TypeOK
  <2>2. CASE dec[d].call = c /\ status[c] = "pending"
    <3>1. status'[c] = dec[d].verdict /\ resolvedBy'[c] = dec[d].by
      BY <1>0, <2>1, <2>2 DEF ResolveRow, TypeOK
    <3>. QED BY <2>1, <2>2, <3>1 DEF Owes
  <2>3. CASE ~(dec[d].call = c /\ status[c] = "pending")
    <3>1. status'[c] = status[c] /\ resolvedBy'[c] = resolvedBy[c]
      BY <1>0, <2>1, <2>3 DEF ResolveRow, rowVars, TypeOK
    <3>2. \A e \in Decisions : Owes(e, c) => Owes(e, c)'
      BY <2>1, <3>1 DEF Owes
    <3>. QED BY <1>1, <2>1, <3>1, <3>2 DEF OnTrail
  <2>. QED BY <2>2, <2>3
<1>5. ASSUME NEW d \in Decisions, DecideAnswer(d)
      PROVE  OnTrail(c)' \/ \E e \in Decisions : Owes(e, c)'
  <2>1. /\ faults = 0 /\ UNCHANGED rowVars /\ audit' = audit \cup {AuditEntry(d)}
        /\ \A e \in Decisions \ {d} : dec'[e] = dec[e]
    BY <1>0, <1>5 DEF DecideAnswer, DbFault, TypeOK
  <2>2. Owes(d, c) => OnTrail(c)'
    BY <2>1 DEF Owes, OnTrail, AuditEntry, rowVars
  <2>3. \A e \in Decisions \ {d} : Owes(e, c) => Owes(e, c)'
    BY <2>1 DEF Owes, rowVars
  <2>4. OnTrail(c) => OnTrail(c)'
    BY <2>1 DEF OnTrail, rowVars
  <2>. QED BY <1>1, <2>1, <2>2, <2>3, <2>4 DEF rowVars
<1>6. ASSUME NEW d \in Decisions, DecideFault(d) PROVE FALSE
  BY <1>0, <1>6 DEF DecideFault, DbFault, TypeOK
<1>7. ASSUME NEW r \in Replicas, Crash(r)
      PROVE  OnTrail(c)' \/ \E e \in Decisions : Owes(e, c)'
  <2>1. /\ faults = 0 /\ UNCHANGED <<audit, rowVars>>
        /\ \A e \in Decisions :
             \/ dec'[e] = dec[e]
             \/ dec'[e] = [dec[e] EXCEPT !.pc = "lost"]
    BY <1>7 DEF Crash
  <2>2. ASSUME NEW e \in Decisions, Owes(e, c) PROVE Owes(e, c)'
    <3>1. dec[e] \in [pc : DecisionPcs, call : Calls \cup {Nobody}, by : Users \cup {Nobody},
                      verdict : Verdicts, at : Replicas \cup {Nobody}]
      BY <1>0 DEF TypeOK
    <3>2. CASE dec'[e] = dec[e]
      BY <2>1, <2>2, <3>2 DEF Owes, rowVars
    <3>3. CASE dec'[e] = [dec[e] EXCEPT !.pc = "lost"]
      <4>1. /\ dec'[e].pc = "lost" /\ dec'[e].call = dec[e].call
            /\ dec'[e].by = dec[e].by /\ dec'[e].verdict = dec[e].verdict
        BY <3>1, <3>3
      <4>. QED BY <2>1, <2>2, <4>1 DEF Owes, rowVars
    <3>. QED BY <2>1, <3>2, <3>3
  <2>. QED BY <1>1, <2>1, <2>2 DEF OnTrail, rowVars
<1>8. CASE UNCHANGED vars
  BY <1>1, <1>8 DEF vars, OnTrail, Owes
<1>. QED BY <1>2, <1>3, <1>4, <1>5, <1>6, <1>7, <1>8 DEF Next

\* Whatever raced, a verdict is on the trail under its author's name once every
\* decision that was stored has been answered and none was lost in a crash.
THEOREM TrailKeepsUp == Spec => []VerdictOnTrail
<1>1. Init => TrailInv
  BY DEF Init, TrailInv, Verdicts
<1>2. TrailInv => VerdictOnTrail
  BY DEF TrailInv, VerdictOnTrail, OnTrail, Owes
<1>. QED BY <1>1, <1>2, TrailStep, Invariance, PTL DEF Spec

-------------------------------------------------------------------------------
(* The OAuth client: what its state consists of; every authorization but a *)
(* new one has an issuer, and from the choice of a client on it has one.   *)

Forms0 == [issuer : Issuers \cup {None}, app : BOOLEAN]
Rows == [there : BOOLEAN, as : Issuers \cup {None}, client : Nat \cup {None},
         access : {"none", "fresh", "stale"}, refresh : RefreshTokens \cup {None}, op : Forms0]
Chosen == {"select", "insert", "update", "pending", "gc", "sent"}
StartRecords == [at : Chosen \cup {"new", "client", "failed"}, as : Issuers \cup {None},
                 app : BOOLEAN, client : Nat \cup {None}]
CallbackRecords == [at : {"new", "take", "config", "exchange", "save", "done", "failed"},
                    s : Starts \cup {None}, cfg : Rows, refresh : RefreshTokens \cup {None}]
ConnectionRecords == [at : {"new", "exchange", "save", "done", "failed"},
                      cfg : Rows, refresh : RefreshTokens \cup {None}]
Histories == [expiries : Nat, edits : Nat, upsets : Nat, forms : SUBSET [as : Issuers, app : BOOLEAN],
              startsOverlap : BOOLEAN, overlap : BOOLEAN, presented : [Starts -> Nat],
              strayed : SUBSET Starts]

Ground ==
  /\ bound \in Scenarios /\ policy \in Policies /\ server \in BOOLEAN
  /\ pending \in [Starts -> {"live", "expired", "none"}]
  /\ clients \in [Issuers -> Nat]
  /\ code \in [Starts -> IssuedCodes \cup {None}]
  /\ spent \subseteq Starts
  /\ live \subseteq RefreshTokens
StartsTyped ==
  /\ start \in [Starts -> StartRecords]
  /\ \A s \in Starts : /\ start[s].at # "new" => start[s].as # None
                       /\ start[s].at \in Chosen => start[s].client # None
CallbacksTyped ==
  /\ cb \in [Callbacks -> CallbackRecords]
  /\ \A k \in Callbacks : cb[k].at # "new" => cb[k].s \in Starts
UpstreamTypes ==
  /\ Ground /\ StartsTyped /\ CallbacksTyped
  /\ conn \in [Connections -> ConnectionRecords]
  /\ row \in Rows /\ history \in Histories

(* Codes: the callback that deleted the pending row is the only one on the way to  *)
(* the token endpoint, and nothing has been presented there for its authorization  *)
Winner(k) == cb[k].at \in {"config", "exchange"}
Unsent == {"new", "client", "select", "insert", "update", "pending"}
CodesGiven ==
  \A s \in Starts :
    /\ start[s].at \in Unsent => pending[s] = "none"
    /\ code[s] # None => /\ start[s].at = "sent"
                         /\ code[s] = [as |-> start[s].as, client |-> start[s].client]
PresentedOnce ==
  \A s \in Starts :
    /\ history.presented[s] <= 1
    /\ history.presented[s] # 0 => pending[s] = "none" /\ code[s] # None
    /\ s \in spent => history.presented[s] # 0
OneWinner ==
  /\ \A k \in Callbacks :
       /\ cb[k].at # "new" => code[cb[k].s] # None
       /\ Winner(k) => pending[cb[k].s] = "none" /\ history.presented[cb[k].s] = 0
  /\ \A j, k \in Callbacks : Winner(j) /\ Winner(k) /\ cb[j].s = cb[k].s => j = k
CodesOnce == CodesGiven /\ PresentedOnce /\ OneWinner

(* One app: every authorization's form is noted, the row's client comes from one   *)
(* of them, and while there is one form and no overlap the client every later      *)
(* authorization chooses, the row's and the one its code was given to are the same *)
FormOf(s) == [as |-> start[s].as, app |-> start[s].app]
FormsNoted ==
  /\ IsFiniteSet(history.forms)
  /\ \A s \in Starts : /\ start[s].at # "new" => FormOf(s) \in history.forms
                       /\ start[s].at \in Chosen /\ start[s].app => start[s].client = App
  /\ row.client # None =>
       row.there /\ \E f \in history.forms : row.as = f.as /\ (f.app => row.client = App)
OneAtATime == ~history.startsOverlap => \A s, t \in Starts : Starting(s) /\ Starting(t) => s = t
Asked == FormsNoted /\ OneAtATime

ClientHeld(s) ==
  /\ start[s].at \in {"select", "insert", "update"} /\ row.client # None => start[s].client = row.client
  /\ start[s].at \in {"pending", "gc", "sent"} => row.as = start[s].as /\ row.client = start[s].client
ClientKept ==
  OneApp => /\ \A s \in Starts : ClientHeld(s)
            /\ \A k \in Callbacks : cb[k].at = "exchange" => AsIssued(k)
            /\ history.strayed = {}

(* Tokens: whoever holds one, stored, about to store it or about to send it, it    *)
(* comes from a code that was exchanged                                            *)
CbHas(k, x) == cb[k].at = "save" /\ cb[k].refresh = x
ConnHas(c, x) == conn[c].at = "save" /\ conn[c].refresh = x
Asks(c, x) == conn[c].at = "exchange" /\ conn[c].cfg.refresh = x
Held(x) == \/ row.refresh = x
           \/ \E k \in Callbacks : CbHas(k, x)
           \/ \E c \in Connections : ConnHas(c, x) \/ Asks(c, x)
OfGrant(x) == x.grant \in spent /\ code[x.grant] = [as |-> x.as, client |-> x.client]
TokensIssued ==
  /\ \A x \in RefreshTokens : x \in live \/ Held(x) => OfGrant(x)
  /\ policy = "none" =>
       /\ live = {} /\ row.refresh = None
       /\ \A c \in Connections : conn[c].at \notin {"exchange", "save"}
  /\ policy # "none" =>
       /\ row.access # "none" => row.refresh # None
       /\ \A k \in Callbacks : cb[k].at = "save" => cb[k].refresh # None
  /\ policy = "none" => \A k \in Callbacks : cb[k].at = "save" => cb[k].refresh = None
  /\ \A c \in Connections : /\ conn[c].at = "exchange" => conn[c].cfg.refresh # None
                            /\ conn[c].at = "save" => conn[c].refresh # None

(* Undisturbed, what is about to be stored is accepted and about to be stored once, *)
(* it is the newest of its grant, and a stored token that is no longer accepted has *)
(* a successor about to be stored                                                  *)
Rotating == policy \in {"rotates", "detects"}
Saves(x) == (\E k \in Callbacks : CbHas(k, x)) \/ (\E c \in Connections : ConnHas(c, x))
SaversLive == \A x \in RefreshTokens : Saves(x) => x \in live
RowLive ==
  policy # "none" /\ row.access # "none" /\ row.refresh \notin live =>
    Rotating /\ \E c \in Connections : conn[c].at = "save"
Newest ==
  /\ \A x, y \in live : x.grant = y.grant => x = y
  /\ \A x \in live, y \in RefreshTokens : Held(y) /\ y.grant = x.grant => y.n <= x.n
SavedOnce ==
  \A x \in RefreshTokens :
    /\ Saves(x) => row.refresh # x /\ \A c \in Connections : ~Asks(c, x)
    /\ \A j, k \in Callbacks : CbHas(j, x) /\ CbHas(k, x) => j = k
    /\ \A c, d \in Connections : ConnHas(c, x) /\ ConnHas(d, x) => c = d
    /\ \A k \in Callbacks, c \in Connections : ~(CbHas(k, x) /\ ConnHas(c, x))
OneByOne ==
  /\ \A c, d \in Connections : Refreshing(c) /\ Refreshing(d) => c = d
  /\ \A c \in Connections : conn[c].at = "exchange" => Known(c)
Fresh ==
  /\ SaversLive /\ RowLive
  /\ Rotating => Newest /\ SavedOnce
  /\ policy = "detects" => OneByOne
Grants == Undisturbed => Fresh

-------------------------------------------------------------------------------
USE UpstreamOAuthConstants

LEMMA NoneApart ==
  /\ None \notin Nat /\ None \notin Issuers
  /\ \A r \in IssuedCodes \cup RefreshTokens : r # None
  /\ NoForm \in Forms0 /\ NoRow \in Rows
  BY DEF NoForm, NoRow, Forms0, Rows

LEMMA RowUpdates ==
  ASSUME NEW r \in Rows
  PROVE  /\ \A a \in {"none", "fresh", "stale"} : [r EXCEPT !.access = a] \in Rows
         /\ \A x \in RefreshTokens \cup {None} : [r EXCEPT !.access = "fresh", !.refresh = x] \in Rows
         /\ \A form \in Forms0 : [r EXCEPT !.there = TRUE, !.op = form] \in Rows
         /\ \A i \in Issuers, n \in Nat : [r EXCEPT !.there = TRUE, !.as = i, !.client = n] \in Rows
  BY DEF Rows

LEMMA HistoryUpdates ==
  ASSUME NEW h \in Histories
  PROVE  /\ [h EXCEPT !.expiries = @ + 1] \in Histories
         /\ [h EXCEPT !.edits = @ + 1] \in Histories
         /\ [h EXCEPT !.upsets = @ + 1] \in Histories
         /\ \A f \in SUBSET [as : Issuers, app : BOOLEAN], b \in BOOLEAN :
              [h EXCEPT !.forms = f, !.startsOverlap = b] \in Histories
         /\ \A b \in BOOLEAN : [h EXCEPT !.overlap = b] \in Histories
         /\ \A n \in [Starts -> Nat], z \in SUBSET Starts :
              [h EXCEPT !.presented = n, !.strayed = z] \in Histories
<1>1. /\ [h EXCEPT !.expiries = @ + 1] \in Histories
      /\ [h EXCEPT !.edits = @ + 1] \in Histories
      /\ [h EXCEPT !.upsets = @ + 1] \in Histories
  BY DEF Histories
<1>2. ASSUME NEW f \in SUBSET [as : Issuers, app : BOOLEAN], NEW b \in BOOLEAN
      PROVE  [h EXCEPT !.forms = f, !.startsOverlap = b] \in Histories
  <2>1. [h EXCEPT !.forms = f] \in Histories
    BY DEF Histories
  <2>2. \A g \in Histories : [g EXCEPT !.startsOverlap = b] \in Histories
    BY DEF Histories
  <2>3. [h EXCEPT !.forms = f, !.startsOverlap = b] = [[h EXCEPT !.forms = f] EXCEPT !.startsOverlap = b]
    BY DEF Histories
  <2> QED
    BY <2>1, <2>2, <2>3
<1>3. \A b \in BOOLEAN : [h EXCEPT !.overlap = b] \in Histories
  BY DEF Histories
<1>4. \A n \in [Starts -> Nat], z \in SUBSET Starts : [h EXCEPT !.presented = n, !.strayed = z] \in Histories
  BY DEF Histories
<1> QED
  BY <1>1, <1>2, <1>3, <1>4

LEMMA InitTypes == OAuthInit => UpstreamTypes
<1> SUFFICES ASSUME OAuthInit PROVE UpstreamTypes
  OBVIOUS
<1>1. Ground
  BY DEF OAuthInit, Ground
<1>2. history \in Histories
  BY DEF OAuthInit, Histories
<1>3. StartsTyped /\ CallbacksTyped /\ conn \in [Connections -> ConnectionRecords] /\ row \in Rows
  BY NoneApart DEF OAuthInit, StartsTyped, CallbacksTyped, StartRecords, CallbackRecords, ConnectionRecords,
       NoStart, NoCallback, NoConnection, Chosen
<1> QED
  BY <1>1, <1>2, <1>3 DEF UpstreamTypes

LEMMA StartTypes ==
  ASSUME UpstreamTypes, CodesOnce, NEW s \in Starts, StartSteps(s)
  PROVE  UpstreamTypes'
<1>1. start[s] \in StartRecords
  BY DEF UpstreamTypes, StartsTyped
<1>2. ASSUME NEW at, StartTo(s, at), at \in Chosen \cup {"client", "failed"}, start[s].at # "new",
             at \in Chosen => start[s].at \in Chosen
      PROVE  StartsTyped'
  BY <1>1, <1>2 DEF StartTo, UpstreamTypes, StartsTyped, StartRecords, Chosen
<1>3. ASSUME NEW form \in bound.asked, BeginStart(s, form)
      PROVE  UpstreamTypes'
  <2>1. form \in Forms0
    BY <1>3 DEF UpstreamTypes, Ground, Forms0
  <2> DEFINE eff == EffectiveConfig(form)
             as == IF eff.issuer # None THEN eff.issuer ELSE Home
  <2>2. as \in Issuers /\ eff.app \in BOOLEAN
    BY <2>1 DEF EffectiveConfig, UpstreamTypes, Rows, Forms0
  <2>3. /\ start' = [start EXCEPT ![s] = [at |-> "client", as |-> as, app |-> eff.app, client |-> None]]
        /\ history' = [history EXCEPT !.forms = @ \cup {[as |-> as, app |-> eff.app]},
                                !.startsOverlap = @ \/ \E t \in Starts \ {s} : Starting(t)]
        /\ UNCHANGED <<server, row, pending, cb, conn, provider>>
    BY <1>3, Zenon DEF BeginStart
  <2> HIDE DEF as, eff
  <2>4. StartsTyped'
    BY <1>1, <2>2, <2>3 DEF UpstreamTypes, StartsTyped, StartRecords, Chosen
  <2>5. history' \in Histories
    <3>1. history.forms \cup {[as |-> as, app |-> eff.app]} \in SUBSET [as : Issuers, app : BOOLEAN]
      <4>1. history.forms \in SUBSET [as : Issuers, app : BOOLEAN]
        BY Zenon DEF UpstreamTypes, Histories
      <4>2. [as |-> as, app |-> eff.app] \in [as : Issuers, app : BOOLEAN]
        BY <2>2, Zenon
      <4> QED
        BY <4>1, <4>2, Zenon
    <3>2. (history.startsOverlap \/ \E t \in Starts \ {s} : Starting(t)) \in BOOLEAN
      OBVIOUS
    <3> QED
      BY <2>3, <3>1, <3>2, HistoryUpdates, Zenon DEF UpstreamTypes
  <2> QED
    BY <2>3, <2>4, <2>5 DEF UpstreamTypes, Ground, CallbacksTyped, provider
<1>4. CASE ChooseClient(s)
  <2>1. StartsTyped'
    BY <1>1, <1>4 DEF ChooseClient, StartTo, Reusable, UpstreamTypes, Ground, StartsTyped, StartRecords, Rows, Chosen, App
  <2>2. clients' \in [Issuers -> Nat]
    BY <1>1, <1>4 DEF ChooseClient, UpstreamTypes, Ground, StartsTyped, StartRecords
  <2> QED
    BY <1>4, <2>1, <2>2 DEF ChooseClient, UpstreamTypes, Ground, CallbacksTyped
<1>5. CASE SelectConfig(s) \/ CreatePending(s) \/ CollectPending(s) \/ StartDies(s)
  <2>1. StartsTyped'
    BY <1>5, <1>2 DEF SelectConfig, CreatePending, CollectPending, StartDies, Starting, Chosen
  <2>2. pending' \in [Starts -> {"live", "expired", "none"}]
    BY <1>5 DEF SelectConfig, CreatePending, CollectPending, StartDies, UpstreamTypes, Ground
  <2>3. history' \in Histories
    BY <1>5, HistoryUpdates, Zenon DEF SelectConfig, CreatePending, CollectPending, StartDies, Upset, UpstreamTypes
  <2> QED
    BY <1>5, <2>1, <2>2, <2>3 DEF SelectConfig, CreatePending, CollectPending, StartDies, UpstreamTypes, Ground,
         CallbacksTyped, provider
<1>6. CASE WriteConfig(s)
  <2>1. StartsTyped'
    BY <1>6, <1>2 DEF WriteConfig, Chosen
  <2>2. row' \in Rows
    <3>1. start[s].at \in Chosen => start[s].as \in Issuers /\ start[s].client \in Nat
      BY <1>1 DEF UpstreamTypes, StartsTyped, StartRecords, Chosen
    <3> QED
      <4>1. row' = row \/ (start[s].at \in Chosen /\ row' = Configured(s))
        BY <1>6, Zenon DEF WriteConfig, Chosen
      <4>2. start[s].at \in Chosen => Configured(s) \in Rows
        BY <3>1, RowUpdates, Zenon DEF Configured, UpstreamTypes
      <4> QED
        BY <4>1, <4>2, Zenon DEF UpstreamTypes
  <2> QED
    BY <1>6, <2>1, <2>2 DEF WriteConfig, UpstreamTypes, Ground, CallbacksTyped, provider
<1>7. CASE PendingExpires(s) \/ Consent(s)
  <2>1. Consent(s) => [as |-> start[s].as, client |-> start[s].client] \in IssuedCodes
    BY <1>1 DEF Consent, UpstreamTypes, StartsTyped, StartRecords, Chosen, IssuedCodes
  <2> QED
    BY <1>7, <2>1 DEF PendingExpires, Consent, UpstreamTypes, Ground, StartsTyped, CallbacksTyped, provider
<1> QED
  BY <1>3, <1>4, <1>5, <1>6, <1>7 DEF StartSteps

LEMMA CallbackTypes ==
  ASSUME UpstreamTypes, CodesOnce, NEW k \in Callbacks, CallbackSteps(k)
  PROVE  UpstreamTypes'
<1>1. cb[k] \in CallbackRecords /\ (cb[k].at # "new" => cb[k].s \in Starts)
  BY DEF UpstreamTypes, CallbacksTyped
<1>2. ASSUME NEW s \in Starts, ReadPending(k, s)
      PROVE  UpstreamTypes'
  <2>1. CallbacksTyped'
    BY <1>1, <1>2 DEF ReadPending, UpstreamTypes, CallbacksTyped, CallbackRecords
  <2> QED
    BY <1>2, <2>1 DEF ReadPending, UpstreamTypes, Ground, StartsTyped, provider
<1>3. ASSUME NEW at \in {"config", "save", "done", "failed"}, CallbackTo(k, at), cb[k].at # "new"
      PROVE  CallbacksTyped'
  BY <1>1, <1>3 DEF CallbackTo, UpstreamTypes, CallbacksTyped, CallbackRecords
<1>4. CASE TakePending(k)
  <2>1. CallbacksTyped'
    BY <1>3, <1>4 DEF TakePending
  <2>2. pending' \in [Starts -> {"live", "expired", "none"}]
    BY <1>1, <1>4 DEF TakePending, UpstreamTypes, Ground
  <2> QED
    BY <1>4, <2>1, <2>2 DEF TakePending, UpstreamTypes, Ground, StartsTyped, provider
<1>5. CASE ReadConfig(k)
  <2>1. CallbacksTyped'
    BY <1>1, <1>5 DEF ReadConfig, UpstreamTypes, CallbacksTyped, CallbackRecords
  <2> QED
    BY <1>5, <2>1 DEF ReadConfig, UpstreamTypes, Ground, StartsTyped, provider
<1>6. CASE ExchangeCode(k)
  <2> DEFINE s == cb[k].s
  <2>1. s \in Starts /\ code[s] \in IssuedCodes
    BY <1>1, <1>6 DEF ExchangeCode, CodesOnce, OneWinner, UpstreamTypes, Ground
  <2>2. Issued(s) \in RefreshTokens \cup {None} /\ (policy # "none" => Issued(s) \in RefreshTokens)
    BY <2>1 DEF Issued, RefreshTokens, IssuedCodes
  <2>3. history' \in Histories
    <3>1. [history.presented EXCEPT ![s] = @ + 1] \in [Starts -> Nat] /\ history.strayed \in SUBSET Starts
      BY <2>1 DEF UpstreamTypes, Histories
    <3>2. (IF AsIssued(k) THEN history.strayed ELSE history.strayed \cup {s}) \in SUBSET Starts
      BY <2>1, <3>1
    <3>3. history' = [history EXCEPT !.presented = [history.presented EXCEPT ![s] = @ + 1],
                               !.strayed = IF AsIssued(k) THEN history.strayed ELSE history.strayed \cup {s}]
      BY <1>6 DEF ExchangeCode, Presents
    <3> HIDE DEF s
    <3> QED
      BY <3>1, <3>2, <3>3, HistoryUpdates, Zenon DEF UpstreamTypes
  <2>4. CallbacksTyped'
    <3>1. CASE cb' = [cb EXCEPT ![k].at = "save", ![k].refresh = Issued(s)]
      BY <1>1, <1>6, <2>2, <3>1 DEF UpstreamTypes, CallbacksTyped, CallbackRecords, ExchangeCode
    <3>2. CASE CallbackTo(k, "failed")
      BY <3>2, <1>3, <1>6 DEF ExchangeCode
    <3> QED
      BY <1>6, <3>1, <3>2, Zenon DEF ExchangeCode
  <2>5. spent' \subseteq Starts /\ live' \subseteq RefreshTokens
    BY <1>6, <2>1, <2>2 DEF ExchangeCode, UpstreamTypes, Ground
  <2> QED
    BY <1>6, <2>3, <2>4, <2>5 DEF ExchangeCode, UpstreamTypes, Ground, StartsTyped
<1>7. CASE SaveCodeTokens(k)
  <2>1. CallbacksTyped'
    BY <1>3, <1>7 DEF SaveCodeTokens
  <2>2. row' \in Rows
    BY <1>1, <1>7, RowUpdates DEF SaveCodeTokens, Stored, UpstreamTypes, CallbackRecords
  <2> QED
    BY <1>7, <2>1, <2>2 DEF SaveCodeTokens, UpstreamTypes, Ground, StartsTyped, provider
<1>8. CASE CallbackDies(k)
  <2>1. CallbacksTyped'
    BY <1>3, <1>8 DEF CallbackDies
  <2>2. history' \in Histories
    BY <1>8, HistoryUpdates, Zenon DEF CallbackDies, Upset, UpstreamTypes
  <2> QED
    BY <1>8, <2>1, <2>2 DEF CallbackDies, UpstreamTypes, Ground, StartsTyped, provider
<1> QED
  BY <1>2, <1>4, <1>5, <1>6, <1>7, <1>8 DEF CallbackSteps

LEMMA ConnectionTypes ==
  ASSUME UpstreamTypes, NEW c \in Connections, ConnectionSteps(c),
         conn[c].at = "exchange" => conn[c].cfg.refresh # None
  PROVE  UpstreamTypes'
<1>1. conn[c] \in ConnectionRecords
  BY DEF UpstreamTypes
<1>2. CASE ReadToken(c)
  <2>1. conn' \in [Connections -> ConnectionRecords]
    BY <1>1, <1>2 DEF ReadToken, UpstreamTypes, ConnectionRecords
  <2>2. history' \in Histories
    <3>1. (history.overlap \/ \E d \in Connections \ {c} : Refreshing(d)) \in BOOLEAN
      OBVIOUS
    <3> QED
      BY <1>2, <3>1, HistoryUpdates, Zenon DEF ReadToken, UpstreamTypes
  <2> QED
    BY <1>2, <2>1, <2>2 DEF ReadToken, UpstreamTypes, Ground, StartsTyped, CallbacksTyped, provider
<1>3. CASE Refresh(c)
  <2>1. conn[c].cfg.refresh \in RefreshTokens
    BY <1>1, <1>3 DEF Refresh, ConnectionRecords, Rows
  <2>2. Rotated(conn[c].cfg.refresh) \in RefreshTokens
    BY <2>1 DEF Rotated, RefreshTokens
  <2>3. live' \subseteq RefreshTokens
    BY <1>3, <2>2 DEF Refresh, UpstreamTypes, Ground
  <2>4. conn' \in [Connections -> ConnectionRecords]
    BY <1>1, <1>3, <2>1, <2>2 DEF Refresh, Kept, UpstreamTypes, ConnectionRecords
  <2> QED
    BY <1>3, <2>3, <2>4 DEF Refresh, UpstreamTypes, Ground, StartsTyped, CallbacksTyped
<1>4. CASE SaveRefreshed(c)
  <2>1. row' \in Rows
    BY <1>1, <1>4, RowUpdates DEF SaveRefreshed, Stored, UpstreamTypes, ConnectionRecords
  <2>2. conn' \in [Connections -> ConnectionRecords]
    BY <1>1, <1>4 DEF SaveRefreshed, UpstreamTypes, ConnectionRecords
  <2> QED
    BY <1>4, <2>1, <2>2 DEF SaveRefreshed, UpstreamTypes, Ground, StartsTyped, CallbacksTyped, provider
<1>5. CASE ConnectionDies(c)
  <2>1. conn' \in [Connections -> ConnectionRecords]
    BY <1>1, <1>5 DEF ConnectionDies, UpstreamTypes, ConnectionRecords
  <2>2. history' \in Histories
    BY <1>5, HistoryUpdates, Zenon DEF ConnectionDies, Upset, UpstreamTypes
  <2> QED
    BY <1>5, <2>1, <2>2 DEF ConnectionDies, UpstreamTypes, Ground, StartsTyped, CallbacksTyped, provider
<1> QED
  BY <1>2, <1>3, <1>4, <1>5 DEF ConnectionSteps

LEMMA TypesStep ==
  ASSUME UpstreamTypes, CodesOnce, [OAuthNext]_oauthVars,
         \A c \in Connections : conn[c].at = "exchange" => conn[c].cfg.refresh # None
  PROVE  UpstreamTypes'
<1>1. CASE AccessExpires
  <2>1. row' \in Rows /\ history' \in Histories
    BY <1>1, RowUpdates, HistoryUpdates DEF AccessExpires, UpstreamTypes
  <2> QED
    BY <1>1, <2>1 DEF AccessExpires, UpstreamTypes, Ground, StartsTyped, CallbacksTyped, provider
<1>2. CASE DeleteServer
  <2>1. history' \in Histories
    BY <1>2, HistoryUpdates, Zenon DEF DeleteServer, UpstreamTypes
  <2> QED
    BY <1>2, <2>1 DEF DeleteServer, UpstreamTypes, Ground, StartsTyped, CallbacksTyped, provider
<1>3. ASSUME NEW form \in bound.asked, SaveConfig(form)
      PROVE  UpstreamTypes'
  <2>1. form \in Forms0
    BY <1>3 DEF UpstreamTypes, Ground, Forms0
  <2>2. row' \in Rows /\ history' \in Histories
    BY <1>3, <2>1, RowUpdates, HistoryUpdates DEF SaveConfig, UpstreamTypes
  <2> QED
    BY <1>3, <2>2 DEF SaveConfig, UpstreamTypes, Ground, StartsTyped, CallbacksTyped, provider
<1>4. CASE UNCHANGED oauthVars
  BY <1>4 DEF oauthVars, UpstreamTypes, Ground, StartsTyped, CallbacksTyped
<1> QED
  BY <1>1, <1>2, <1>3, <1>4, StartTypes, CallbackTypes, ConnectionTypes DEF OAuthNext

-------------------------------------------------------------------------------
(* What the steps leave as it is *)
LEMMA StartMoves ==
  ASSUME UpstreamTypes, NEW s \in Starts, NEW at, StartTo(s, at)
  PROVE  /\ DOMAIN start' = DOMAIN start
         /\ \A t \in Starts : /\ start'[t].at = IF t = s THEN at ELSE start[t].at
                              /\ start'[t].as = start[t].as /\ start'[t].app = start[t].app
                              /\ start'[t].client = start[t].client
  BY DEF StartTo, UpstreamTypes, StartsTyped, StartRecords

LEMMA CallbackMoves ==
  ASSUME UpstreamTypes, NEW k \in Callbacks, NEW at, CallbackTo(k, at)
  PROVE  \A j \in Callbacks : /\ cb'[j].at = IF j = k THEN at ELSE cb[j].at
                              /\ cb'[j].s = cb[j].s /\ cb'[j].cfg = cb[j].cfg
                              /\ cb'[j].refresh = cb[j].refresh
  BY DEF CallbackTo, UpstreamTypes, CallbacksTyped, CallbackRecords

LEMMA SeenKept ==
  ASSUME UpstreamTypes
  PROVE  /\ \A n : [history EXCEPT !.expiries = n].presented = history.presented
         /\ \A n : [history EXCEPT !.expiries = n].strayed = history.strayed
         /\ \A n : [history EXCEPT !.expiries = n].forms = history.forms
         /\ Upset => /\ history'.presented = history.presented /\ history'.strayed = history.strayed
                     /\ history'.forms = history.forms /\ history'.startsOverlap = history.startsOverlap
                     /\ history'.overlap = history.overlap /\ history'.upsets = history.upsets + 1
  BY DEF UpstreamTypes, Histories, Upset

LEMMA CodesInit == OAuthInit => CodesOnce
<1> SUFFICES ASSUME OAuthInit PROVE CodesOnce
  OBVIOUS
<1>1. \A s \in Starts : /\ start[s].at = "new" /\ pending[s] = "none" /\ code[s] = None
                        /\ history.presented[s] = 0 /\ s \notin spent
  BY DEF OAuthInit, NoStart
<1>2. \A k \in Callbacks : cb[k].at = "new"
  BY DEF OAuthInit, NoCallback
<1> QED
  BY <1>1, <1>2 DEF CodesOnce, CodesGiven, PresentedOnce, OneWinner, Winner

LEMMA CodesFrame ==
  ASSUME CodesOnce, UNCHANGED <<start, pending, code, spent, cb>>, history'.presented = history.presented
  PROVE  CodesOnce'
  BY DEF CodesOnce, CodesGiven, PresentedOnce, OneWinner, Winner

LEMMA CodesOfStart ==
  ASSUME UpstreamTypes, CodesOnce, NEW s \in Starts, StartSteps(s)
  PROVE  CodesOnce'
<1>1. ASSUME NEW at, StartTo(s, at), start[s].at # "new", start[s].at # "sent", pending' = pending, code' = code, cb' = cb, spent' = spent,
             history'.presented = history.presented,
             at \in Unsent => start[s].at \in Unsent
      PROVE  CodesOnce'
  BY <1>1, StartMoves DEF CodesOnce, CodesGiven, PresentedOnce, OneWinner, Winner
<1>2. ASSUME NEW form \in bound.asked, BeginStart(s, form)
      PROVE  CodesOnce'
  <2>1. history'.presented = history.presented
    BY <1>2 DEF BeginStart, UpstreamTypes, Histories
  <2>2. \A t \in Starts : t # s => start'[t] = start[t]
    BY <1>2 DEF BeginStart, UpstreamTypes, StartsTyped
  <2>3. start[s].at = "new" /\ start'[s].at = "client"
    BY <1>2 DEF BeginStart, UpstreamTypes, StartsTyped
  <2> QED
    <3>1. UNCHANGED <<pending, cb, code, spent>>
      BY <1>2, Zenon DEF BeginStart, provider
    <3> QED
      <4>1. CodesGiven'
        BY <3>1, <2>2, <2>3 DEF CodesOnce, CodesGiven, Unsent
      <4>2. PresentedOnce' /\ OneWinner'
        BY <3>1, <2>1 DEF CodesOnce, PresentedOnce, OneWinner, Winner
      <4> QED
        BY <4>1, <4>2 DEF CodesOnce
<1>3. CASE ChooseClient(s)
  <2>1. PICK at, client : /\ start' = [start EXCEPT ![s].at = at, ![s].client = client]
                          /\ at \in {"select", "failed"}
    <3>1. CASE StartTo(s, "failed")
      <4>1. start' = [start EXCEPT ![s].at = "failed", ![s].client = start[s].client]
        BY <3>1 DEF StartTo, UpstreamTypes, StartsTyped, StartRecords
      <4> QED
        BY <4>1
    <3> QED
      BY <1>3, <3>1 DEF ChooseClient
  <2>2. start'[s].at \in {"select", "failed"} /\ \A t \in Starts : t # s => start'[t] = start[t]
    BY <2>1 DEF UpstreamTypes, StartsTyped, StartRecords
  <2>3. start[s].at = "client" /\ UNCHANGED <<pending, cb, code, spent, history>>
    BY <1>3, Zenon DEF ChooseClient
  <2>4. CodesGiven'
    BY <2>2, <2>3 DEF CodesOnce, CodesGiven, Unsent
  <2>5. PresentedOnce' /\ OneWinner'
    BY <2>3 DEF CodesOnce, PresentedOnce, OneWinner, Winner
  <2> QED
    BY <2>4, <2>5 DEF CodesOnce
<1>4. CASE SelectConfig(s)
  BY <1>1, <1>4 DEF SelectConfig, Unsent, provider
<1>5. CASE WriteConfig(s)
  BY <1>1, <1>5 DEF WriteConfig, Unsent, provider
<1>6. CASE CreatePending(s)
  BY <1>6, StartMoves DEF CreatePending, CodesOnce, CodesGiven, PresentedOnce, OneWinner, Winner, Unsent, provider, UpstreamTypes, Ground
<1>7. CASE CollectPending(s)
  <2>1. /\ start[s].at = "gc" /\ StartTo(s, "sent") /\ UNCHANGED <<cb, code, spent, history>>
        /\ \A t \in Starts : pending'[t] = IF pending[t] = "expired" THEN "none" ELSE pending[t]
    BY <1>7, Zenon DEF CollectPending, provider
  <2>2. \A t \in Starts : /\ start'[t].at = IF t = s THEN "sent" ELSE start[t].at
                          /\ start'[t].as = start[t].as /\ start'[t].client = start[t].client
    BY <2>1, StartMoves
  <2> QED
    <3>1. CodesGiven'
      BY <2>1, <2>2 DEF CodesOnce, CodesGiven, Unsent
    <3>2. PresentedOnce'
      BY <2>1 DEF CodesOnce, CodesGiven, PresentedOnce
    <3>3. OneWinner'
      BY <2>1 DEF CodesOnce, OneWinner, Winner, UpstreamTypes, CallbacksTyped
    <3> QED
      BY <3>1, <3>2, <3>3 DEF CodesOnce
<1>8. CASE PendingExpires(s)
  BY <1>8 DEF PendingExpires, CodesOnce, CodesGiven, PresentedOnce, OneWinner, Winner, Unsent, provider, UpstreamTypes, Ground
<1>9. CASE Consent(s)
  BY <1>9 DEF Consent, CodesOnce, CodesGiven, PresentedOnce, OneWinner, Winner, Unsent, UpstreamTypes, Ground
<1>10. CASE StartDies(s)
  BY <1>1, <1>10, SeenKept DEF StartDies, Starting, Unsent, provider
<1> QED
  BY <1>2, <1>3, <1>4, <1>5, <1>6, <1>7, <1>8, <1>9, <1>10 DEF StartSteps

LEMMA CodesOfCallback ==
  ASSUME UpstreamTypes, CodesOnce, NEW k \in Callbacks, CallbackSteps(k)
  PROVE  CodesOnce'
<1>1. ASSUME NEW s \in Starts, ReadPending(k, s)
      PROVE  CodesOnce'
  <2>1. cb'[k].at \in {"failed", "take"} /\ cb'[k].s = s /\ \A j \in Callbacks : j # k => cb'[j] = cb[j]
    BY <1>1 DEF ReadPending, UpstreamTypes, CallbacksTyped, CallbackRecords
  <2> QED
    BY <1>1, <2>1 DEF ReadPending, CodesOnce, CodesGiven, PresentedOnce, OneWinner, Winner, provider
<1>2. CASE TakePending(k)
  BY <1>2, CallbackMoves DEF TakePending, CodesOnce, CodesGiven, PresentedOnce, OneWinner, Winner, Wins, provider, UpstreamTypes, Ground, CallbacksTyped
<1>3. CASE ReadConfig(k)
  <2>1. cb'[k].at = "exchange" /\ cb'[k].s = cb[k].s /\ \A j \in Callbacks : j # k => cb'[j] = cb[j]
    BY <1>3 DEF ReadConfig, UpstreamTypes, CallbacksTyped, CallbackRecords
  <2> QED
    <3>1. cb[k].at = "config" /\ UNCHANGED <<start, pending, code, spent, history>>
      BY <1>3, Zenon DEF ReadConfig, provider
    <3> QED
      BY <2>1, <3>1 DEF CodesOnce, CodesGiven, PresentedOnce, OneWinner, Winner
<1>4. CASE ExchangeCode(k)
  <2> DEFINE s == cb[k].s
  <2>1. s \in Starts
    BY <1>4 DEF ExchangeCode, UpstreamTypes, CallbacksTyped
  <2>2. /\ history'.presented = [history.presented EXCEPT ![s] = @ + 1]
        /\ history.presented \in [Starts -> Nat]
    BY <1>4 DEF ExchangeCode, Presents, UpstreamTypes, Histories
  <2>3. cb'[k].at \in {"save", "failed"} /\ cb'[k].s = s /\ \A j \in Callbacks : j # k => cb'[j] = cb[j]
    BY <1>4 DEF ExchangeCode, CallbackTo, UpstreamTypes, CallbacksTyped, CallbackRecords
  <2>4. spent' = spent \cup {s} \/ spent' = spent
    BY <1>4 DEF ExchangeCode
  <2> HIDE DEF s
  <2>5. cb[k].s = s /\ cb[k].at = "exchange" /\ UNCHANGED <<pending, start, code>>
    BY <1>4 DEF ExchangeCode, s
  <2> QED
    BY <2>1, <2>2, <2>3, <2>4, <2>5 DEF CodesOnce, CodesGiven, PresentedOnce, OneWinner, Winner
<1>5. CASE SaveCodeTokens(k)
  BY <1>5, CallbackMoves DEF SaveCodeTokens, CodesOnce, CodesGiven, PresentedOnce, OneWinner, Winner, provider
<1>6. CASE CallbackDies(k)
  BY <1>6, CallbackMoves, SeenKept DEF CallbackDies, CodesOnce, CodesGiven, PresentedOnce, OneWinner, Winner, provider
<1> QED
  BY <1>1, <1>2, <1>3, <1>4, <1>5, <1>6 DEF CallbackSteps

LEMMA CodesStep == UpstreamTypes /\ CodesOnce /\ [OAuthNext]_oauthVars => CodesOnce'
<1> SUFFICES ASSUME UpstreamTypes, CodesOnce, [OAuthNext]_oauthVars PROVE CodesOnce'
  OBVIOUS
<1>1. CASE AccessExpires \/ DeleteServer \/ \E form \in bound.asked : SaveConfig(form)
  <2>1. history'.presented = history.presented
    BY <1>1 DEF AccessExpires, DeleteServer, SaveConfig, UpstreamTypes, Histories
  <2> QED
    BY <1>1, <2>1, CodesFrame DEF AccessExpires, DeleteServer, SaveConfig, provider
<1>2. ASSUME NEW c \in Connections, ConnectionSteps(c)
      PROVE  CodesOnce'
  <2>1. history'.presented = history.presented
    BY <1>2, SeenKept DEF ConnectionSteps, ReadToken, Refresh, SaveRefreshed, ConnectionDies, UpstreamTypes, Histories
  <2> QED
    BY <1>2, <2>1, CodesFrame DEF ConnectionSteps, ReadToken, Refresh, SaveRefreshed, ConnectionDies, provider
<1>3. CASE UNCHANGED oauthVars
  BY <1>3, CodesFrame DEF oauthVars
<1> QED
  BY <1>1, <1>2, <1>3, CodesOfStart, CodesOfCallback DEF OAuthNext

-------------------------------------------------------------------------------
(* One app: as long as the same is asked for, one client serves all *)
LEMMA Elsewhere ==
  ASSUME UpstreamTypes,
         \/ \E k \in Callbacks : CallbackSteps(k)
         \/ \E c \in Connections : ConnectionSteps(c)
         \/ \E form \in bound.asked : SaveConfig(form)
         \/ AccessExpires \/ DeleteServer \/ UNCHANGED oauthVars
  PROVE  /\ start' = start
         /\ history'.forms = history.forms /\ history'.startsOverlap = history.startsOverlap
         /\ row'.as = row.as /\ row'.client = row.client /\ (row.there => row'.there)
<1>1. start' = start
  BY Zenon DEF CallbackSteps, ReadPending, TakePending, ReadConfig, ExchangeCode, SaveCodeTokens, CallbackDies, ConnectionSteps,
     ReadToken, Refresh, SaveRefreshed, ConnectionDies, SaveConfig, AccessExpires, DeleteServer, oauthVars
<1>2. \/ row' = row
      \/ \E x : row' = Stored(x)
      \/ \E form : row' = [row EXCEPT !.there = TRUE, !.op = form]
      \/ row' = [row EXCEPT !.access = "stale"]
  BY Zenon DEF CallbackSteps, ReadPending, TakePending, ReadConfig, ExchangeCode, SaveCodeTokens, CallbackDies, ConnectionSteps,
     ReadToken, Refresh, SaveRefreshed, ConnectionDies, SaveConfig, AccessExpires, DeleteServer, oauthVars
<1>3. row'.as = row.as /\ row'.client = row.client /\ (row.there => row'.there)
  BY <1>2 DEF Stored, UpstreamTypes, Rows
<1>4. \/ history' = history
      \/ Upset
      \/ \E b : history' = [history EXCEPT !.overlap = b]
      \/ \E n, z : history' = [history EXCEPT !.presented = n, !.strayed = z]
      \/ \E n : history' = [history EXCEPT !.edits = n]
      \/ \E n : history' = [history EXCEPT !.expiries = n]
  <2>1. CASE \E k \in Callbacks : ExchangeCode(k)
    BY <2>1 DEF ExchangeCode, Presents
  <2>2. CASE \E c \in Connections : ReadToken(c)
    BY <2>2, Zenon DEF ReadToken
  <2>3. CASE \/ \E form \in bound.asked : SaveConfig(form)
             \/ AccessExpires \/ DeleteServer
    BY <2>3, Zenon DEF SaveConfig, AccessExpires, DeleteServer
  <2>4. CASE \E k \in Callbacks : CallbackSteps(k) /\ ~ExchangeCode(k)
    BY <2>4, Zenon DEF CallbackSteps, ReadPending, TakePending, ReadConfig, SaveCodeTokens, CallbackDies
  <2>5. CASE \E c \in Connections : ConnectionSteps(c) /\ ~ReadToken(c)
    BY <2>5, Zenon DEF ConnectionSteps, Refresh, SaveRefreshed, ConnectionDies
  <2> QED
    BY <2>1, <2>2, <2>3, <2>4, <2>5, Zenon DEF oauthVars
<1>5. history'.forms = history.forms /\ history'.startsOverlap = history.startsOverlap
  BY <1>4, SeenKept DEF UpstreamTypes, Histories
<1> QED
  BY <1>1, <1>3, <1>5

LEMMA AskedInit == OAuthInit => Asked
<1> SUFFICES ASSUME OAuthInit PROVE Asked
  OBVIOUS
<1>1. \A s \in Starts : start[s].at = "new" /\ ~Starting(s)
  BY DEF OAuthInit, NoStart, Starting
<1>2. row.client = None /\ history.forms = {}
  BY DEF OAuthInit, NoRow
<1> QED
  BY <1>1, <1>2, FS_EmptySet DEF Asked, FormsNoted, OneAtATime, Chosen

LEMMA AskedOfStart ==
  ASSUME UpstreamTypes, Asked, NEW s \in Starts, StartSteps(s)
  PROVE  Asked'
<1>1. ASSUME NEW at, StartTo(s, at), Starting(s), row'.client = row.client, row'.as = row.as, row'.there = row.there,
             at \in Chosen => start[s].at \in Chosen, history'.forms = history.forms,
             history'.startsOverlap = history.startsOverlap
      PROVE  Asked'
  BY <1>1, StartMoves DEF Asked, FormsNoted, FormOf, OneAtATime, Starting
<1>2. ASSUME NEW form \in bound.asked, BeginStart(s, form)
      PROVE  Asked'
  <2> DEFINE eff == EffectiveConfig(form)
             as == IF eff.issuer # None THEN eff.issuer ELSE Home
  <2>1. /\ start' = [start EXCEPT ![s] = [at |-> "client", as |-> as, app |-> eff.app, client |-> None]]
        /\ history' = [history EXCEPT !.forms = @ \cup {[as |-> as, app |-> eff.app]},
                                !.startsOverlap = @ \/ \E t \in Starts \ {s} : Starting(t)]
        /\ row' = row
    BY <1>2, Zenon DEF BeginStart
  <2> HIDE DEF as, eff
  <2>2. /\ start'[s].at = "client" /\ FormOf(s)' = [as |-> as, app |-> eff.app]
        /\ \A t \in Starts : t # s => start'[t] = start[t]
    BY <2>1 DEF UpstreamTypes, StartsTyped, FormOf
  <2>3. /\ history'.forms = history.forms \cup {[as |-> as, app |-> eff.app]}
        /\ history'.startsOverlap = (history.startsOverlap \/ \E t \in Starts \ {s} : Starting(t))
    BY <2>1 DEF UpstreamTypes, Histories
  <2>4. IsFiniteSet(history'.forms)
    <3>1. IsFiniteSet(history.forms \cup {[as |-> as, app |-> eff.app]})
      BY FS_AddElement, Zenon DEF Asked, FormsNoted
    <3> QED
      BY <2>3, <3>1, Zenon
  <2>5. FormsNoted'
    <3>1. history.forms \subseteq history'.forms /\ FormOf(s)' \in history'.forms
      BY <2>2, <2>3
    <3>2. \A t \in Starts : t # s => FormOf(t)' = FormOf(t)
      BY <2>2 DEF FormOf
    <3>3. \A t \in Starts : start'[t].at # "new" => FormOf(t)' \in history'.forms
      BY <2>2, <3>1, <3>2 DEF Asked, FormsNoted
    <3>4. \A t \in Starts : start'[t].at \in Chosen /\ start'[t].app => start'[t].client = App
      BY <2>2 DEF Asked, FormsNoted, Chosen
    <3>5. (row.client # None =>
             row.there /\ \E f \in history.forms : row.as = f.as /\ (f.app => row.client = App))'
      BY <2>1, <3>1 DEF Asked, FormsNoted
    <3> QED
      BY <2>4, <3>3, <3>4, <3>5 DEF FormsNoted
  <2>6. OneAtATime'
    BY <2>2, <2>3 DEF Asked, OneAtATime, Starting
  <2> QED
    BY <2>5, <2>6 DEF Asked
<1>3. CASE ChooseClient(s)
  <2>1. CASE StartTo(s, "failed")
    BY <1>1, <1>3, <2>1 DEF ChooseClient, Starting, Chosen
  <2>2. CASE ~StartTo(s, "failed")
    <3>1. PICK client : /\ start' = [start EXCEPT ![s].at = "select", ![s].client = client]
                        /\ start[s].app => client = App
      BY <1>3, <2>2 DEF ChooseClient
    <3>2. /\ start'[s].at = "select" /\ start'[s].client = client /\ start'[s].app = start[s].app
          /\ FormOf(s)' = FormOf(s) /\ \A t \in Starts : t # s => start'[t] = start[t]
      BY <3>1 DEF UpstreamTypes, StartsTyped, StartRecords, FormOf
    <3>3. start[s].at = "client" /\ row' = row /\ history' = history
      BY <1>3, Zenon DEF ChooseClient
    <3>4. FormsNoted'
      <4>1. \A t \in Starts : /\ start'[t].at # "new" => start[t].at # "new" /\ FormOf(t)' = FormOf(t)
                              /\ start'[t].at \in Chosen /\ start'[t].app => start'[t].client = App
        BY <3>1, <3>2, <3>3 DEF Asked, FormsNoted, FormOf, Chosen
      <4> QED
        BY <3>3, <4>1 DEF Asked, FormsNoted
    <3>5. OneAtATime'
      BY <3>2, <3>3 DEF Asked, OneAtATime, Starting
    <3> QED
      BY <3>4, <3>5 DEF Asked
  <2> QED
    BY <2>1, <2>2
<1>4. CASE SelectConfig(s) \/ CreatePending(s) \/ CollectPending(s)
  BY <1>1, <1>4 DEF SelectConfig, CreatePending, CollectPending, Starting, Chosen
<1>5. CASE WriteConfig(s)
  <2>1. CASE row' = row
    <3>1. start[s].at \in {"insert", "update"} /\ (StartTo(s, "pending") \/ StartTo(s, "failed")) /\ history' = history
      BY <1>5, Zenon DEF WriteConfig
    <3> QED
      BY <1>1, <2>1, <3>1 DEF Starting, Chosen
  <2>2. CASE row' # row
    <3>1. start[s].at \in {"insert", "update"} /\ StartTo(s, "pending") /\ history' = history /\ row' = Configured(s)
      BY <1>5, <2>2, Zenon DEF WriteConfig
    <3>2. row'.there /\ row'.as = start[s].as /\ row'.client = start[s].client
      BY <3>1 DEF Configured, UpstreamTypes, Rows
    <3>3. FormOf(s) \in history.forms /\ (start[s].app => start[s].client = App)
      BY <3>1 DEF Asked, FormsNoted, Chosen
    <3>4. FormsNoted'
      BY <3>1, <3>2, <3>3, StartMoves DEF Asked, FormsNoted, FormOf, Chosen
    <3>5. OneAtATime'
      BY <3>1, StartMoves DEF Asked, OneAtATime, Starting
    <3> QED
      BY <3>4, <3>5 DEF Asked
  <2> QED
    BY <2>1, <2>2
<1>6. CASE PendingExpires(s) \/ Consent(s)
  BY <1>6 DEF PendingExpires, Consent, Asked, FormsNoted, FormOf, OneAtATime, Starting
<1>7. CASE StartDies(s)
  BY <1>1, <1>7, SeenKept DEF StartDies, Chosen
<1> QED
  BY <1>2, <1>3, <1>4, <1>5, <1>6, <1>7 DEF StartSteps

LEMMA AskedStep == UpstreamTypes /\ Asked /\ [OAuthNext]_oauthVars => Asked'
<1> SUFFICES ASSUME UpstreamTypes, Asked, [OAuthNext]_oauthVars PROVE Asked'
  OBVIOUS
<1>1. CASE \E s \in Starts : StartSteps(s)
  BY <1>1, AskedOfStart
<1>2. CASE ~\E s \in Starts : StartSteps(s)
  <2>1. /\ start' = start
        /\ history'.forms = history.forms /\ history'.startsOverlap = history.startsOverlap
        /\ row'.as = row.as /\ row'.client = row.client /\ (row.there => row'.there)
    BY <1>2, Elsewhere, Zenon DEF OAuthNext
  <2> QED
    BY <2>1 DEF Asked, FormsNoted, FormOf, OneAtATime, Starting
<1> QED
  BY <1>1, <1>2

(* Two forms are one as long as OneApp holds, and it held before if it does now *)
LEMMA SameForms ==
  ASSUME FormsNoted, OneApp
  PROVE  \A f, g \in history.forms : f = g
<1> SUFFICES ASSUME NEW f \in history.forms, NEW g \in history.forms, f # g PROVE FALSE
  OBVIOUS
<1>1. IsFiniteSet(history.forms) /\ Cardinality(history.forms) <= 1
  BY DEF FormsNoted, OneApp
<1>2. IsFiniteSet({f, g}) /\ Cardinality({f, g}) = 2
  <2>1. IsFiniteSet({f}) /\ Cardinality({f}) = 1
    BY FS_Singleton
  <2>2. {f, g} = {f} \cup {g} /\ g \notin {f}
    OBVIOUS
  <2>3. IsFiniteSet({f} \cup {g}) /\ Cardinality({f} \cup {g}) = Cardinality({f}) + 1
    BY <2>1, <2>2, FS_AddElement, Zenon
  <2> QED
    BY <2>1, <2>2, <2>3
<1>3. Cardinality({f, g}) <= Cardinality(history.forms)
  BY <1>1, FS_Subset
<1> QED
  BY <1>1, <1>2, <1>3, FS_CardinalityType

LEMMA OneAppBefore ==
  ASSUME UpstreamTypes, Asked, [OAuthNext]_oauthVars, OneApp'
  PROVE  OneApp
<1>1. IsFiniteSet(history'.forms)
  BY AskedStep DEF Asked, FormsNoted
<1>2. history.forms \subseteq history'.forms /\ (history.startsOverlap => history'.startsOverlap)
  <2>1. CASE \E s \in Starts : StartSteps(s)
    <3>1. PICK s \in Starts : StartSteps(s)
      BY <2>1
    <3>2. ASSUME NEW form, BeginStart(s, form)
          PROVE  history.forms \subseteq history'.forms /\ (history.startsOverlap => history'.startsOverlap)
      <4>1. \E f, b : /\ history' = [history EXCEPT !.forms = @ \cup {f}, !.startsOverlap = b]
                      /\ (history.startsOverlap => b)
        BY <3>2, Zenon DEF BeginStart
      <4> QED
        BY <4>1 DEF UpstreamTypes, Histories
    <3>3. CASE StartDies(s)
      BY <3>3, SeenKept DEF StartDies
    <3> QED
      BY <3>1, <3>2, <3>3 DEF StartSteps, ChooseClient, SelectConfig, WriteConfig, CreatePending, CollectPending,
         PendingExpires, Consent
  <2>2. CASE ~\E s \in Starts : StartSteps(s)
    BY <2>2, Elsewhere, Zenon DEF OAuthNext
  <2> QED
    BY <2>1, <2>2
<1>3. Cardinality(history.forms) <= Cardinality(history'.forms) /\ IsFiniteSet(history.forms)
  BY <1>1, <1>2, FS_Subset
<1>4. Cardinality(history.forms) \in Nat /\ Cardinality(history'.forms) \in Nat
  BY <1>1, <1>3, FS_CardinalityType
<1> QED
  BY <1>2, <1>3, <1>4 DEF OneApp

LEMMA ClientInit == OAuthInit => ClientKept
BY DEF OAuthInit, ClientKept, ClientHeld, NoStart, NoCallback

(* What the row says of the client before and after a step of an authorization *)
LEMMA ClientOfStart ==
  ASSUME UpstreamTypes, Asked, Asked', ClientKept, OneApp, OneApp', NEW s \in Starts, StartSteps(s),
         NEW t \in Starts
  PROVE  ClientHeld(t)'
<1>0. ClientHeld(s) /\ ClientHeld(t)
  BY DEF ClientKept
<1>1. ASSUME NEW at, StartTo(s, at), row' = row,
             at \in {"pending", "gc", "sent"} => start[s].at \in {"pending", "gc", "sent"},
             at \in {"select", "insert", "update"} => start[s].at \in {"select", "insert", "update"}
      PROVE  ClientHeld(t)'
  BY <1>0, <1>1, StartMoves DEF ClientHeld
<1>2. ASSUME NEW form \in bound.asked, BeginStart(s, form)
      PROVE  ClientHeld(t)'
  <2>1. row' = row /\ (t # s => start'[t] = start[t]) /\ start'[s].at = "client"
    BY <1>2 DEF BeginStart, UpstreamTypes, StartsTyped
  <2> QED
    BY <1>0, <2>1 DEF ClientHeld
<1>3. CASE ChooseClient(s)
  <2>1. CASE StartTo(s, "failed")
    BY <1>1, <1>3, <2>1 DEF ChooseClient
  <2>2. CASE ~StartTo(s, "failed")
    <3>1. PICK client : /\ start' = [start EXCEPT ![s].at = "select", ![s].client = client]
                        /\ \/ start[s].app /\ client = App
                           \/ ~start[s].app /\ Reusable(s) /\ client = row.client
                           \/ ~start[s].app /\ ~Reusable(s)
      BY <1>3, <2>2 DEF ChooseClient
    <3>2. /\ start'[s].at = "select" /\ start'[s].client = client
          /\ t # s => start'[t] = start[t]
      BY <3>1 DEF UpstreamTypes, StartsTyped, StartRecords
    <3>3. start[s].at = "client" /\ row' = row
      BY <1>3, Zenon DEF ChooseClient
    <3>4. row.client # None => client = row.client
      <4>1. SUFFICES ASSUME row.client # None PROVE client = row.client
        OBVIOUS
      <4>2. PICK f \in history.forms : row.as = f.as /\ (f.app => row.client = App)
        BY <4>1 DEF Asked, FormsNoted
      <4>3. f = FormOf(s)
        BY <3>3, SameForms DEF Asked, FormsNoted
      <4>4. row.as = start[s].as /\ (start[s].app => row.client = App) /\ row.there
        BY <4>1, <4>2, <4>3 DEF FormOf, Asked, FormsNoted
      <4> QED
        BY <3>1, <4>1, <4>4 DEF Reusable
    <3> QED
      BY <1>0, <3>2, <3>3, <3>4 DEF ClientHeld
  <2> QED
    BY <2>1, <2>2
<1>4. CASE SelectConfig(s) \/ CreatePending(s) \/ CollectPending(s)
  BY <1>1, <1>4 DEF SelectConfig, CreatePending, CollectPending
<1>5. CASE WriteConfig(s)
  <2>1. CASE StartTo(s, "failed") /\ row' = row
    BY <1>1, <2>1
  <2>2. CASE start[s].at \in {"insert", "update"} /\ StartTo(s, "pending") /\ row' = Configured(s)
    <3>1. start[s].at \in {"insert", "update"} /\ StartTo(s, "pending") /\ row' = Configured(s)
      BY <2>2
    <3>2. row'.as = start[s].as /\ row'.client = start[s].client
      BY <3>1 DEF Configured, UpstreamTypes, Rows
    <3>3. ASSUME t # s, start[t].at \in {"select", "insert", "update"}
          PROVE  FALSE
      BY <3>1, <3>3 DEF Asked, OneAtATime, OneApp, Starting
    <3>4. ASSUME t # s, start[t].at \in {"pending", "gc", "sent"}
          PROVE  row.as = start[s].as /\ row.client = start[s].client
      <4>1. FormOf(s) = FormOf(t)
        BY <3>1, <3>4, SameForms DEF Asked, FormsNoted
      <4>2. row.as = start[t].as /\ row.client = start[t].client
        BY <1>0, <3>4 DEF ClientHeld
      <4>3. start[t].client # None
        BY <3>4 DEF UpstreamTypes, StartsTyped, Chosen
      <4> QED
        BY <1>0, <3>1, <4>1, <4>2, <4>3 DEF FormOf, ClientHeld
    <3> QED
      BY <1>0, <3>1, <3>2, <3>3, <3>4, StartMoves DEF ClientHeld
  <2> QED
    BY <1>5, <2>1, <2>2, Zenon DEF WriteConfig
<1>6. CASE PendingExpires(s) \/ Consent(s)
  BY <1>0, <1>6 DEF PendingExpires, Consent, ClientHeld
<1>7. CASE StartDies(s)
  BY <1>1, <1>7 DEF StartDies
<1> QED
  BY <1>2, <1>3, <1>4, <1>5, <1>6, <1>7 DEF StartSteps

LEMMA ClientStep ==
  ASSUME UpstreamTypes, CodesOnce, Asked, ClientKept, [OAuthNext]_oauthVars
  PROVE  ClientKept'
<1> SUFFICES ASSUME OneApp'
             PROVE  /\ \A s \in Starts : ClientHeld(s)'
                    /\ \A k \in Callbacks : cb'[k].at = "exchange" => AsIssued(k)'
                    /\ history'.strayed = {}
  BY DEF ClientKept
<1>1. OneApp /\ Asked'
  BY OneAppBefore, AskedStep
<1>2. CASE \E s \in Starts : StartSteps(s)
  <2>1. PICK s \in Starts : StartSteps(s)
    BY <1>2
  <2>2. \A t \in Starts : ClientHeld(t)'
    BY <1>1, <2>1, ClientOfStart
  <2>3. cb' = cb /\ history'.strayed = history.strayed
    <3>1. ASSUME NEW form, BeginStart(s, form)
          PROVE  cb' = cb /\ history'.strayed = history.strayed
      <4>1. \E f, b : history' = [history EXCEPT !.forms = f, !.startsOverlap = b]
        BY <3>1, Zenon DEF BeginStart
      <4> QED
        BY <3>1, <4>1 DEF BeginStart, UpstreamTypes, Histories
    <3>2. CASE StartDies(s)
      BY <3>2, SeenKept DEF StartDies
    <3> QED
      BY <2>1, <3>1, <3>2, Zenon DEF StartSteps, ChooseClient, SelectConfig, WriteConfig, CreatePending, CollectPending,
         PendingExpires, Consent
  <2>4. \A u \in Starts : code[u] # None => code'[u] = code[u]
    BY <2>1 DEF StartSteps, BeginStart, ChooseClient, SelectConfig, WriteConfig, CreatePending, CollectPending,
         PendingExpires, Consent, StartDies, provider, UpstreamTypes, Ground
  <2>5. \A k \in Callbacks : cb[k].at = "exchange" => cb[k].s \in Starts /\ code[cb[k].s] # None
    BY DEF CodesOnce, OneWinner, UpstreamTypes, CallbacksTyped
  <2> QED
    BY <1>1, <2>2, <2>3, <2>4, <2>5 DEF ClientKept, AsIssued
<1>3. CASE ~\E s \in Starts : StartSteps(s)
  <2>1. start' = start /\ row'.as = row.as /\ row'.client = row.client
    BY <1>3, Elsewhere, Zenon DEF OAuthNext
  <2>2. \A t \in Starts : ClientHeld(t)'
    BY <1>1, <2>1 DEF ClientKept, ClientHeld
  <2>3. code' = code
    BY <1>3, Zenon DEF OAuthNext, CallbackSteps, ReadPending, TakePending, ReadConfig, ExchangeCode, SaveCodeTokens,
       CallbackDies, ConnectionSteps, ReadToken, Refresh, SaveRefreshed, ConnectionDies, SaveConfig, AccessExpires,
       DeleteServer, oauthVars, provider
  <2>4. ASSUME NEW k \in Callbacks, CallbackSteps(k)
        PROVE  /\ \A j \in Callbacks : cb'[j].at = "exchange" => AsIssued(j)'
               /\ history'.strayed = {}
    <3>1. CASE ReadConfig(k)
      <4>1. /\ cb'[k].at = "exchange" /\ cb'[k].s = cb[k].s /\ cb'[k].cfg = row
            /\ \A j \in Callbacks : j # k => cb'[j] = cb[j]
        BY <3>1 DEF ReadConfig, UpstreamTypes, CallbacksTyped, CallbackRecords
      <4>2. cb[k].s \in Starts /\ code[cb[k].s] # None /\ history' = history
        BY <3>1 DEF ReadConfig, CodesOnce, OneWinner, UpstreamTypes, CallbacksTyped
      <4>3. code[cb[k].s] = [as |-> row.as, client |-> row.client]
        BY <1>1, <4>2 DEF CodesOnce, CodesGiven, ClientKept, ClientHeld
      <4> QED
        BY <1>1, <2>3, <4>1, <4>2, <4>3 DEF ClientKept, AsIssued
    <3>2. CASE ~ReadConfig(k)
      <4>1. ASSUME NEW j \in Callbacks, cb'[j].at = "exchange"
            PROVE  cb'[j] = cb[j]
        <5>1. \/ \E s : cb' = [cb EXCEPT ![k] = [@ EXCEPT !.at = IF pending[s] = "none" THEN "failed" ELSE "take", !.s = s]]
              \/ \E at \in {"config", "failed", "done"} : CallbackTo(k, at)
              \/ \E x : cb' = [cb EXCEPT ![k].at = "save", ![k].refresh = x]
          BY <2>4, <3>2, Zenon DEF CallbackSteps, ReadPending, TakePending, ExchangeCode, SaveCodeTokens, CallbackDies
        <5>2. cb[k] \in CallbackRecords /\ cb[j] \in CallbackRecords /\ DOMAIN cb = Callbacks
          BY DEF UpstreamTypes, CallbacksTyped
        <5>3. j # k
          <6>1. ASSUME NEW s, cb' = [cb EXCEPT ![k] = [@ EXCEPT !.at = IF pending[s] = "none" THEN "failed" ELSE "take", !.s = s]]
                PROVE  cb'[k].at \in {"failed", "take"}
            BY <5>2, <6>1 DEF CallbackRecords
          <6>2. ASSUME NEW at, CallbackTo(k, at) PROVE cb'[k].at = at
            BY <6>2, CallbackMoves
          <6>3. ASSUME NEW x, cb' = [cb EXCEPT ![k].at = "save", ![k].refresh = x] PROVE cb'[k].at = "save"
            BY <5>2, <6>3 DEF CallbackRecords
          <6> QED
            BY <4>1, <5>1, <6>1, <6>2, <6>3
        <5> QED
          BY <5>1, <5>2, <5>3 DEF CallbackTo
      <4>2. history'.strayed = history.strayed
        <5>1. CASE ExchangeCode(k)
          <6>1. cb[k].at = "exchange" /\ AsIssued(k)
            BY <1>1, <5>1 DEF ExchangeCode, ClientKept
          <6> QED
            BY <5>1, <6>1 DEF ExchangeCode, Presents, UpstreamTypes, Histories
        <5>2. CASE CallbackDies(k)
          BY <5>2, SeenKept DEF CallbackDies
        <5> QED
          BY <2>4, <3>2, <5>1, <5>2, Zenon DEF CallbackSteps, ReadPending, TakePending, SaveCodeTokens
      <4> QED
        BY <1>1, <2>3, <4>1, <4>2 DEF ClientKept, AsIssued
    <3> QED
      BY <3>1, <3>2
  <2>5. CASE ~\E k \in Callbacks : CallbackSteps(k)
    <3>1. cb' = cb
      BY <1>3, <2>5, Zenon DEF OAuthNext, ConnectionSteps, ReadToken, Refresh, SaveRefreshed, ConnectionDies, SaveConfig,
         AccessExpires, DeleteServer, oauthVars
    <3>2. history'.strayed = history.strayed
      <4>1. CASE \E c \in Connections : ConnectionSteps(c)
        BY <4>1, SeenKept DEF ConnectionSteps, ReadToken, Refresh, SaveRefreshed, ConnectionDies, UpstreamTypes, Histories
      <4>2. CASE AccessExpires \/ DeleteServer \/ \E form \in bound.asked : SaveConfig(form)
        BY <4>2 DEF AccessExpires, DeleteServer, SaveConfig, UpstreamTypes, Histories
      <4> QED
        BY <1>3, <2>5, <4>1, <4>2, Zenon DEF OAuthNext, oauthVars
    <3> QED
      BY <1>1, <2>2, <2>3, <3>1, <3>2 DEF ClientKept, AsIssued
  <2> QED
    BY <2>2, <2>4, <2>5
<1> QED
  BY <1>2, <1>3

-------------------------------------------------------------------------------
(* Tokens: where each comes from *)
LEMMA ExchangeEffect ==
  ASSUME UpstreamTypes, CodesOnce, NEW k \in Callbacks, ExchangeCode(k), NEW s, s = cb[k].s
  PROVE  /\ s \in Starts /\ code[s] \in IssuedCodes
         /\ \A j \in Callbacks : j # k => cb'[j] = cb[j]
         /\ \/ /\ s \notin spent /\ spent' = spent \cup {s}
               /\ live' = IF policy = "none" THEN live ELSE live \cup {Issued(s)}
               /\ cb'[k].at = "save" /\ cb'[k].refresh = Issued(s)
            \/ cb'[k].at = "failed" /\ UNCHANGED <<spent, live>>
         /\ UNCHANGED <<bound, policy, server, row, pending, start, conn, clients, code>>
<1>1. cb[k] \in CallbackRecords /\ DOMAIN cb = Callbacks
  BY DEF UpstreamTypes, CallbacksTyped
<1>2. s \in Starts /\ code[s] \in IssuedCodes
  BY DEF ExchangeCode, CodesOnce, OneWinner, UpstreamTypes, Ground, CallbacksTyped
<1>3. CASE AsIssued(k) /\ s \notin spent
  <2>1. /\ spent' = spent \cup {s} /\ cb' = [cb EXCEPT ![k].at = "save", ![k].refresh = Issued(s)]
        /\ live' = IF policy = "none" THEN live ELSE live \cup {Issued(s)}
    BY <1>3, Zenon DEF ExchangeCode
  <2>2. cb'[k].at = "save" /\ cb'[k].refresh = Issued(s) /\ \A j \in Callbacks : j # k => cb'[j] = cb[j]
    BY <1>1, <2>1 DEF CallbackRecords
  <2> QED
    BY <1>2, <1>3, <2>1, <2>2, Zenon DEF ExchangeCode
<1>4. CASE ~(AsIssued(k) /\ s \notin spent)
  <2>1. CallbackTo(k, "failed") /\ UNCHANGED <<spent, live>>
    BY <1>4, Zenon DEF ExchangeCode
  <2>2. cb'[k].at = "failed" /\ \A j \in Callbacks : j # k => cb'[j] = cb[j]
    BY <1>1, <2>1 DEF CallbackTo, CallbackRecords
  <2> QED
    BY <1>2, <2>1, <2>2, Zenon DEF ExchangeCode
<1> QED
  BY <1>3, <1>4

LEMMA SaveCodeEffect ==
  ASSUME UpstreamTypes, NEW k \in Callbacks, SaveCodeTokens(k)
  PROVE  /\ cb[k].at = "save" /\ cb'[k].at = "done"
         /\ \A j \in Callbacks : j # k => cb'[j] = cb[j]
         /\ row'.refresh = cb[k].refresh /\ row'.access = "fresh"
         /\ UNCHANGED <<server, pending, start, conn, provider, history>>
  BY DEF SaveCodeTokens, CallbackTo, Stored, UpstreamTypes, CallbacksTyped, CallbackRecords, Rows

LEMMA ReadTokenEffect ==
  ASSUME UpstreamTypes, NEW c \in Connections, ReadToken(c)
  PROVE  /\ conn[c].at = "new" /\ conn'[c].at \in {"failed", "done", "exchange"} /\ conn'[c].cfg = row
         /\ conn'[c].at = "exchange" => row.refresh # None /\ row.access # "none"
         /\ \A d \in Connections : d # c => conn'[d] = conn[d]
         /\ history'.overlap = (history.overlap \/ \E d \in Connections \ {c} : Refreshing(d))
         /\ UNCHANGED <<server, row, pending, start, cb, provider>>
<1>1. conn[c] \in ConnectionRecords /\ DOMAIN conn = Connections
  BY DEF UpstreamTypes
<1> DEFINE goes == CASE row.access = "none"  -> "failed"
                     [] row.access = "fresh" -> "done"
                     [] OTHER -> IF row.refresh = None THEN "failed" ELSE "exchange"
<1>2. conn' = [conn EXCEPT ![c] = [@ EXCEPT !.cfg = row, !.at = goes]]
  BY Zenon DEF ReadToken
<1>3. goes \in {"failed", "done", "exchange"} /\ (goes = "exchange" => row.refresh # None /\ row.access # "none")
  OBVIOUS
<1> HIDE DEF goes
<1>4. conn'[c].at = goes /\ conn'[c].cfg = row /\ \A d \in Connections : d # c => conn'[d] = conn[d]
  BY <1>1, <1>2 DEF ConnectionRecords
<1>5. history'.overlap = (history.overlap \/ \E d \in Connections \ {c} : Refreshing(d))
  BY DEF ReadToken, UpstreamTypes, Histories
<1>6. conn[c].at = "new" /\ UNCHANGED <<server, row, pending, start, cb, provider>>
  BY Zenon DEF ReadToken
<1> QED
  BY <1>3, <1>4, <1>5, <1>6

LEMMA RefreshEffect ==
  ASSUME UpstreamTypes, NEW c \in Connections, Refresh(c), NEW t, t = conn[c].cfg.refresh
  PROVE  /\ conn[c].at = "exchange"
         /\ \A d \in Connections : d # c => conn'[d] = conn[d]
         /\ \/ /\ t \in live /\ Rotating /\ live' = (live \ {t}) \cup {Rotated(t)}
               /\ conn'[c].at = "save" /\ conn'[c].refresh = Rotated(t)
            \/ /\ t \in live /\ ~Rotating /\ live' = live
               /\ conn'[c].at = "save" /\ conn'[c].refresh = t
            \/ /\ ~Known(c) /\ conn'[c].at = "failed" /\ live' \subseteq live
               /\ policy # "detects" => live' = live
         /\ UNCHANGED <<bound, policy, server, row, pending, start, cb, clients, code, spent, history>>
<1>1. conn[c] \in ConnectionRecords /\ DOMAIN conn = Connections
  BY DEF UpstreamTypes
<1>2. /\ conn[c].at = "exchange"
      /\ UNCHANGED <<bound, policy, server, row, pending, start, cb, clients, code, spent, history>>
  BY Zenon DEF Refresh
<1>3. CASE Known(c) /\ Rotating
  <2>1. /\ live' = (live \ {t}) \cup {Rotated(t)} /\ t \in live
        /\ conn' = [conn EXCEPT ![c].at = "save", ![c].refresh = Rotated(t)]
    BY <1>3 DEF Refresh, Rotating, Known
  <2>2. /\ conn'[c].at = "save" /\ conn'[c].refresh = Rotated(t)
        /\ \A d \in Connections : d # c => conn'[d] = conn[d]
    BY <1>1, <2>1 DEF ConnectionRecords
  <2> QED
    BY <1>2, <1>3, <2>1, <2>2
<1>4. CASE Known(c) /\ ~Rotating
  <2>1. /\ live' = live /\ t \in live
        /\ conn' = [conn EXCEPT ![c].at = "save", ![c].refresh = t]
    BY <1>4 DEF Refresh, Rotating, Known, Kept
  <2>2. /\ conn'[c].at = "save" /\ conn'[c].refresh = t
        /\ \A d \in Connections : d # c => conn'[d] = conn[d]
    BY <1>1, <2>1 DEF ConnectionRecords
  <2> QED
    BY <1>2, <1>4, <2>1, <2>2
<1>5. CASE ~Known(c)
  <2>1. /\ live' \subseteq live /\ (policy # "detects" => live' = live)
        /\ conn' = [conn EXCEPT ![c].at = "failed"]
    BY <1>5 DEF Refresh
  <2>2. conn'[c].at = "failed" /\ \A d \in Connections : d # c => conn'[d] = conn[d]
    BY <1>1, <2>1 DEF ConnectionRecords
  <2> QED
    BY <1>2, <1>5, <2>1, <2>2
<1> QED
  BY <1>3, <1>4, <1>5

LEMMA SaveRefreshedEffect ==
  ASSUME UpstreamTypes, NEW c \in Connections, SaveRefreshed(c)
  PROVE  /\ conn[c].at = "save" /\ conn'[c].at = "done"
         /\ \A d \in Connections : d # c => conn'[d] = conn[d]
         /\ row'.refresh = conn[c].refresh /\ row'.access = "fresh"
         /\ UNCHANGED <<server, pending, start, cb, provider, history>>
  BY DEF SaveRefreshed, Stored, UpstreamTypes, ConnectionRecords, Rows

(* The steps that no token is about: what is held may be dropped by a request that *)
(* dies, a code that was given stays                                               *)
CodesGrow == \A u \in Starts : code[u] # None => code'[u] = code[u]
Aside ==
  /\ row'.refresh = row.refresh /\ (row'.access = "none" <=> row.access = "none")
  /\ UNCHANGED <<live, spent, policy>> /\ CodesGrow
  /\ \A k \in Callbacks : cb'[k].at = "save" => cb[k].at = "save" /\ cb'[k].refresh = cb[k].refresh
  /\ \A c \in Connections : conn'[c].at \in {"exchange", "save"} => conn'[c] = conn[c]
  /\ conn' = conn \/ Upset

LEMMA StepsAside ==
  ASSUME UpstreamTypes, CodesOnce, [OAuthNext]_oauthVars
  PROVE  \/ Aside
         \/ \E k \in Callbacks : ExchangeCode(k) \/ SaveCodeTokens(k)
         \/ \E c \in Connections : ReadToken(c) \/ Refresh(c) \/ SaveRefreshed(c)
<1>1. ASSUME NEW s \in Starts, StartSteps(s)
      PROVE  Aside
  <2>1. UNCHANGED <<live, spent, policy, cb, conn>>
    BY <1>1, Zenon DEF StartSteps, BeginStart, ChooseClient, SelectConfig, WriteConfig, CreatePending, CollectPending,
       PendingExpires, Consent, StartDies, provider
  <2>2. row' = row \/ row' = Configured(s)
    BY <1>1, Zenon DEF StartSteps, BeginStart, ChooseClient, SelectConfig, WriteConfig, CreatePending, CollectPending,
       PendingExpires, Consent, StartDies
  <2>3. row'.refresh = row.refresh /\ row'.access = row.access
    BY <2>2 DEF Configured, UpstreamTypes, Rows
  <2>4. CodesGrow
    BY <1>1 DEF StartSteps, BeginStart, ChooseClient, SelectConfig, WriteConfig, CreatePending, CollectPending,
         PendingExpires, Consent, StartDies, provider, UpstreamTypes, Ground, CodesGrow
  <2> QED
    BY <2>1, <2>3, <2>4 DEF Aside
<1>2. ASSUME NEW k \in Callbacks, CallbackSteps(k), ~ExchangeCode(k), ~SaveCodeTokens(k)
      PROVE  Aside
  <2>1. UNCHANGED <<live, spent, policy, row, conn, code>>
    BY <1>2, Zenon DEF CallbackSteps, ReadPending, TakePending, ReadConfig, CallbackDies, provider
  <2>2. \/ \E s : cb' = [cb EXCEPT ![k] = [@ EXCEPT !.at = IF pending[s] = "none" THEN "failed" ELSE "take", !.s = s]]
        \/ cb' = [cb EXCEPT ![k].at = "exchange", ![k].cfg = row]
        \/ \E at \in {"config", "failed"} : CallbackTo(k, at)
    BY <1>2, Zenon DEF CallbackSteps, ReadPending, TakePending, ReadConfig, CallbackDies
  <2>3. cb'[k].at # "save" /\ \A j \in Callbacks : j # k => cb'[j] = cb[j]
    <3>1. cb[k] \in CallbackRecords /\ DOMAIN cb = Callbacks
      BY DEF UpstreamTypes, CallbacksTyped
    <3>2. ASSUME NEW s, cb' = [cb EXCEPT ![k] = [@ EXCEPT !.at = IF pending[s] = "none" THEN "failed" ELSE "take", !.s = s]]
          PROVE  cb'[k].at # "save" /\ \A j \in Callbacks : j # k => cb'[j] = cb[j]
      BY <3>1, <3>2 DEF CallbackRecords
    <3>3. CASE cb' = [cb EXCEPT ![k].at = "exchange", ![k].cfg = row]
      BY <3>1, <3>3 DEF CallbackRecords
    <3>4. ASSUME NEW at \in {"config", "failed"}, CallbackTo(k, at)
          PROVE  cb'[k].at # "save" /\ \A j \in Callbacks : j # k => cb'[j] = cb[j]
      BY <3>1, <3>4 DEF CallbackTo, CallbackRecords
    <3> QED
      BY <2>2, <3>2, <3>3, <3>4
  <2> QED
    BY <2>1, <2>3 DEF Aside, CodesGrow
<1>3. ASSUME NEW c \in Connections, ConnectionDies(c)
      PROVE  Aside
  <2>1. conn'[c].at = "failed" /\ \A d \in Connections : d # c => conn'[d] = conn[d]
    BY <1>3 DEF ConnectionDies, UpstreamTypes, ConnectionRecords
  <2>2. Upset /\ UNCHANGED <<row, cb, live, spent, policy, code>>
    BY <1>3, Zenon DEF ConnectionDies, provider
  <2> QED
    BY <2>1, <2>2 DEF Aside, CodesGrow
<1>4. ASSUME AccessExpires \/ \E form \in bound.asked : SaveConfig(form)
      PROVE  Aside
  <2>1. row'.refresh = row.refresh /\ (row'.access = "none" <=> row.access = "none")
    BY <1>4 DEF AccessExpires, SaveConfig, UpstreamTypes, Rows
  <2>2. UNCHANGED <<cb, conn, live, spent, policy, code>>
    BY <1>4, Zenon DEF AccessExpires, SaveConfig, provider
  <2> QED
    BY <2>1, <2>2 DEF Aside, CodesGrow
<1>5. CASE DeleteServer \/ UNCHANGED oauthVars
  BY <1>5 DEF DeleteServer, oauthVars, provider, Aside, CodesGrow
<1> QED
  BY <1>1, <1>2, <1>3, <1>4, <1>5, Zenon DEF OAuthNext, CallbackSteps, ConnectionSteps

LEMMA OfGrantKept ==
  ASSUME CodesGrow, spent \subseteq spent', NEW x \in RefreshTokens, OfGrant(x)
  PROVE  OfGrant(x)'
<1>1. [as |-> x.as, client |-> x.client] \in IssuedCodes /\ x.grant \in Starts
  BY DEF IssuedCodes, RefreshTokens
<1> QED
  BY <1>1, NoneApart DEF CodesGrow, OfGrant

LEMMA TokensInit == OAuthInit => TokensIssued
<1> SUFFICES ASSUME OAuthInit PROVE TokensIssued
  OBVIOUS
<1>1. row.refresh = None /\ row.access = "none" /\ live = {}
  BY DEF OAuthInit, NoRow
<1>2. \A k \in Callbacks : cb[k].at = "new"
  BY DEF OAuthInit, NoCallback
<1>3. \A c \in Connections : conn[c].at = "new"
  BY DEF OAuthInit, NoConnection
<1>4. \A x \in RefreshTokens : x \notin live /\ ~Held(x)
  BY <1>1, <1>2, <1>3, NoneApart DEF Held, CbHas, ConnHas, Asks
<1> QED
  BY <1>1, <1>2, <1>3, <1>4 DEF TokensIssued

LEMMA TokensAside ==
  ASSUME UpstreamTypes, TokensIssued, Aside
  PROVE  TokensIssued'
<1>1. \A x \in RefreshTokens : Held(x)' => Held(x)
  BY DEF Held, CbHas, ConnHas, Asks, Aside
<1>2. \A x \in RefreshTokens : x \in live' \/ Held(x)' => OfGrant(x)'
  BY <1>1, OfGrantKept DEF TokensIssued, Aside
<1>3. policy' = policy /\ live' = live /\ row'.refresh = row.refresh /\ (row'.access = "none" <=> row.access = "none")
  BY DEF Aside
<1>4. /\ \A k \in Callbacks : cb'[k].at = "save" => cb[k].at = "save" /\ cb'[k].refresh = cb[k].refresh
      /\ \A c \in Connections : conn'[c].at \in {"exchange", "save"} => conn'[c] = conn[c]
  BY DEF Aside
<1> QED
  BY <1>2, <1>3, <1>4 DEF TokensIssued

LEMMA TokensOfExchange ==
  ASSUME UpstreamTypes, CodesOnce, TokensIssued, NEW k \in Callbacks, ExchangeCode(k)
  PROVE  TokensIssued'
<1> DEFINE s == cb[k].s
           x0 == Issued(s)
<1>1. /\ s \in Starts /\ code[s] \in IssuedCodes
      /\ \A j \in Callbacks : j # k => cb'[j] = cb[j]
      /\ \/ /\ s \notin spent /\ spent' = spent \cup {s}
            /\ live' = IF policy = "none" THEN live ELSE live \cup {x0}
            /\ cb'[k].at = "save" /\ cb'[k].refresh = x0
         \/ cb'[k].at = "failed" /\ UNCHANGED <<spent, live>>
      /\ UNCHANGED <<bound, policy, server, row, pending, start, conn, clients, code>>
  BY ExchangeEffect
<1>2. policy = "none" => x0 = None
  BY DEF Issued
<1>3. policy # "none" => x0 \in RefreshTokens /\ x0.grant = s /\ x0.as = code[s].as /\ x0.client = code[s].client
  BY <1>1 DEF Issued, RefreshTokens, IssuedCodes
<1>4. code[s] = [as |-> code[s].as, client |-> code[s].client]
  BY <1>1 DEF IssuedCodes
<1> HIDE DEF s, x0
<1>5. \A x \in RefreshTokens : x \in live' \/ Held(x)' => x \in live \/ Held(x) \/ (x = x0 /\ s \in spent')
  BY <1>1, <1>2, NoneApart DEF Held, CbHas, ConnHas, Asks
<1>6. CodesGrow /\ spent \subseteq spent'
  BY <1>1 DEF CodesGrow
<1>7. ASSUME NEW x \in RefreshTokens, x \in live' \/ Held(x)' PROVE OfGrant(x)'
  <2>1. CASE x \in live \/ Held(x)
    BY <2>1, <1>6, OfGrantKept DEF TokensIssued
  <2>2. CASE x = x0 /\ s \in spent'
    <3>1. x0 \in RefreshTokens /\ policy # "none"
      BY <2>2, <1>2, NoneApart
    <3> QED
      BY <3>1, <2>2, <1>1, <1>3, <1>4 DEF OfGrant
  <2> QED
    BY <1>7, <1>5, <2>1, <2>2
<1>8. policy # "none" => x0 # None
  BY <1>3, NoneApart
<1> QED
  BY <1>1, <1>2, <1>7, <1>8 DEF TokensIssued

LEMMA TokensOfSaveCode ==
  ASSUME UpstreamTypes, TokensIssued, NEW k \in Callbacks, SaveCodeTokens(k)
  PROVE  TokensIssued'
<1>1. /\ cb[k].at = "save" /\ cb'[k].at = "done"
      /\ \A j \in Callbacks : j # k => cb'[j] = cb[j]
      /\ row'.refresh = cb[k].refresh /\ row'.access = "fresh"
      /\ UNCHANGED <<conn, policy, code, spent, live>>
  BY SaveCodeEffect DEF provider
<1>2. \A x \in RefreshTokens : Held(x)' => Held(x)
  BY <1>1 DEF Held, CbHas, ConnHas, Asks
<1>3. \A x \in RefreshTokens : x \in live' \/ Held(x)' => OfGrant(x)'
  BY <1>1, <1>2 DEF TokensIssued, OfGrant
<1> QED
  BY <1>1, <1>3 DEF TokensIssued

LEMMA TokensOfReadToken ==
  ASSUME UpstreamTypes, TokensIssued, NEW c \in Connections, ReadToken(c)
  PROVE  TokensIssued'
<1>1. /\ conn'[c].at \in {"failed", "done", "exchange"} /\ conn'[c].cfg = row
      /\ conn'[c].at = "exchange" => row.refresh # None /\ row.access # "none"
      /\ \A d \in Connections : d # c => conn'[d] = conn[d]
      /\ UNCHANGED <<row, cb, policy, code, spent, live>>
  BY ReadTokenEffect DEF provider
<1>2. \A x \in RefreshTokens : Held(x)' => Held(x)
  BY <1>1 DEF Held, CbHas, ConnHas, Asks
<1>3. \A x \in RefreshTokens : x \in live' \/ Held(x)' => OfGrant(x)'
  BY <1>1, <1>2 DEF TokensIssued, OfGrant
<1> QED
  BY <1>1, <1>3 DEF TokensIssued

LEMMA RotatedToken ==
  ASSUME NEW t \in RefreshTokens
  PROVE  /\ Rotated(t) \in RefreshTokens /\ Rotated(t).n = t.n + 1 /\ Rotated(t).grant = t.grant
         /\ Rotated(t).as = t.as /\ Rotated(t).client = t.client
  BY DEF Rotated, RefreshTokens

LEMMA TokensOfRefresh ==
  ASSUME UpstreamTypes, TokensIssued, NEW c \in Connections, Refresh(c)
  PROVE  TokensIssued'
<1> DEFINE t == conn[c].cfg.refresh
<1>1. /\ conn[c].at = "exchange"
      /\ \A d \in Connections : d # c => conn'[d] = conn[d]
      /\ \/ /\ t \in live /\ Rotating /\ live' = (live \ {t}) \cup {Rotated(t)}
            /\ conn'[c].at = "save" /\ conn'[c].refresh = Rotated(t)
         \/ /\ t \in live /\ ~Rotating /\ live' = live
            /\ conn'[c].at = "save" /\ conn'[c].refresh = t
         \/ /\ ~Known(c) /\ conn'[c].at = "failed" /\ live' \subseteq live
            /\ policy # "detects" => live' = live
      /\ UNCHANGED <<policy, row, cb, code, spent>>
  BY RefreshEffect
<1>2. t \in live => /\ t \in RefreshTokens /\ Rotated(t) \in RefreshTokens
                    /\ OfGrant(t) /\ OfGrant(Rotated(t))
  BY RotatedToken DEF TokensIssued, UpstreamTypes, Ground, OfGrant
<1>3. policy # "none"
  BY <1>1 DEF TokensIssued
<1> HIDE DEF t
<1>4. \A x \in RefreshTokens : x \in live' \/ Held(x)' => x \in live \/ Held(x) \/ (t \in live /\ x = Rotated(t))
  BY <1>1 DEF Held, CbHas, ConnHas, Asks
<1>5. \A x \in RefreshTokens : x \in live' \/ Held(x)' => OfGrant(x)'
  BY <1>1, <1>2, <1>4 DEF TokensIssued, OfGrant
<1>6. conn'[c].at = "save" => conn'[c].refresh # None
  BY <1>1, <1>2, NoneApart
<1> QED
  BY <1>1, <1>3, <1>5, <1>6 DEF TokensIssued

LEMMA TokensOfSaveRefreshed ==
  ASSUME UpstreamTypes, TokensIssued, NEW c \in Connections, SaveRefreshed(c)
  PROVE  TokensIssued'
<1>1. /\ conn[c].at = "save" /\ conn'[c].at = "done"
      /\ \A d \in Connections : d # c => conn'[d] = conn[d]
      /\ row'.refresh = conn[c].refresh /\ row'.access = "fresh"
      /\ UNCHANGED <<cb, policy, code, spent, live>>
  BY SaveRefreshedEffect DEF provider
<1>2. \A x \in RefreshTokens : Held(x)' => Held(x)
  BY <1>1 DEF Held, CbHas, ConnHas, Asks
<1>3. \A x \in RefreshTokens : x \in live' \/ Held(x)' => OfGrant(x)'
  BY <1>1, <1>2 DEF TokensIssued, OfGrant
<1> QED
  BY <1>1, <1>3 DEF TokensIssued

LEMMA TokensStep == UpstreamTypes /\ CodesOnce /\ TokensIssued /\ [OAuthNext]_oauthVars => TokensIssued'
BY StepsAside, TokensAside, TokensOfExchange, TokensOfSaveCode, TokensOfReadToken, TokensOfRefresh,
   TokensOfSaveRefreshed

-------------------------------------------------------------------------------
(* Tokens: undisturbed, what is saved or stored is good *)
LEMMA Counted ==
  ASSUME UpstreamTypes, [OAuthNext]_oauthVars
  PROVE  /\ policy' = policy
         /\ history'.upsets = 0 => history.upsets = 0 /\ ~Upset
         /\ history.overlap => history'.overlap
<1>1. policy' = policy
  BY Zenon DEF OAuthNext, oauthVars, provider, StartSteps, BeginStart, ChooseClient, SelectConfig, WriteConfig, CreatePending,
     CollectPending, PendingExpires, Consent, StartDies, CallbackSteps, ReadPending, TakePending, ReadConfig,
     ExchangeCode, SaveCodeTokens, CallbackDies, ConnectionSteps, ReadToken, Refresh, SaveRefreshed, ConnectionDies,
     SaveConfig, AccessExpires, DeleteServer
<1>2. history \in Histories
  BY DEF UpstreamTypes
<1>3. Upset => history'.upsets # 0 /\ history'.overlap = history.overlap
  BY <1>2 DEF Upset, Histories
<1>4. Upset \/ (history'.upsets = history.upsets /\ (history.overlap => history'.overlap))
  <2>1. CASE \E s \in Starts : StartSteps(s)
    <3>1. PICK s \in Starts : StartSteps(s)
      BY <2>1
    <3>2. \/ Upset \/ history' = history
          \/ \E f, b : history' = [history EXCEPT !.forms = f, !.startsOverlap = b]
      BY <3>1, Zenon DEF StartSteps, BeginStart, ChooseClient, SelectConfig, WriteConfig, CreatePending,
         CollectPending, PendingExpires, Consent, StartDies
    <3> QED
      BY <1>2, <3>2 DEF Histories
  <2>2. CASE \E k \in Callbacks : CallbackSteps(k)
    <3>1. PICK k \in Callbacks : CallbackSteps(k)
      BY <2>2
    <3>2. \/ Upset \/ history' = history
          \/ \E s : history' = Presents(s, k)
      BY <3>1, Zenon DEF CallbackSteps, ReadPending, TakePending, ReadConfig, ExchangeCode, SaveCodeTokens, CallbackDies
    <3> QED
      BY <1>2, <3>2 DEF Histories, Presents
  <2>3. CASE \E c \in Connections : ConnectionSteps(c)
    <3>1. PICK c \in Connections : ConnectionSteps(c)
      BY <2>3
    <3>2. Upset \/ history' = history \/ ReadToken(c)
      BY <3>1, Zenon DEF ConnectionSteps, Refresh, SaveRefreshed, ConnectionDies
    <3> QED
      BY <1>2, <3>2 DEF Histories, ReadToken
  <2>4. CASE (\E form \in bound.asked : SaveConfig(form)) \/ AccessExpires \/ DeleteServer \/ UNCHANGED oauthVars
    BY <1>2, <2>4 DEF SaveConfig, AccessExpires, DeleteServer, oauthVars, Histories
  <2> QED
    BY <2>1, <2>2, <2>3, <2>4, Zenon DEF OAuthNext
<1> QED
  BY <1>1, <1>2, <1>3, <1>4 DEF Histories

LEMMA UndisturbedBefore ==
  ASSUME UpstreamTypes, Asked, [OAuthNext]_oauthVars, Undisturbed'
  PROVE  Undisturbed /\ ~Upset
BY OneAppBefore, Counted DEF Undisturbed

(* While one app is asked for, every token is the row's client's *)
LEMMA RowsOwn ==
  ASSUME UpstreamTypes, CodesOnce, ClientKept, TokensIssued, OneApp, NEW x \in RefreshTokens, x \in live \/ Held(x)
  PROVE  x.as = row.as /\ x.client = row.client
<1>1. x.grant \in Starts /\ code[x.grant] = [as |-> x.as, client |-> x.client]
  BY DEF TokensIssued, OfGrant, RefreshTokens
<1>2. [as |-> x.as, client |-> x.client] \in IssuedCodes
  BY DEF RefreshTokens, IssuedCodes
<1>3. code[x.grant] # None
  BY <1>1, <1>2, NoneApart
<1>4. /\ start[x.grant].at = "sent" /\ ClientHeld(x.grant)
      /\ code[x.grant] = [as |-> start[x.grant].as, client |-> start[x.grant].client]
  BY <1>1, <1>3 DEF CodesOnce, CodesGiven, ClientKept
<1> QED
  BY <1>1, <1>4 DEF ClientHeld

LEMMA FreshInit == OAuthInit => Grants
<1> SUFFICES ASSUME OAuthInit PROVE Fresh
  BY DEF Grants
<1>1. row.refresh = None /\ row.access = "none" /\ live = {}
  BY DEF OAuthInit, NoRow
<1>2. \A k \in Callbacks : cb[k].at = "new"
  BY DEF OAuthInit, NoCallback
<1>3. \A c \in Connections : conn[c].at = "new"
  BY DEF OAuthInit, NoConnection
<1>4. \A x \in RefreshTokens : ~Saves(x)
  BY <1>2, <1>3 DEF Saves, CbHas, ConnHas
<1> QED
  BY <1>1, <1>2, <1>3, <1>4 DEF Fresh, SaversLive, RowLive, Newest, SavedOnce, OneByOne, Refreshing, CbHas, ConnHas

LEMMA FreshAside ==
  ASSUME UpstreamTypes, Fresh, Aside, ~Upset
  PROVE  Fresh'
<1>1. /\ conn' = conn /\ live' = live /\ policy' = policy /\ row'.refresh = row.refresh
      /\ row'.access = "none" <=> row.access = "none"
      /\ \A k \in Callbacks : cb'[k].at = "save" => cb[k].at = "save" /\ cb'[k].refresh = cb[k].refresh
  BY DEF Aside
<1>2. \A k \in Callbacks, x \in RefreshTokens : CbHas(k, x)' => CbHas(k, x)
  BY <1>1 DEF CbHas
<1>3. \A c \in Connections, x \in RefreshTokens :
         (ConnHas(c, x)' <=> ConnHas(c, x)) /\ (Asks(c, x)' <=> Asks(c, x))
  BY <1>1 DEF ConnHas, Asks
<1>4. \A x \in RefreshTokens : (Saves(x)' => Saves(x)) /\ (Held(x)' => Held(x))
  BY <1>1, <1>2, <1>3 DEF Saves, Held
<1>5. SaversLive' /\ RowLive'
  BY <1>1, <1>4 DEF Fresh, SaversLive, RowLive, Rotating
<1>6. Rotating' => Newest' /\ SavedOnce'
  BY <1>1, <1>2, <1>3, <1>4 DEF Fresh, Rotating, Newest, SavedOnce
<1>7. policy' = "detects" => OneByOne'
  BY <1>1 DEF Fresh, OneByOne, Refreshing, Known
<1> QED
  BY <1>5, <1>6, <1>7 DEF Fresh

LEMMA FreshOfExchange ==
  ASSUME UpstreamTypes, CodesOnce, TokensIssued, Fresh, NEW k \in Callbacks, ExchangeCode(k)
  PROVE  Fresh'
<1> PICK s : s = cb[k].s
  OBVIOUS
<1> PICK x0 : x0 = Issued(s)
  OBVIOUS
<1>0. cb[k].at = "exchange"
  BY DEF ExchangeCode
<1>1. /\ s \in Starts /\ code[s] \in IssuedCodes
      /\ \A j \in Callbacks : j # k => cb'[j] = cb[j]
      /\ \/ /\ s \notin spent /\ spent' = spent \cup {s}
            /\ live' = IF policy = "none" THEN live ELSE live \cup {x0}
            /\ cb'[k].at = "save" /\ cb'[k].refresh = x0
         \/ cb'[k].at = "failed" /\ UNCHANGED <<spent, live>>
      /\ UNCHANGED <<policy, row, conn, code>>
  BY ExchangeEffect
<1>2. policy = "none" => x0 = None
  BY DEF Issued
<1>3. policy # "none" => x0 \in RefreshTokens /\ x0.grant = s /\ x0.n = 1
  BY <1>1 DEF Issued, RefreshTokens, IssuedCodes
<1> DEFINE gives == cb'[k].at = "save"
<1>4. /\ gives /\ policy # "none" => live' = live \cup {x0}
      /\ gives /\ policy = "none" => live' = live
      /\ ~gives => live' = live
      /\ gives => s \notin spent /\ cb'[k].refresh = x0
  BY <1>1
<1>5. \A c \in Connections, x \in RefreshTokens :
         (ConnHas(c, x)' <=> ConnHas(c, x)) /\ (Asks(c, x)' <=> Asks(c, x))
  BY <1>1 DEF ConnHas, Asks
<1>6. \A j \in Callbacks, x \in RefreshTokens :
         CbHas(j, x)' <=> CbHas(j, x) \/ (j = k /\ gives /\ policy # "none" /\ x = x0)
  BY <1>0, <1>1, <1>2, <1>3, <1>4, NoneApart DEF CbHas
<1>7. \A x \in RefreshTokens :
         /\ Saves(x)' => Saves(x) \/ (gives /\ policy # "none" /\ x = x0)
         /\ Held(x)' => Held(x) \/ (gives /\ policy # "none" /\ x = x0)
  BY <1>1, <1>5, <1>6 DEF Saves, Held
<1>8. gives => \A x \in RefreshTokens : x \in live \/ Held(x) => x.grant # s
  BY <1>4 DEF TokensIssued, OfGrant
<1>9. SaversLive' /\ RowLive'
  BY <1>1, <1>4, <1>7 DEF Fresh, SaversLive, RowLive, Rotating
<1>10. ASSUME Rotating' PROVE Newest' /\ SavedOnce'
  <2>1. Newest /\ SavedOnce /\ policy # "none"
    BY <1>1, <1>10 DEF Fresh, Rotating
  <2>2. live \subseteq RefreshTokens
    BY DEF UpstreamTypes, Ground
  <2>3. \A x \in live' : x \in live \/ (gives /\ x = x0)
    BY <1>4, <2>1
  <2>4. Newest'
    <3>1. \A x, y \in live' : x.grant = y.grant => x = y
      BY <1>3, <1>8, <2>1, <2>2, <2>3 DEF Newest
    <3>2. ASSUME NEW x \in live', NEW y \in RefreshTokens, Held(y)', y.grant = x.grant
          PROVE  y.n <= x.n
      <4>1. (x \in live \/ (gives /\ x = x0)) /\ (Held(y) \/ (gives /\ y = x0))
        BY <1>7, <2>3, <3>2
      <4>2. CASE x \in live /\ Held(y)
        BY <2>1, <3>2, <4>2 DEF Newest
      <4>3. CASE gives /\ x = x0
        BY <1>3, <1>8, <2>1, <3>2, <4>1, <4>3
      <4>4. CASE gives /\ y = x0 /\ x \in live
        BY <1>3, <1>8, <2>1, <2>2, <3>2, <4>4
      <4> QED
        BY <4>1, <4>2, <4>3, <4>4
    <3> QED
      BY <3>1, <3>2 DEF Newest
  <2>5. ASSUME NEW x \in RefreshTokens, x # x0 \/ ~gives
        PROVE  /\ Saves(x)' => row'.refresh # x /\ \A c \in Connections : ~Asks(c, x)'
               /\ \A i, j \in Callbacks : CbHas(i, x)' /\ CbHas(j, x)' => i = j
               /\ \A c, d \in Connections : ConnHas(c, x)' /\ ConnHas(d, x)' => c = d
               /\ \A j \in Callbacks, c \in Connections : ~(CbHas(j, x)' /\ ConnHas(c, x)')
    BY <1>1, <1>5, <1>6, <1>7, <2>1, <2>5 DEF SavedOnce
  <2>6. ASSUME gives
        PROVE  /\ row'.refresh # x0 /\ \A c \in Connections : ~Asks(c, x0)'
               /\ \A i, j \in Callbacks : CbHas(i, x0)' /\ CbHas(j, x0)' => i = j
               /\ \A c \in Connections : ~ConnHas(c, x0)'
    <3>1. x0 \in RefreshTokens /\ ~Held(x0)
      BY <1>3, <1>8, <2>1, <2>6
    <3>2. /\ row.refresh # x0
          /\ \A j \in Callbacks : ~CbHas(j, x0)
          /\ \A c \in Connections : ~ConnHas(c, x0) /\ ~Asks(c, x0)
      BY <3>1 DEF Held
    <3> QED
      BY <1>1, <1>5, <1>6, <3>1, <3>2
  <2>7. SavedOnce'
    BY <2>5, <2>6 DEF SavedOnce
  <2> QED
    BY <2>4, <2>7
<1>11. policy' = "detects" => OneByOne'
  <2>1. live \subseteq live'
    BY <1>1
  <2> QED
    BY <1>1, <2>1 DEF Fresh, OneByOne, Refreshing, Known
<1> QED
  BY <1>9, <1>10, <1>11 DEF Fresh

LEMMA FreshOfSaveCode ==
  ASSUME UpstreamTypes, TokensIssued, Fresh, NEW k \in Callbacks, SaveCodeTokens(k)
  PROVE  Fresh'
<1> DEFINE x0 == cb[k].refresh
<1>1. /\ cb[k].at = "save" /\ cb'[k].at = "done"
      /\ \A j \in Callbacks : j # k => cb'[j] = cb[j]
      /\ row'.refresh = x0 /\ row'.access = "fresh"
      /\ UNCHANGED <<conn, policy, code, spent, live>>
  BY SaveCodeEffect DEF provider
<1>2. x0 \in RefreshTokens \cup {None} /\ (policy # "none" => x0 \in RefreshTokens)
  BY <1>1 DEF UpstreamTypes, CallbacksTyped, CallbackRecords, TokensIssued
<1>3. \A x \in RefreshTokens : x = x0 <=> CbHas(k, x)
  BY <1>1 DEF CbHas
<1> HIDE DEF x0
<1>4. \A c \in Connections, x \in RefreshTokens :
         (ConnHas(c, x)' <=> ConnHas(c, x)) /\ (Asks(c, x)' <=> Asks(c, x))
  BY <1>1 DEF ConnHas, Asks
<1>5. \A j \in Callbacks, x \in RefreshTokens : CbHas(j, x)' <=> CbHas(j, x) /\ j # k
  BY <1>1 DEF CbHas
<1>6. \A x \in RefreshTokens : (Saves(x)' => Saves(x)) /\ (Held(x)' => Held(x))
  BY <1>1, <1>3, <1>4, <1>5 DEF Saves, Held
<1>7. policy # "none" => x0 \in live
  BY <1>2, <1>3 DEF Fresh, SaversLive, Saves
<1>8. SaversLive' /\ RowLive'
  BY <1>1, <1>6, <1>7 DEF Fresh, SaversLive, RowLive
<1>9. ASSUME Rotating' PROVE Newest' /\ SavedOnce'
  <2>1. Newest /\ SavedOnce
    BY <1>1, <1>9 DEF Fresh, Rotating
  <2>2. Newest'
    BY <1>1, <1>6, <2>1 DEF Newest
  <2>3. \A x \in RefreshTokens : Saves(x)' => x # x0
    BY <1>3, <1>4, <1>5, <2>1 DEF SavedOnce, Saves
  <2>4. SavedOnce'
    BY <1>1, <1>4, <1>5, <1>6, <2>1, <2>3 DEF SavedOnce
  <2> QED
    BY <2>2, <2>4
<1>10. policy' = "detects" => OneByOne'
  BY <1>1 DEF Fresh, OneByOne, Refreshing, Known
<1> QED
  BY <1>8, <1>9, <1>10 DEF Fresh

LEMMA FreshOfReadToken ==
  ASSUME UpstreamTypes, CodesOnce, ClientKept, TokensIssued, Fresh, Undisturbed, Undisturbed',
         NEW c \in Connections, ReadToken(c)
  PROVE  Fresh'
<1>1. /\ conn[c].at = "new" /\ conn'[c].at \in {"failed", "done", "exchange"} /\ conn'[c].cfg = row
      /\ conn'[c].at = "exchange" => row.refresh # None /\ row.access # "none"
      /\ \A d \in Connections : d # c => conn'[d] = conn[d]
      /\ history'.overlap = (history.overlap \/ \E d \in Connections \ {c} : Refreshing(d))
      /\ UNCHANGED <<row, cb, policy, code, spent, live>>
  BY ReadTokenEffect DEF provider
<1>2. \A j \in Callbacks, x \in RefreshTokens : CbHas(j, x)' <=> CbHas(j, x)
  BY <1>1 DEF CbHas
<1>3. ASSUME NEW d \in Connections, NEW x \in RefreshTokens
      PROVE  /\ ConnHas(d, x)' <=> ConnHas(d, x)
             /\ Asks(d, x)' => Asks(d, x) \/ row.refresh = x
  <2>1. CASE d = c
    BY <1>1, <2>1 DEF ConnHas, Asks
  <2>2. CASE d # c
    BY <1>1, <2>2 DEF ConnHas, Asks
  <2> QED
    BY <2>1, <2>2
<1>4. \A x \in RefreshTokens : (Saves(x)' <=> Saves(x)) /\ (Held(x)' => Held(x))
  BY <1>1, <1>2, <1>3 DEF Saves, Held
<1>5. \A d \in Connections : conn'[d].at = "save" <=> conn[d].at = "save"
  BY <1>1
<1>6. SaversLive' /\ RowLive'
  BY <1>1, <1>4, <1>5 DEF Fresh, SaversLive, RowLive, Rotating
<1>7. ASSUME Rotating' PROVE Newest' /\ SavedOnce'
  <2>1. Newest /\ SavedOnce
    BY <1>1, <1>7 DEF Fresh, Rotating
  <2>2. Newest'
    BY <1>1, <1>4, <2>1 DEF Newest
  <2>3. SavedOnce'
    BY <1>1, <1>2, <1>3, <1>4, <2>1 DEF SavedOnce
  <2> QED
    BY <2>2, <2>3
<1>8. ASSUME policy' = "detects" PROVE OneByOne'
  <2>1. OneByOne /\ policy = "detects"
    BY <1>1, <1>8 DEF Fresh
  <2>2. CASE conn'[c].at # "exchange"
    BY <1>1, <2>1, <2>2 DEF OneByOne, Refreshing, Known
  <2>3. CASE conn'[c].at = "exchange"
    <3>1. \A d \in Connections : d # c => ~Refreshing(d)
      BY <1>1, <2>1, <1>8 DEF Undisturbed
    <3>2. \A d \in Connections : conn[d].at # "save"
      BY <1>1, <3>1 DEF Refreshing
    <3>3. row.refresh \in live
      BY <1>1, <2>1, <2>3, <3>2 DEF Fresh, RowLive
    <3>4. row.refresh.as = row.as /\ row.refresh.client = row.client
      BY <3>3, RowsOwn DEF UpstreamTypes, Ground, Undisturbed
    <3>5. Known(c)'
      BY <1>1, <3>3, <3>4 DEF Known
    <3> QED
      BY <1>1, <3>1, <3>5 DEF OneByOne, Refreshing
  <2> QED
    BY <2>2, <2>3
<1> QED
  BY <1>6, <1>7, <1>8 DEF Fresh

LEMMA FreshOfRefresh ==
  ASSUME UpstreamTypes, TokensIssued, Fresh, NEW c \in Connections, Refresh(c)
  PROVE  Fresh'
<1> PICK t : t = conn[c].cfg.refresh
  OBVIOUS
<1> PICK next : next = conn'[c].refresh
  OBVIOUS
<1> DEFINE saves == conn'[c].at = "save"
<1>1. /\ conn[c].at = "exchange"
      /\ \A d \in Connections : d # c => conn'[d] = conn[d]
      /\ \/ /\ t \in live /\ Rotating /\ live' = (live \ {t}) \cup {Rotated(t)}
            /\ saves /\ next = Rotated(t)
         \/ /\ t \in live /\ ~Rotating /\ live' = live
            /\ saves /\ next = t
         \/ /\ ~Known(c) /\ conn'[c].at = "failed" /\ live' \subseteq live
            /\ policy # "detects" => live' = live
      /\ UNCHANGED <<policy, row, cb, code, spent>>
  BY RefreshEffect
<1>2. t \in live => /\ t \in RefreshTokens /\ Rotated(t) \in RefreshTokens
                    /\ Rotated(t).n = t.n + 1 /\ Rotated(t).grant = t.grant /\ t.n \in Nat
  BY RotatedToken DEF UpstreamTypes, Ground, RefreshTokens
<1>3. live \subseteq RefreshTokens
  BY DEF UpstreamTypes, Ground
<1>4. \A x \in RefreshTokens : x = t <=> Asks(c, x)
  BY <1>1 DEF Asks
<1>5. \A j \in Callbacks, x \in RefreshTokens : CbHas(j, x)' <=> CbHas(j, x)
  BY <1>1 DEF CbHas
<1>6. \A d \in Connections, x \in RefreshTokens :
         /\ ConnHas(d, x)' <=> (ConnHas(d, x) \/ (d = c /\ saves /\ x = next))
         /\ Asks(d, x)' <=> Asks(d, x) /\ d # c
  BY <1>1 DEF ConnHas, Asks
<1>7. \A x \in RefreshTokens :
         /\ Saves(x)' => Saves(x) \/ (saves /\ x = next)
         /\ Held(x)' => Held(x) \/ (saves /\ x = next)
  BY <1>1, <1>5, <1>6 DEF Saves, Held
<1>8. \A d \in Connections : conn[d].at = "save" => conn'[d].at = "save"
  BY <1>1
<1>9. CASE Rotating /\ saves
  <2>1. /\ t \in live /\ live' = (live \ {t}) \cup {next} /\ next = Rotated(t)
        /\ next \in RefreshTokens /\ next.n = t.n + 1 /\ next.grant = t.grant /\ t.n \in Nat
    BY <1>1, <1>2, <1>9
  <2>2. Newest /\ SavedOnce
    BY <1>9 DEF Fresh
  <2>3. ~Held(next)
    <3>1. Held(next) => next.n <= t.n
      BY <2>1, <2>2 DEF Newest
    <3>2. ~(t.n + 1 <= t.n)
      BY <2>1
    <3> QED
      BY <2>1, <3>1, <3>2
  <2>4. \A x \in RefreshTokens : Saves(x) => x # t
    BY <1>4, <2>2 DEF SavedOnce
  <2>5. SaversLive' /\ RowLive'
    BY <1>1, <1>7, <1>9, <2>1, <2>4 DEF Fresh, SaversLive, RowLive, Rotating
  <2>6. \A x \in live' : (x \in live /\ x # t) \/ x = next
    BY <2>1
  <2>7. \A x, y \in live' : x.grant = y.grant => x = y
    BY <2>1, <2>2, <2>6 DEF Newest
  <2>8. ASSUME NEW x \in live', NEW y \in RefreshTokens, Held(y)', y.grant = x.grant
        PROVE  y.n <= x.n
    <3>1. Held(y) \/ y = next
      BY <1>7, <2>8
    <3>2. CASE x \in live /\ x # t
      <4>1. x.grant # t.grant
        BY <2>1, <2>2, <3>2 DEF Newest
      <4> QED
        BY <2>1, <2>2, <2>8, <3>1, <3>2, <4>1 DEF Newest
    <3>3. CASE x = next
      <4>1. y.n \in Nat
        BY DEF RefreshTokens
      <4>2. Held(y) => y.n <= t.n
        BY <2>1, <2>2, <2>8, <3>3 DEF Newest
      <4> QED
        BY <2>1, <3>1, <3>3, <4>1, <4>2
    <3> QED
      BY <2>6, <3>2, <3>3
  <2>9. Newest'
    BY <2>7, <2>8 DEF Newest
  <2>10. ASSUME NEW x \in RefreshTokens, x # next
         PROVE  /\ Saves(x)' => row'.refresh # x /\ \A d \in Connections : ~Asks(d, x)'
                /\ \A i, j \in Callbacks : CbHas(i, x)' /\ CbHas(j, x)' => i = j
                /\ \A d, e \in Connections : ConnHas(d, x)' /\ ConnHas(e, x)' => d = e
                /\ \A j \in Callbacks, d \in Connections : ~(CbHas(j, x)' /\ ConnHas(d, x)')
    BY <1>1, <1>5, <1>6, <1>7, <2>2, <2>10 DEF SavedOnce
  <2>11. /\ row'.refresh # next /\ \A d \in Connections : ~Asks(d, next)'
         /\ \A j \in Callbacks : ~CbHas(j, next)'
         /\ \A d, e \in Connections : ConnHas(d, next)' /\ ConnHas(e, next)' => d = e
    <3>1. /\ row.refresh # next
          /\ \A j \in Callbacks : ~CbHas(j, next)
          /\ \A d \in Connections : ~ConnHas(d, next) /\ ~Asks(d, next)
      BY <2>3 DEF Held
    <3> QED
      BY <1>1, <1>5, <1>6, <2>1, <3>1
  <2>12. SavedOnce'
    BY <2>10, <2>11 DEF SavedOnce
  <2>13. ASSUME policy' = "detects" PROVE OneByOne'
    <3>1. OneByOne
      BY <1>1, <2>13 DEF Fresh
    <3>2. \A d \in Connections : d # c => ~Refreshing(d)
      BY <1>1, <3>1 DEF OneByOne, Refreshing
    <3> QED
      BY <1>1, <1>9, <3>2 DEF OneByOne, Refreshing
  <2> QED
    BY <2>5, <2>9, <2>12, <2>13 DEF Fresh
<1>10. CASE ~Rotating /\ saves
  <2>1. t \in live /\ live' = live /\ next = t /\ policy' # "detects" /\ ~Rotating'
    BY <1>1, <1>10 DEF Rotating
  <2>2. SaversLive' /\ RowLive'
    BY <1>1, <1>7, <1>10, <2>1 DEF Fresh, SaversLive, RowLive, Rotating
  <2> QED
    BY <2>1, <2>2 DEF Fresh
<1>11. CASE ~saves
  <2>1. ~Known(c) /\ policy # "detects" /\ live' = live
    BY <1>1, <1>11 DEF Fresh, OneByOne
  <2>2. SaversLive' /\ RowLive'
    BY <1>1, <1>7, <1>8, <1>11, <2>1 DEF Fresh, SaversLive, RowLive, Rotating
  <2>3. ASSUME Rotating' PROVE Newest' /\ SavedOnce'
    <3>1. Newest /\ SavedOnce
      BY <1>1, <2>3 DEF Fresh, Rotating
    <3>2. Newest'
      BY <1>7, <1>11, <2>1, <3>1 DEF Newest
    <3>3. SavedOnce'
      BY <1>1, <1>5, <1>6, <1>7, <1>11, <3>1 DEF SavedOnce
    <3> QED
      BY <3>2, <3>3
  <2> QED
    BY <1>1, <2>1, <2>2, <2>3 DEF Fresh
<1> QED
  BY <1>9, <1>10, <1>11

LEMMA FreshOfSaveRefreshed ==
  ASSUME UpstreamTypes, TokensIssued, Fresh, NEW c \in Connections, SaveRefreshed(c)
  PROVE  Fresh'
<1> DEFINE x0 == conn[c].refresh
<1>1. /\ conn[c].at = "save" /\ conn'[c].at = "done"
      /\ \A d \in Connections : d # c => conn'[d] = conn[d]
      /\ row'.refresh = x0 /\ row'.access = "fresh"
      /\ UNCHANGED <<cb, policy, code, spent, live>>
  BY SaveRefreshedEffect DEF provider
<1>2. x0 \in RefreshTokens
  BY <1>1 DEF UpstreamTypes, ConnectionRecords, TokensIssued
<1>3. \A x \in RefreshTokens : x = x0 <=> ConnHas(c, x)
  BY <1>1 DEF ConnHas
<1> HIDE DEF x0
<1>4. \A j \in Callbacks, x \in RefreshTokens : CbHas(j, x)' <=> CbHas(j, x)
  BY <1>1 DEF CbHas
<1>5. \A d \in Connections, x \in RefreshTokens :
         (ConnHas(d, x)' <=> ConnHas(d, x) /\ d # c) /\ (Asks(d, x)' <=> Asks(d, x))
  BY <1>1 DEF ConnHas, Asks
<1>6. \A x \in RefreshTokens : (Saves(x)' => Saves(x)) /\ (Held(x)' => Held(x))
  BY <1>1, <1>3, <1>4, <1>5 DEF Saves, Held
<1>7. x0 \in live
  BY <1>2, <1>3 DEF Fresh, SaversLive, Saves
<1>8. SaversLive' /\ RowLive'
  BY <1>1, <1>6, <1>7 DEF Fresh, SaversLive, RowLive
<1>9. ASSUME Rotating' PROVE Newest' /\ SavedOnce'
  <2>1. Newest /\ SavedOnce
    BY <1>1, <1>9 DEF Fresh, Rotating
  <2>2. Newest'
    BY <1>1, <1>6, <2>1 DEF Newest
  <2>3. \A x \in RefreshTokens : Saves(x)' => x # x0
    BY <1>3, <1>4, <1>5, <2>1 DEF SavedOnce, Saves
  <2>4. SavedOnce'
    BY <1>1, <1>4, <1>5, <1>6, <2>1, <2>3 DEF SavedOnce
  <2> QED
    BY <2>2, <2>4
<1>10. policy' = "detects" => OneByOne'
  BY <1>1 DEF Fresh, OneByOne, Refreshing, Known
<1> QED
  BY <1>8, <1>9, <1>10 DEF Fresh

LEMMA FreshStep ==
  ASSUME UpstreamTypes, CodesOnce, Asked, ClientKept, TokensIssued, Grants, [OAuthNext]_oauthVars
  PROVE  Grants'
<1> SUFFICES ASSUME Undisturbed' PROVE Fresh'
  BY DEF Grants
<1>1. Undisturbed /\ ~Upset
  BY UndisturbedBefore
<1>2. Fresh
  BY <1>1 DEF Grants
<1> QED
  BY <1>1, <1>2, StepsAside, FreshAside, FreshOfExchange, FreshOfSaveCode, FreshOfReadToken, FreshOfRefresh,
     FreshOfSaveRefreshed

OAuthInv == UpstreamTypes /\ CodesOnce /\ Asked /\ ClientKept /\ TokensIssued /\ Grants

\* The inductive invariant: codes are presented once; the app asked for, the row's
\* client and the clients the codes were given to agree as long as there is one
\* app; and every refresh token held anywhere comes from a code that was exchanged.
THEOREM OAuthInvariance == OAuthSpec => []OAuthInv
<1>1. OAuthInit => OAuthInv
  BY InitTypes, CodesInit, AskedInit, ClientInit, TokensInit, FreshInit DEF OAuthInv
<1>2. OAuthInv /\ [OAuthNext]_oauthVars => OAuthInv'
  <2> SUFFICES ASSUME OAuthInv, [OAuthNext]_oauthVars PROVE OAuthInv'
    OBVIOUS
  <2>1. UpstreamTypes'
    BY TypesStep DEF OAuthInv, TokensIssued
  <2>2. CodesOnce' /\ Asked' /\ TokensIssued'
    BY CodesStep, AskedStep, TokensStep DEF OAuthInv
  <2>3. ClientKept' /\ Grants'
    BY ClientStep, FreshStep DEF OAuthInv
  <2> QED
    BY <2>1, <2>2, <2>3 DEF OAuthInv
<1> QED
  BY <1>1, <1>2, PTL DEF OAuthSpec

\* However often and wherever the provider's redirect is loaded, a code is presented
\* at most once, and while every authorization asks for one app and none overlaps
\* another, at its issuer and by the client it was given to.
THEOREM CodesSpentOnce == OAuthSpec => []CodeSpentAsIssued
<1>1. OAuthInv => CodeSpentAsIssued
  BY DEF OAuthInv, CodesOnce, PresentedOnce, ClientKept, CodeSpentAsIssued
<1> QED
  BY <1>1, OAuthInvariance, PTL

\* Refreshes and new authorizations in any order leave a stored refresh token that
\* the provider takes from the stored client, whatever its policy, as long as
\* nothing fails halfway, one app is asked for, and a provider that revokes a
\* grant whose old token it sees again is never sent two refreshes at once.
THEOREM GrantStaysGood == OAuthSpec => []GrantKept
<1>1. OAuthInv => GrantKept
  <2> SUFFICES ASSUME OAuthInv, Undisturbed, Idle, row.access # "none"
               PROVE  IF row.refresh = None THEN policy = "none"
                      ELSE row.refresh \in live /\ row.refresh.as = row.as /\ row.refresh.client = row.client
    BY DEF GrantKept
  <2>1. Fresh /\ TokensIssued /\ UpstreamTypes /\ CodesOnce /\ ClientKept /\ OneApp
    BY DEF OAuthInv, Grants, Undisturbed
  <2>2. CASE row.refresh = None
    BY <2>1, <2>2 DEF TokensIssued
  <2>3. CASE row.refresh # None
    <3>1. row.refresh \in RefreshTokens /\ policy # "none"
      BY <2>1, <2>3 DEF UpstreamTypes, Rows, TokensIssued
    <3>2. row.refresh \in live
      BY <2>1, <3>1 DEF Fresh, RowLive, Idle
    <3>3. row.refresh.as = row.as /\ row.refresh.client = row.client
      BY <2>1, <3>1, <3>2, RowsOwn
    <3> QED
      BY <2>3, <3>2, <3>3
  <2> QED
    BY <2>2, <2>3
<1> QED
  BY <1>1, OAuthInvariance, PTL

=============================================================================
