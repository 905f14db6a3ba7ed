---------------------------- MODULE ToolApproval ----------------------------
(***************************************************************************)
(* The human approval gate (approvals/approval.service.ts and              *)
(* plugins/approval-hook.ts) on several replicas over one database.        *)
(*                                                                         *)
(* A tool call that matches a configured pattern is held: its hook inserts *)
(* a pending row and polls the row until somebody decides it or the        *)
(* deadline passes.  Deciders run concurrently, on any replica.  Every     *)
(* await is a step of its own, so everything another process can do may    *)
(* happen between the read of a row and the use of what was read.          *)
(***************************************************************************)
EXTENDS Naturals

CONSTANTS
  Calls,       \* tool calls; each makes at most one approval request
  Decisions,   \* decision requests (POST /api/approvals/:id/decision)
  Users,       \* people with servers.write
  Replicas,    \* gateway processes
  Nobody,      \* no user (row.actorId or row.resolvedBy is not a person)
  Requester,   \* Requester[c]: the actor of the call c, or Nobody
  MatchedBy,   \* MatchedBy[c]: how the patterns match the call c
  MaxFaults,   \* bound: failed database statements
  MaxCrashes   \* bound: replica crashes

\* A pattern can name the tool or the server's id ("id"), or only the
\* server's slug or display name ("name"), which need a row to be read.
Matches == {"none", "id", "name"}

ASSUME ConstantsAssumption ==
  /\ Nobody \notin Users
  /\ Requester \in [Calls -> Users \cup {Nobody}]
  /\ MatchedBy \in [Calls -> Matches]
  /\ MaxFaults \in Nat
  /\ MaxCrashes \in Nat

VARIABLES
  status,      \* status[c]: tool_approvals.status of c's row, "none" before
  resolvedBy,  \* resolvedBy[c]: the person in tool_approvals.resolved_by
  pc,          \* pc[c]: where the call's hook is
  home,        \* home[c]: the replica that serves the call
  seen,        \* seen[c]: the status the hook last read
  overdue,     \* overdue[c]: Date.now() >= deadline
  held,        \* held[c]: shouldGate said the call needs an approval
  outcome,     \* outcome[c]: what became of the call
  dec,         \* dec[d]: the state of the decision request d
  audit,       \* the mcp.tool.approval_* entries of the audit trail
  faults,      \* statements that have failed
  crashes      \* replicas that have crashed

rowVars == <<status, resolvedBy>>
callVars == <<pc, home, seen, overdue, held, outcome>>
vars == <<status, resolvedBy, pc, home, seen, overdue, held, outcome,
          dec, audit, faults, crashes>>

Statuses == {"none", "pending", "approved", "denied", "expired"}
Verdicts == {"approved", "denied"}
\* A call is in the waiter map of its replica exactly while it is "asleep".
Waiting == {"read", "act", "asleep", "expire", "reread"}
CallPcs == Waiting \cup {"idle", "create", "done"}
Outcomes == {"none", "ran", "denied", "timedout", "error", "lost"}
DecisionPcs == {"idle", "resolve", "answer", "answered", "refused", "failed",
                "lost"}
NoDecision == [pc |-> "idle", call |-> Nobody, by |-> Nobody,
               verdict |-> "denied", at |-> Nobody]

TypeOK ==
  /\ status \in [Calls -> Statuses]
  /\ resolvedBy \in [Calls -> Users \cup {Nobody}]
  /\ pc \in [Calls -> CallPcs]
  /\ home \in [Calls -> Replicas \cup {Nobody}]
  /\ seen \in [Calls -> Statuses]
  /\ overdue \in [Calls -> BOOLEAN]
  /\ held \in [Calls -> BOOLEAN]
  /\ outcome \in [Calls -> Outcomes]
  /\ dec \in [Decisions -> [pc : DecisionPcs, call : Calls \cup {Nobody},
                            by : Users \cup {Nobody}, verdict : Verdicts,
                            at : Replicas \cup {Nobody}]]
  /\ audit \subseteq [call : Calls, by : Users, verdict : Verdicts]
  /\ faults \in Nat
  /\ crashes \in Nat

Init ==
  /\ status = [c \in Calls |-> "none"]
  /\ resolvedBy = [c \in Calls |-> Nobody]
  /\ pc = [c \in Calls |-> "idle"]
  /\ home = [c \in Calls |-> Nobody]
  /\ seen = [c \in Calls |-> "none"]
  /\ overdue = [c \in Calls |-> FALSE]
  /\ held = [c \in Calls |-> FALSE]
  /\ outcome = [c \in Calls |-> "none"]
  /\ dec = [d \in Decisions |-> NoDecision]
  /\ audit = {}
  /\ faults = 0
  /\ crashes = 0

-----------------------------------------------------------------------------
(* The hook, on the replica that serves the call.                          *)

DbFault ==
  /\ faults < MaxFaults
  /\ faults' = faults + 1

Finish(c, result) ==
  /\ pc' = [pc EXCEPT ![c] = "done"]
  /\ outcome' = [outcome EXCEPT ![c] = result]

\* Mutant of ResolveRow: the update without its "AND status = 'pending'".
ResolveRowAlways(c, newStatus, by) ==
  /\ status' = [status EXCEPT ![c] = newStatus]
  /\ resolvedBy' = [resolvedBy EXCEPT ![c] = by]

\* UPDATE tool_approvals ... WHERE id = ? AND status = 'pending'
ResolveRow(c, newStatus, by) ==
  IF status[c] = "pending"
  THEN /\ status' = [status EXCEPT ![c] = newStatus]
       /\ resolvedBy' = [resolvedBy EXCEPT ![c] = by]
  ELSE UNCHANGED rowVars

\* shouldGate: with the server's row the slug and name are compared too;
\* a failed lookup is caught and leaves the tool name and server id only.
ShouldGate(c, found) ==
  \/ MatchedBy[c] = "id"
  \/ MatchedBy[c] = "name" /\ found

\* A call arrives; one that needs no approval runs at once.
Arrive(c) ==
  /\ pc[c] = "idle"
  /\ \E r \in Replicas : home' = [home EXCEPT ![c] = r]
  /\ \E found \in BOOLEAN :
       /\ IF found THEN UNCHANGED faults ELSE DbFault
       /\ held' = [held EXCEPT ![c] = ShouldGate(c, found)]
       /\ IF ShouldGate(c, found)
          THEN pc' = [pc EXCEPT ![c] = "create"] /\ UNCHANGED outcome
          ELSE Finish(c, "ran")
  /\ UNCHANGED <<rowVars, seen, overdue, dec, audit, crashes>>

\* request: insert the pending row; the deadline starts with waitFor.
Request(c) ==
  /\ pc[c] = "create"
  /\ status' = [status EXCEPT ![c] = "pending"]
  /\ pc' = [pc EXCEPT ![c] = "read"]
  /\ UNCHANGED <<resolvedBy, home, seen, overdue, held, outcome, dec, audit,
                 faults, crashes>>

\* The head of the polling loop: the row as it is now.
ReadRow(c) ==
  /\ pc[c] = "read"
  /\ seen' = [seen EXCEPT ![c] = status[c]]
  /\ pc' = [pc EXCEPT ![c] = "act"]
  /\ UNCHANGED <<rowVars, home, overdue, held, outcome, dec, audit, faults,
                 crashes>>

\* What the hook answers for a row that is not pending.
OutcomeOf(s) ==
  IF s = "approved" THEN "ran"
  ELSE IF s = "denied" THEN "denied" ELSE "timedout"

\* Mutant of AfterPending: the deadline is never looked at.
AfterPendingNoDeadline(c) == "asleep"

\* A pending row: time out if the deadline has passed, else poll again.
AfterPending(c) == IF overdue[c] THEN "expire" ELSE "asleep"

\* Acting on what was read, which may have changed since.
ActOnRow(c) ==
  /\ pc[c] = "act"
  /\ IF seen[c] # "pending" THEN Finish(c, OutcomeOf(seen[c]))
     ELSE /\ pc' = [pc EXCEPT ![c] = AfterPending(c)]
          /\ UNCHANGED outcome
  /\ UNCHANGED <<rowVars, home, seen, overdue, held, dec, audit, faults,
                 crashes>>

\* The timer of sleepOrWake, at most POLL_MS after the row was read.
PollTimer(c) ==
  /\ pc[c] = "asleep"
  /\ pc' = [pc EXCEPT ![c] = "read"]
  /\ UNCHANGED <<rowVars, home, seen, overdue, held, outcome, dec, audit,
                 faults, crashes>>

\* The deadline passes while the call is held.
Elapse(c) ==
  /\ pc[c] \in Waiting
  /\ ~overdue[c]
  /\ overdue' = [overdue EXCEPT ![c] = TRUE]
  /\ UNCHANGED <<rowVars, pc, home, seen, held, outcome, dec, audit, faults,
                 crashes>>

\* Time out: expire the row unless a decision has won the race ...
ExpireRow(c) ==
  /\ pc[c] = "expire"
  /\ ResolveRow(c, "expired", Nobody)
  /\ pc' = [pc EXCEPT ![c] = "reread"]
  /\ UNCHANGED <<home, seen, overdue, held, outcome, dec, audit, faults,
                 crashes>>

\* Mutant of LateOutcome: the deadline has passed, whatever was decided.
LateOutcomeTimedOut(c) == "timedout"

LateOutcome(c) == OutcomeOf(status[c])

\* ... and read it again, to honour the decision if one did.
Reread(c) ==
  /\ pc[c] = "reread"
  /\ seen' = [seen EXCEPT ![c] = status[c]]
  /\ Finish(c, LateOutcome(c))
  /\ UNCHANGED <<rowVars, home, overdue, held, dec, audit, faults, crashes>>

\* A statement of the hook fails, before or after the database applied it:
\* the exception reaches the hook's catch, which denies the call.
HookFault(c) ==
  /\ DbFault
  /\ pc[c] \in {"create", "read", "expire", "reread"}
  /\ Finish(c, "error")
  /\ \/ UNCHANGED rowVars
     \/ /\ pc[c] = "create"
        /\ status' = [status EXCEPT ![c] = "pending"]
        /\ UNCHANGED resolvedBy
     \/ pc[c] = "expire" /\ ResolveRow(c, "expired", Nobody)
  /\ UNCHANGED <<home, seen, overdue, held, dec, audit, crashes>>

-----------------------------------------------------------------------------
(* decide, on whichever replica the decider's request reaches.             *)

\* Mutant of MayDecide: no separation of duties.
MayDecideAnyone(c, u, v) == status[c] = "pending"

MayDecide(c, u, v) ==
  /\ status[c] = "pending"
  /\ v = "approved" => (Requester[c] = Nobody \/ Requester[c] # u)

\* The row is read and the request is checked against what was read.
DecideCheck(d) ==
  /\ dec[d].pc = "idle"
  /\ \E c \in Calls, u \in Users, v \in Verdicts, r \in Replicas :
       dec' = [dec EXCEPT ![d] =
                 [pc |-> IF MayDecide(c, u, v) THEN "resolve" ELSE "refused",
                  call |-> c, by |-> u, verdict |-> v, at |-> r]]
  /\ UNCHANGED <<rowVars, callVars, audit, faults, crashes>>

\* The update, a no-op when the row is no longer pending.
DecideResolve(d) ==
  /\ dec[d].pc = "resolve"
  /\ ResolveRow(dec[d].call, dec[d].verdict, dec[d].by)
  /\ dec' = [dec EXCEPT ![d].pc = "answer"]
  /\ UNCHANGED <<callVars, audit, faults, crashes>>

\* Mutant of AuditEntry: the requester of the call is recorded as the actor.
AuditEntryOfMaker(d) ==
  [call |-> dec[d].call, by |-> Requester[dec[d].call],
   verdict |-> dec[d].verdict]

AuditEntry(d) ==
  [call |-> dec[d].call, by |-> dec[d].by, verdict |-> dec[d].verdict]

\* Wake the held call if it sleeps in this process, then record the verdict
\* and answer with it.  A failure to record is swallowed.
DecideAnswer(d) ==
  /\ dec[d].pc = "answer"
  /\ LET c == dec[d].call
     IN pc' = IF pc[c] = "asleep" /\ home[c] = dec[d].at
              THEN [pc EXCEPT ![c] = "read"] ELSE pc
  /\ \/ /\ audit' = audit \cup {AuditEntry(d)}
        /\ UNCHANGED faults
     \/ UNCHANGED audit /\ DbFault
  /\ dec' = [dec EXCEPT ![d].pc = "answered"]
  /\ UNCHANGED <<rowVars, home, seen, overdue, held, outcome, crashes>>

\* The update fails, before or after the database applied it.
DecideFault(d) ==
  /\ DbFault
  /\ dec[d].pc = "resolve"
  /\ \/ UNCHANGED rowVars
     \/ ResolveRow(dec[d].call, dec[d].verdict, dec[d].by)
  /\ dec' = [dec EXCEPT ![d].pc = "failed"]
  /\ UNCHANGED <<callVars, audit, crashes>>

-----------------------------------------------------------------------------
\* A replica dies: the calls it holds and the decisions it serves are gone,
\* their rows stay.
Crash(r) ==
  LET lostCalls == {c \in Calls : home[c] = r /\ pc[c] # "done"}
      lostDecisions == {d \in Decisions : dec[d].at = r
                                          /\ dec[d].pc \in {"resolve", "answer"}}
  IN /\ crashes < MaxCrashes
     /\ crashes' = crashes + 1
     /\ pc' = [c \in Calls |-> IF c \in lostCalls THEN "done" ELSE pc[c]]
     /\ outcome' = [c \in Calls |->
                      IF c \in lostCalls THEN "lost" ELSE outcome[c]]
     /\ dec' = [d \in Decisions |->
                  IF d \in lostDecisions THEN [dec[d] EXCEPT !.pc = "lost"]
                  ELSE dec[d]]
     /\ UNCHANGED <<rowVars, home, seen, overdue, held, audit, faults>>

HookStep(c) ==
  \/ Request(c)
  \/ ReadRow(c)
  \/ ActOnRow(c)
  \/ PollTimer(c)
  \/ ExpireRow(c)
  \/ Reread(c)

Next ==
  \/ \E c \in Calls :
       \/ Arrive(c)
       \/ Request(c)
       \/ ReadRow(c)
       \/ ActOnRow(c)
       \/ PollTimer(c)
       \/ Elapse(c)
       \/ ExpireRow(c)
       \/ Reread(c)
       \/ HookFault(c)
  \/ \E d \in Decisions :
       \/ DecideCheck(d)
       \/ DecideResolve(d)
       \/ DecideAnswer(d)
       \/ DecideFault(d)
  \/ \E r \in Replicas : Crash(r)

Spec == Init /\ [][Next]_vars

\* A live process runs its continuations and timers; the clock advances.
\* Nobody has to decide anything.
Fairness ==
  /\ \A c \in Calls : WF_vars(HookStep(c)) /\ WF_vars(Elapse(c))
  /\ \A d \in Decisions : WF_vars(DecideResolve(d) \/ DecideAnswer(d))

FairSpec == Spec /\ Fairness

-----------------------------------------------------------------------------
(* Properties.                                                             *)

\* The promise of the gate: see MakerChecker.
Released == {c \in Calls : held[c] /\ outcome[c] = "ran"}
Abstract == INSTANCE MakerChecker WITH released <- Released

ImplementsMakerChecker == Abstract!MCSpec

\* A held call runs only if its row says that somebody other than its maker
\* approved it (approval-hook.ts: "must never let the call through").
OnlyApprovedCallsRun ==
  \A c \in Calls :
    held[c] /\ outcome[c] = "ran" =>
      /\ status[c] = "approved"
      /\ resolvedBy[c] \in Users \ {Requester[c]}

\* What the caller is told is what the row says: "not granted in time" only
\* for a row that no decision can reach any more, "denied" only for a denial.
CallerToldTheVerdict ==
  \A c \in Calls :
    /\ outcome[c] = "timedout" => status[c] = "expired"
    /\ outcome[c] = "denied" => status[c] = "denied"

\* A row that has been resolved keeps its verdict and its author, whoever
\* else read it while it was pending (repos.ts: resolve is a no-op then).
VerdictIsFinal ==
  [][\A c \in Calls :
       status[c] \in {"approved", "denied", "expired"} =>
         UNCHANGED <<status[c], resolvedBy[c]>>]_vars

\* Every verdict on a row is on the trail, under the name of its author, once
\* its decision request was answered and unless a statement failed.
VerdictOnTrail ==
  \A c \in Calls :
    /\ status[c] \in Verdicts
    /\ faults = 0
    /\ \A d \in Decisions : dec[d].pc \notin {"answer", "lost"}
    => [call |-> c, by |-> resolvedBy[c], verdict |-> status[c]] \in audit

\* An approval is not lost in the race with the deadline or between replicas:
\* the call runs, unless its replica or the database failed it.
ApprovedCallRuns ==
  \A c \in Calls :
    (status[c] = "approved" ~> outcome[c] \in {"ran", "error", "lost"})

\* No request stays in the approval queue, unless a statement failed or a
\* replica crashed: then its row stays pending with nobody waiting on it.
QueueDrains ==
  \A c \in Calls :
    (status[c] = "pending" ~> status[c] # "pending" \/ faults + crashes > 0)

-----------------------------------------------------------------------------
(* The inductive invariant behind the safety properties.                   *)

Final == {"approved", "denied", "expired"}

\* Where a hook is, its row is: none before the insert, no longer pending
\* after the update of the time-out, and a result only at the end.
ProgressInv ==
  \A c \in Calls :
    /\ pc[c] \in {"idle", "create"} => status[c] = "none"
    /\ pc[c] \in Waiting => status[c] # "none"
    /\ pc[c] = "act" => seen[c] # "none"
    /\ pc[c] = "reread" => status[c] # "pending"
    /\ pc[c] # "done" => outcome[c] = "none"

\* What a hook saw, if it was a verdict, still is the verdict.
SeenInv == \A c \in Calls : seen[c] \in Final => status[c] = seen[c]

\* A decision in progress is somebody's and passed the separation of duties.
DecisionInv ==
  \A d \in Decisions :
    dec[d].pc \in {"resolve", "answer"} =>
      /\ dec[d].call \in Calls
      /\ dec[d].by \in Users
      /\ dec[d].verdict = "approved" => dec[d].by # Requester[dec[d].call]

ApprovedInv ==
  \A c \in Calls :
    status[c] = "approved" => resolvedBy[c] \in Users \ {Requester[c]}

OutcomeInv ==
  \A c \in Calls :
    /\ held[c] /\ outcome[c] = "ran" => status[c] = "approved"
    /\ outcome[c] = "denied" => status[c] = "denied"
    /\ outcome[c] = "timedout" => status[c] = "expired"

IndInv ==
  /\ TypeOK
  /\ ProgressInv
  /\ SeenInv
  /\ DecisionInv
  /\ ApprovedInv
  /\ OutcomeInv

=============================================================================
