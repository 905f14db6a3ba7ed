------------------------------ MODULE Delegation ------------------------------
(* Tasks delegated to the gateway over A2A (A2ATask) and what their caller may    *)
(* use (EndpointAccess).  A message is accepted for an endpoint its caller may    *)
(* consume; the task's chat turn asks again, as the same caller, what the         *)
(* endpoint gives him by then.  Beside them the caller's own requests and chats.  *)
EXTENDS A2ATask, EndpointAccess

CONSTANT Skill      \* the endpoint the caller delegates to

ASSUME DelegationConstants == Tasks \subseteq Consumers /\ Skill \in Endpoints

allVars == <<vars, accessVars>>

DelegationInit == Init /\ AccessInit

(* Which consumers there are is part of the scenario; where administrators edit, *)
(* nothing else happens beside                                                   *)
Active(c) == c \in access.start.consumers

(* listSkills and resolveSkill: the endpoint must be one of the caller's skills *)
Usable(t) == Serves(endpoint[Skill]) /\ MayConsume(endpoint[Skill], use[t].teams)

Delegate(t) ==
  /\ use[t].at = "turn" /\ Usable(t)
  /\ MessageSend(t)
  /\ UNCHANGED accessVars

NotDelegated(t) ==
  /\ use[t].at = "turn" /\ pc[t] = "idle" /\ ~Usable(t)
  /\ Refused(t, use[t])
  /\ UNCHANGED <<vars, endpoint, subset, team, member, edit, want, access>>

(* The chat turn resolves its tools, and goes on to its end only with them; it   *)
(* may throw for any other reason                                                *)
TurnTools(t) ==
  /\ pc[t] = "chat"
  /\ ResolveTools(t, Skill) \/ ReadSubset(t)
  /\ UNCHANGED vars

TurnEnds(t) ==
  /\ ChatTurn(t)
  /\ pc'[t] = "check" => use[t].at = "served"
  /\ UNCHANGED accessVars

TaskStep(t) ==
  \/ RunStep(t) /\ UNCHANGED accessVars
  \/ TurnTools(t)
  \/ TurnEnds(t)

DelegationNext ==
  \/ \E t \in Tasks : /\ Active(t)
                      /\ \/ SignIn(t) /\ UNCHANGED vars
                         \/ Delegate(t)
                         \/ NotDelegated(t)
                         \/ TaskStep(t)
  \/ \E c \in Consumers \ Tasks : Active(c) /\ Consume(c) /\ UNCHANGED vars
  \/ \E a \in Admins : Administer(a) /\ UNCHANGED vars
  \/ access.start.edits = 0 /\ Beside /\ UNCHANGED accessVars

DelegationSpec == DelegationInit /\ [][DelegationNext]_allVars

(* The continuations of a run and the poll timer are scheduled while their       *)
(* process lives; the chat turn ends because the model provider's calls and the  *)
(* tool loop are bounded (chat.service.ts).                                      *)
Fairness ==
  /\ \A t \in Tasks : WF_allVars(TaskStep(t))
  /\ \A k \in Subs : WF_allVars(Poll(k) /\ UNCHANGED accessVars)

FairSpec == DelegationSpec /\ Fairness
=============================================================================
