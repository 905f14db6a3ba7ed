--------------------------- MODULE Delegation_proof ---------------------------
(***************************************************************************)
(* Proofs about Delegation, for any tasks, requests, endpoints and         *)
(* administrators, any faults and crashes: the end of a task is its end,   *)
(* and a consumer is served what is granted to its caller.                 *)
(***************************************************************************)
EXTENDS Delegation, TLAPS

\* A result is written once: whoever could write another has ended, or is
\* about to look.
WrittenOnce ==
  \A t \in Tasks : state[t] \in Results => pc[t] \in {"recover", "over", "dead"}
\* Who is at work on a task has one.
Known ==
  /\ \A k \in Cancels : can[k].pc \in {"update", "reread"} => can[k].task \in Tasks
  /\ \A k \in Subs : sub[k].pc = "poll" => sub[k].task \in Tasks
IndInv == TypeOK /\ Known /\ WrittenOnce

\* A cancellation that nobody overwrites any more.
Sealed(t) ==
  state[t] = "canceled" /\ pc[t] \in {"chat", "check", "recover", "over", "dead"}

\* The steps of the task's own run, as far as the stored state goes.
RunOf(t) ==
  \/ MessageSend(t) \/ ChatTurn(t)
  \/ RunStep(t)
  \/ RunFault(t)

\* The other steps leave the runs alone, but for a crash, and write nothing
\* but cancellations.
Aside ==
  /\ \/ UNCHANGED state
     \/ \E k \in Cancels : SetState(can[k].task, "canceled")
  /\ UNCHANGED pc \/ \E t \in Tasks : pc[t] \in Running /\ Goto(t, "dead")

LEMMA StepSplit ==
  ASSUME [DelegationNext]_allVars
  PROVE  Aside \/ \E t \in Tasks : RunOf(t)
<1>1. CASE UNCHANGED allVars
  BY <1>1 DEF allVars, vars, Aside
<1>2. ASSUME NEW t \in Tasks,
             (SignIn(t) /\ UNCHANGED vars) \/ Delegate(t) \/ NotDelegated(t) \/ TaskStep(t)
      PROVE  Aside \/ RunOf(t)
  BY <1>2 DEF vars, Aside, RunOf, Delegate, NotDelegated, TaskStep, TurnTools, TurnEnds
<1>3. CASE Beside
  <2>1. ASSUME NEW t \in Tasks, RunFault(t) \/ PushSet(t) \/ PushDelete(t)
        PROVE  Aside \/ RunOf(t)
    BY <2>1 DEF PushSet, PushDelete, Aside, RunOf
  <2>2. ASSUME NEW k \in Cancels,
               CancelCheck(k) \/ CancelUpdate(k) \/ CancelReread(k) \/ CancelFault(k)
        PROVE  Aside
    BY <2>2 DEF CancelCheck, CancelUpdate, CancelReread, CancelFault, Aside
  <2>3. ASSUME NEW k \in Subs, Resubscribe(k) \/ Poll(k) \/ Leave(k) PROVE Aside
    BY <2>3 DEF Resubscribe, Poll, Leave, Aside
  <2>4. ASSUME NEW m \in outbox, Deliver(m) PROVE Aside
    BY <2>4 DEF Deliver, Aside
  <2>5. CASE Crash
    BY <2>5 DEF Crash, Aside
  <2>. QED BY <1>3, <2>1, <2>2, <2>3, <2>4, <2>5 DEF Beside
<1>4. CASE UNCHANGED vars
  BY <1>4 DEF vars, Aside
<1>. QED BY <1>1, <1>2, <1>3, <1>4 DEF DelegationNext

\* What a step of a run may do.
LEMMA RunMoves ==
  ASSUME TypeOK, NEW t \in Tasks, RunOf(t)
  PROVE  /\ \A s \in Tasks \ {t} : state'[s] = state[s] /\ pc'[s] = pc[s]
         /\ pc[t] \in {"idle"} \cup Running
         /\ pc[t] \in {"chat", "check", "recover"} => state'[t] = state[t]
         /\ pc[t] = "chat" => pc'[t] \in {"check", "recover"}
         /\ pc[t] = "check" /\ state[t] \in Terminal => pc'[t] \in {"over", "recover"}
         /\ pc[t] = "recover" /\ state[t] \in Terminal => pc'[t] \in {"over", "dead"}
         /\ state'[t] \in Results =>
              state'[t] = state[t] \/ pc'[t] \in {"recover", "over", "dead"}
<1>. USE DEF TypeOK, Goto, SetState, Running, Terminal, Results
<1>1. CASE MessageSend(t)
  BY <1>1 DEF MessageSend
<1>2. CASE ChatTurn(t)
  BY <1>2 DEF ChatTurn
<1>3. CASE StartWork(t)
  BY <1>3 DEF StartWork
<1>4. CASE Check(t)
  BY <1>4 DEF Check, Interrupted
<1>5. CASE Complete(t) \/ Fail(t)
  BY <1>5 DEF Complete, Fail
<1>6. CASE Recover(t)
  BY <1>6 DEF Recover, AfterThrow, Interrupted
<1>7. CASE RunFault(t)
  BY <1>7 DEF RunFault
<1>. QED BY <1>1, <1>2, <1>3, <1>4, <1>5, <1>6, <1>7 DEF RunOf, RunStep

\* Nothing becomes of a result but a cancellation, and nothing of a sealed
\* cancellation.
LEMMA StateStep ==
  ASSUME TypeOK, [DelegationNext]_allVars, NEW t \in Tasks
  PROVE  /\ Sealed(t) => Sealed(t)'
         /\ WrittenOnce => /\ state[t] \in Results => state'[t] \in {state[t], "canceled"}
                           /\ state'[t] \in Results => pc'[t] \in {"recover", "over", "dead"}
<1>. USE DEF Terminal, Results
<1>1. CASE Aside
  <2>1. state'[t] \in {state[t], "canceled"}
    BY <1>1 DEF Aside, SetState, TypeOK
  <2>2. pc'[t] = pc[t] \/ pc'[t] = "dead"
    BY <1>1 DEF Aside, Goto, TypeOK
  <2>. QED BY <2>1, <2>2 DEF Sealed, WrittenOnce
<1>2. ASSUME NEW s \in Tasks, s # t, RunOf(s)
      PROVE  state'[t] = state[t] /\ pc'[t] = pc[t]
  BY <1>2, RunMoves
<1>3. CASE RunOf(t)
  BY <1>3, RunMoves DEF Sealed, WrittenOnce, Running
<1>4. CASE state'[t] = state[t] /\ pc'[t] = pc[t]
  BY <1>4 DEF Sealed, WrittenOnce
<1>. QED BY <1>1, <1>2, <1>3, <1>4, StepSplit

LEMMA InitInd == DelegationInit => IndInv
BY A2AConstants DEF DelegationInit, Init, IndInv, TypeOK, Known, WrittenOnce,
  States, Terminal, Results, RunPcs, Hooks, Pushes

LEMMA KnownStep == TypeOK /\ Known /\ [DelegationNext]_allVars => Known'
<1>. SUFFICES ASSUME TypeOK, Known, [DelegationNext]_allVars PROVE Known'
  OBVIOUS
<1>1. CASE UNCHANGED <<can, sub>>
  BY <1>1 DEF Known
<1>2. ASSUME NEW k \in Cancels,
             CancelCheck(k) \/ CancelUpdate(k) \/ CancelReread(k) \/ CancelFault(k)
      PROVE  Known'
  BY <1>2 DEF CancelCheck, CancelUpdate, CancelReread, CancelFault, Known, TypeOK
<1>3. ASSUME NEW k \in Subs, Resubscribe(k) \/ Poll(k) \/ Leave(k) PROVE Known'
  <2>1. ASSUME NEW t \in Tasks, NEW finals, NEW s, Observe(k, t, finals, s), UNCHANGED can
        PROVE  Known'
    <3>1. \A j \in Subs : sub'[j] = sub[j] \/ sub'[j].task = t
      BY <2>1 DEF Observe, TypeOK
    <3>. QED BY <2>1, <3>1 DEF Known
  <2>2. CASE Resubscribe(k)
    BY <2>1, <2>2 DEF Resubscribe
  <2>3. CASE Poll(k)
    BY <2>1, <2>3 DEF Poll, Known
  <2>4. CASE Leave(k)
    <3>1. \A j \in Subs : sub'[j] = sub[j] \/ sub'[j].pc = "left"
      BY <2>4 DEF Leave, TypeOK
    <3>. QED BY <2>4, <3>1 DEF Leave, Known
  <2>. QED BY <1>3, <2>2, <2>3, <2>4
<1>4. CASE Crash
  BY <1>4 DEF Crash, Known, TypeOK
<1>5. ASSUME NEW t \in Tasks,
             \/ MessageSend(t) \/ ChatTurn(t) \/ RunStep(t)
             \/ RunFault(t) \/ PushSet(t) \/ PushDelete(t)
      PROVE  UNCHANGED <<can, sub>>
  BY <1>5 DEF MessageSend, ChatTurn, RunStep, StartWork, Check, Complete, Recover, Fail,
    RunFault, PushSet, PushDelete
<1>6. ASSUME NEW m \in outbox, Deliver(m) PROVE UNCHANGED <<can, sub>>
  BY <1>6 DEF Deliver
<1>7. CASE UNCHANGED vars
  BY <1>1, <1>7 DEF vars
<1>8. CASE UNCHANGED allVars
  BY <1>7, <1>8 DEF allVars
<1>. QED BY <1>1, <1>2, <1>3, <1>4, <1>5, <1>6, <1>7, <1>8 DEF DelegationNext, Delegate,
       NotDelegated, TaskStep, TurnTools, TurnEnds, Beside

LEMMA TypeStep == TypeOK /\ Known /\ [DelegationNext]_allVars => TypeOK'
<1>. SUFFICES ASSUME TypeOK, Known, [DelegationNext]_allVars PROVE TypeOK'
  OBVIOUS
<1>. USE A2AConstants DEF TypeOK, States, Terminal, Results, RunPcs, Running, Hooks, bounds,
     pushVars, Goto, SetState
<1>1. ASSUME NEW t \in Tasks, MessageSend(t) \/ ChatTurn(t) \/ RunStep(t) PROVE TypeOK'
  BY <1>1 DEF MessageSend, ChatTurn, RunStep, StartWork, Check, Complete, Recover, Fail,
    AfterThrow, Interrupted, FirePush
<1>2. ASSUME NEW t \in Tasks, RunFault(t) \/ PushSet(t) \/ PushDelete(t) PROVE TypeOK'
  BY <1>2 DEF RunFault, PushSet, PushDelete, Fault
<1>3. ASSUME NEW k \in Cancels,
             CancelCheck(k) \/ CancelUpdate(k) \/ CancelReread(k) \/ CancelFault(k)
      PROVE  TypeOK'
  <2>1. CASE CancelCheck(k)
    BY <2>1 DEF CancelCheck
  <2>2. CASE CancelUpdate(k) \/ CancelFault(k)
    BY <2>2 DEF CancelUpdate, CancelFault, Fault
  <2>3. CASE CancelReread(k)
    <3>1. can[k].task \in Tasks => state[can[k].task] \in States
      OBVIOUS
    <3>2. can[k].task \in Tasks
      BY <2>3 DEF CancelReread, Known
    <3>. QED BY <2>3, <3>1, <3>2 DEF CancelReread, CancelPush, FirePush
  <2>. QED BY <1>3, <2>1, <2>2, <2>3
<1>4. ASSUME NEW k \in Subs, Resubscribe(k) \/ Poll(k) \/ Leave(k) PROVE TypeOK'
  <2>1. ASSUME NEW t \in Tasks \cup {NoTask}, NEW finals \in 0..1, NEW s \in States,
               Observe(k, t, finals, s)
        PROVE  sub' \in [Subs -> [pc : {"idle", "poll", "done", "left"},
                                 task : Tasks \cup {NoTask}, last : States, finals : 0..1]]
    <3>1. AfterLoop(finals, s) \in 0..1
      BY DEF AfterLoop
    <3>. QED BY <2>1, <3>1 DEF Observe
  <2>2. CASE Resubscribe(k)
    BY <2>1, <2>2 DEF Resubscribe
  <2>3. CASE Poll(k)
    <3>1. sub[k].task \in Tasks /\ state[sub[k].task] \in States
      BY <2>3 DEF Poll, Known
    <3>2. (IF state[sub[k].task] \in Terminal THEN 1 ELSE 0) \in 0..1
      OBVIOUS
    <3>. QED BY <2>1, <2>3, <3>1, <3>2 DEF Poll
  <2>4. CASE Leave(k)
    BY <2>4 DEF Leave
  <2>. QED BY <1>4, <2>2, <2>3, <2>4
<1>5. ASSUME NEW m \in outbox, Deliver(m) PROVE TypeOK'
  BY <1>5 DEF Deliver, Fault, Pushes
<1>6. CASE Crash
  BY <1>6 DEF Crash
<1>7. CASE UNCHANGED vars
  BY <1>7 DEF vars
<1>8. CASE UNCHANGED allVars
  BY <1>7, <1>8 DEF allVars
<1>. QED BY <1>1, <1>2, <1>3, <1>4, <1>5, <1>6, <1>7, <1>8 DEF DelegationNext, Delegate,
       NotDelegated, TaskStep, TurnTools, TurnEnds, Beside

\* Results are written once, whatever goes wrong beside the run.
THEOREM Invariance == DelegationSpec => []IndInv
<1>1. IndInv /\ [DelegationNext]_allVars => IndInv'
  BY TypeStep, KnownStep, StateStep DEF IndInv, WrittenOnce
<1>. QED BY <1>1, InitInd, PTL DEF DelegationSpec

\* A cancellation stored while the chat turn runs is never overwritten, and
\* neither is a result, but by a cancellation.
THEOREM EndsOnce == DelegationSpec => FinalStateSticks
<1>1. ASSUME NEW t \in Tasks
      PROVE  DelegationSpec =>
               [](pc[t] \in {"chat", "check", "recover"} /\ state[t] = "canceled"
                    => [](state[t] = "canceled"))
  <2>1. IndInv /\ Sealed(t) /\ [DelegationNext]_allVars => Sealed(t)'
    BY StateStep DEF IndInv
  <2>2. pc[t] \in {"chat", "check", "recover"} /\ state[t] = "canceled" => Sealed(t)
    BY DEF Sealed
  <2>3. Sealed(t) => state[t] = "canceled"
    BY DEF Sealed
  <2>. QED BY <2>1, <2>2, <2>3, Invariance, PTL DEF DelegationSpec
<1>2. DelegationSpec =>
        [][\A t \in Tasks : state[t] \in Results => state'[t] \in {state[t], "canceled"}]_vars
  <2>1. IndInv /\ [DelegationNext]_allVars =>
          [\A t \in Tasks : state[t] \in Results => state'[t] \in {state[t], "canceled"}]_vars
    BY StateStep DEF IndInv
  <2>. QED BY <2>1, Invariance, PTL DEF DelegationSpec
<1>. QED BY <1>1, <1>2 DEF FinalStateSticks

-----------------------------------------------------------------------------
(* The webhook is told.                                                    *)

\* The stored state has been sent, or whoever stored it is about to send it.
Told(t) ==
  \/ [task |-> t, state |-> state[t]] \in received
  \/ \E m \in outbox : m.task = t /\ m.state = state[t]
Telling(t) == \E k \in Cancels : can[k].pc = "reread" /\ can[k].task = t
PushInv ==
  faults + crashes = 0 =>
    \A t \in Tasks : hook[t] = "on" /\ state[t] \in Terminal =>
      Told(t) \/ (state[t] = "canceled" /\ Telling(t))
OverInv == \A t \in Tasks : pc[t] = "over" => state[t] \in Terminal

LEMMA OverStep == IndInv /\ OverInv /\ [DelegationNext]_allVars => OverInv'
<1>. SUFFICES ASSUME IndInv, OverInv, [DelegationNext]_allVars, NEW t \in Tasks, pc'[t] = "over"
              PROVE  state'[t] \in Terminal
  BY DEF OverInv
<1>0. TypeOK
  BY DEF IndInv
<1>. USE DEF Terminal, Results
<1>1. CASE Aside
  <2>1. state'[t] \in {state[t], "canceled"} /\ pc[t] = "over"
    BY <1>0, <1>1 DEF Aside, SetState, Goto, TypeOK
  <2>. QED BY <2>1 DEF OverInv
<1>2. ASSUME NEW s \in Tasks, s # t, RunOf(s) PROVE state'[t] \in Terminal
  BY <1>0, <1>2, RunMoves DEF OverInv
<1>3. CASE RunOf(t)
  <2>1. CASE Check(t) \/ Recover(t)
    BY <1>0, <2>1 DEF Check, Recover, AfterThrow, Interrupted, Goto, TypeOK
  <2>2. CASE Complete(t) \/ Fail(t)
    BY <1>0, <2>2 DEF Complete, Fail, SetState, TypeOK
  <2>3. CASE MessageSend(t) \/ ChatTurn(t) \/ StartWork(t) \/ RunFault(t)
    BY <1>0, <2>3 DEF MessageSend, ChatTurn, StartWork, RunFault, Goto, TypeOK
  <2>. QED BY <1>3, <2>1, <2>2, <2>3 DEF RunOf, RunStep
<1>. QED BY <1>1, <1>2, <1>3, StepSplit

\* A webhook that hears less than the task has been registered later.
LEMMA PushStep == IndInv /\ PushInv /\ [DelegationNext]_allVars => PushInv'
<1>. SUFFICES ASSUME IndInv, PushInv, [DelegationNext]_allVars, faults' + crashes' = 0
              PROVE  \A t \in Tasks : hook'[t] = "on" /\ state'[t] \in Terminal =>
                       Told(t)' \/ (state'[t] = "canceled" /\ Telling(t)')
  BY DEF PushInv
<1>. DEFINE Kept(t) == hook'[t] = "on" /\ state'[t] \in Terminal =>
                         Told(t)' \/ (state'[t] = "canceled" /\ Telling(t)')
<1>0. TypeOK /\ Known
  BY DEF IndInv
<1>1. \A t \in Tasks : ~RunFault(t)
  BY <1>0 DEF RunFault, Fault, TypeOK
<1>2. ~Crash /\ \A k \in Cancels : ~CancelFault(k)
  BY <1>0 DEF Crash, CancelFault, Fault, TypeOK
<1>3. ASSUME faults + crashes = 0, NEW t \in Tasks, hook[t] = "on", state[t] \in Terminal
      PROVE  Told(t) \/ (state[t] = "canceled" /\ Telling(t))
  BY <1>3 DEF PushInv
<1>4. ASSUME UNCHANGED <<state, outbox, received, can, bounds>>,
             \A t \in Tasks : hook'[t] = "on" => hook[t] = "on"
      PROVE  \A t \in Tasks : Kept(t)
  BY <1>3, <1>4 DEF Told, Telling, bounds
<1>5. ASSUME NEW t \in Tasks, MessageSend(t) \/ ChatTurn(t) \/ RunStep(t)
      PROVE  \A s \in Tasks : Kept(s)
  <2>1. /\ faults + crashes = 0
        /\ received' = received /\ can' = can /\ outbox \subseteq outbox'
        /\ MessageSend(t) \/ hook' = hook
    BY <1>5 DEF MessageSend, ChatTurn, RunStep, StartWork, Check, Complete, Recover, Fail,
      FirePush, bounds, pushVars
  <2>2. ASSUME NEW s \in Tasks, s # t PROVE Kept(s)
    <3>1. state'[s] = state[s]
      BY <1>0, <1>5, <2>2, RunMoves DEF RunOf
    <3>2. hook'[s] = hook[s]
      BY <1>0, <1>5, <2>1, <2>2 DEF MessageSend, TypeOK
    <3>3. (Told(s) => Told(s)') /\ (Telling(s) => Telling(s)')
      BY <2>1, <3>1 DEF Told, Telling
    <3>. QED BY <1>3, <2>1, <3>1, <3>2, <3>3
  <2>3. Kept(t)
    <3>1. CASE MessageSend(t) \/ StartWork(t)
      <4>1. state'[t] \in {"submitted", "working"}
        BY <1>0, <3>1 DEF MessageSend, StartWork, SetState, TypeOK
      <4>. QED BY <4>1 DEF Terminal, Results
    <3>2. CASE ChatTurn(t) \/ Check(t) \/ Recover(t)
      BY <1>3, <2>1, <3>2 DEF ChatTurn, Check, Recover, pushVars, Told, Telling
    <3>3. CASE Complete(t) \/ Fail(t)
      <4>1. PICK s \in Results : SetState(t, s) /\ FirePush(t, s, NoTask)
        BY <3>3 DEF Complete, Fail, Results
      <4>2. state'[t] = s /\ [task |-> t, state |-> s, by |-> NoTask] \in outbox'
        BY <1>0, <4>1 DEF SetState, FirePush, TypeOK
      <4>. QED BY <4>2 DEF Told
    <3>. QED BY <1>5, <3>1, <3>2, <3>3 DEF RunStep
  <2>. QED BY <2>2, <2>3
<1>6. ASSUME NEW t \in Tasks, PushSet(t) \/ PushDelete(t) PROVE \A s \in Tasks : Kept(s)
  <2>1. \A s \in Tasks : hook'[s] = "on" => hook[s] = "on"
    BY <1>0, <1>6 DEF PushSet, PushDelete, TypeOK
  <2>. QED BY <1>4, <1>6, <2>1 DEF PushSet, PushDelete
<1>7. ASSUME NEW k \in Cancels, CancelCheck(k) \/ CancelUpdate(k) \/ CancelReread(k)
      PROVE  \A s \in Tasks : Kept(s)
  <2>0. /\ faults + crashes = 0 /\ hook' = hook /\ received' = received
        /\ outbox \subseteq outbox'
        /\ \A j \in Cancels \ {k} : can'[j] = can[j]
    BY <1>0, <1>7 DEF CancelCheck, CancelUpdate, CancelReread, CancelPush, FirePush, bounds,
      pushVars, TypeOK
  <2>1. CASE CancelCheck(k)
    <3>1. UNCHANGED state /\ can[k].pc = "idle"
      BY <2>1 DEF CancelCheck
    <3>. QED BY <1>3, <2>0, <3>1 DEF Told, Telling
  <2>2. CASE CancelUpdate(k)
    <3>1. /\ can[k].pc = "update" /\ can[k].task \in Tasks
          /\ can'[k].pc = "reread" /\ can'[k].task = can[k].task
          /\ state'[can[k].task] = "canceled"
          /\ \A s \in Tasks \ {can[k].task} : state'[s] = state[s]
      BY <1>0, <2>2 DEF CancelUpdate, SetState, Known, TypeOK
    <3>. QED BY <1>3, <2>0, <3>1 DEF Told, Telling
  <2>3. CASE CancelReread(k)
    <3>1. /\ UNCHANGED state /\ can[k].task \in Tasks
          /\ [task |-> can[k].task, state |-> state[can[k].task], by |-> k] \in outbox'
      BY <1>0, <2>3 DEF CancelReread, CancelPush, FirePush, Known
    <3>2. ASSUME NEW s \in Tasks, s # can[k].task PROVE Telling(s) => Telling(s)'
      BY <2>0, <3>2 DEF Telling
    <3>3. ASSUME NEW s \in Tasks, s = can[k].task PROVE Told(s)'
      BY <3>1, <3>3 DEF Told
    <3>. QED BY <1>3, <2>0, <3>1, <3>2, <3>3 DEF Told
  <2>. QED BY <1>7, <2>1, <2>2, <2>3
<1>8. ASSUME NEW k \in Subs, Resubscribe(k) \/ Poll(k) \/ Leave(k) PROVE \A t \in Tasks : Kept(t)
  BY <1>4, <1>8 DEF Resubscribe, Poll, Leave, pushVars
<1>9. ASSUME NEW m \in outbox, Deliver(m) PROVE \A t \in Tasks : Kept(t)
  <2>1. /\ faults + crashes = 0
        /\ UNCHANGED <<state, hook, can>>
        /\ outbox' = outbox \ {m} /\ received \subseteq received'
        /\ hook[m.task] # "off" => [task |-> m.task, state |-> m.state] \in received'
    BY <1>0, <1>9 DEF Deliver, Fault, TypeOK
  <2>2. ASSUME NEW t \in Tasks, hook[t] = "on", Told(t) PROVE Told(t)'
    BY <2>1, <2>2 DEF Told
  <2>. QED BY <1>3, <2>1, <2>2 DEF Telling
<1>10. CASE UNCHANGED vars
  BY <1>4, <1>10 DEF vars, bounds
<1>11. CASE UNCHANGED allVars
  BY <1>10, <1>11 DEF allVars
<1>. QED BY <1>1, <1>2, <1>5, <1>6, <1>7, <1>8, <1>9, <1>10, <1>11 DEF DelegationNext, Delegate,
       NotDelegated, TaskStep, TurnTools, TurnEnds, Beside

\* Whoever wrote the end of a task last, the webhook that came with the task
\* is told that end.
THEOREM WebhookToldTheEnd == DelegationSpec => []FinalStatePushed
<1>1. DelegationInit => OverInv /\ PushInv
  BY DEF DelegationInit, Init, OverInv, PushInv
<1>2. OverInv /\ PushInv => FinalStatePushed
  <2>. SUFFICES ASSUME OverInv, PushInv, NEW t \in Tasks, pc[t] = "over", hook[t] = "on",
                       \A k \in Cancels : can[k].task = t => can[k].pc \in {"answered", "refused"},
                       \A m \in outbox : m.task # t,
                       faults + crashes = 0
                PROVE  [task |-> t, state |-> state[t]] \in received
    BY DEF FinalStatePushed
  <2>1. state[t] \in Terminal /\ ~Telling(t)
    BY DEF OverInv, Telling
  <2>2. Told(t)
    BY <2>1 DEF PushInv
  <2>. QED BY <2>2 DEF Told
<1>. QED BY <1>1, <1>2, OverStep, PushStep, Invariance, PTL DEF DelegationSpec

-------------------------------------------------------------------------------
(***************************************************************************)
(* The second part: the rows of endpoints and subsets say what the edits   *)
(* that ended have granted, and a consumer that no write disturbs finds    *)
(* out exactly that.                                                       *)
(***************************************************************************)

\* A row of an endpoint read by a consumer or an edit, for some endpoints.
Copies == UNION {[S -> Rows] : S \in SUBSET Endpoints}

UseRecords ==
  [at : {"idle", "caller", "scope", "turn", "narrow", "served", "refused"},
   kind : {"mcp", "turn"}, teams : SUBSET Teams, es : SUBSET Endpoints, rows : Copies,
   ask : SUBSET (Endpoints \X Teams), open : SUBSET Endpoints, some : SUBSET (Endpoints \X Tools),
   tools : SUBSET Tools, owed : SUBSET Tools, calm : BOOLEAN]
EditRecords ==
  [at : {"idle", "team", "read", "update", "clear", "insert", "list", "strip", "members",
         "subsets", "row", "leave", "join", "source", "copy", "copyNext"},
   kind : {"none", "grant", "revoke", "deleteTeam", "addMember", "removeMember",
           "deleteEndpoint", "clone"}, t : Teams \cup {"none"}, e : Endpoints \cup {"none"},
   into : Endpoints \cup {"none"}, pick : SUBSET Tools, rows : Copies, teams : SUBSET Teams,
   tools : SUBSET Tools, wrote : BOOLEAN]

AccessTypes ==
  /\ endpoint \in [Endpoints -> Rows]
  /\ subset \in [Teams -> [Endpoints -> SUBSET Tools]]
  /\ member \in SUBSET Teams
  /\ want \in [teams : [Endpoints -> SUBSET Teams], tools : [Teams -> [Endpoints -> SUBSET Tools]]]
  /\ use \in [Consumers -> UseRecords]
  /\ edit \in [Admins -> EditRecords]
  /\ access \in [start : Access, edits : Nat, stops : Nat, damaged : BOOLEAN]

\* An endpoint that is yet to come has neither grants nor subsets.
Unborn ==
  \A e \in Endpoints :
    endpoint[e].state = "never" => endpoint[e].teams = {} /\ \A t \in Teams : subset[t][e] = {}

\* Where each kind of edit may be, and what it holds there.
GrantShape(k) ==
  /\ k.at \in {"team", "read", "update", "clear", "insert"}
  /\ k.t \in Teams /\ k.e \in Endpoints /\ k.into = k.e
  /\ k.wrote <=> k.at \in {"clear", "insert"}
  /\ k.at \in {"team", "read"} => k.tools = {}
  /\ k.at \notin {"team", "read"} => /\ k.rows \in [{k.e} -> Rows]
                                     /\ k.rows[k.e].state = "here"
                                     /\ endpoint[k.e].state # "never"
  /\ k.at \in {"update", "clear"} => k.tools = k.pick \cap k.rows[k.e].tools
DeleteTeamShape(k) ==
  /\ k.at \in {"list", "strip", "members", "subsets", "row"}
  /\ k.t \in Teams
  /\ k.wrote => k.at # "list"
  /\ k.at \in {"subsets", "row"} => k.wrote
MemberShape(k) ==
  /\ k.at \in {"team", "leave", "join"} /\ k.t \in Teams
  /\ k.wrote <=> k.at = "join"
  /\ k.at = "leave" \/ k.kind = "addMember"
DeleteEndpointShape(k) ==
  /\ k.at \in {"subsets", "row"} /\ k.e \in Endpoints
  /\ k.wrote <=> k.at = "row"
CloneShape(k) ==
  /\ k.at \in {"source", "copy", "copyNext", "clear", "insert"}
  /\ k.e \in Endpoints
  /\ k.wrote <=> k.at \in {"copyNext", "clear", "insert"}
  /\ k.at = "copy" => /\ k.rows \in [{k.e} -> Rows] /\ k.rows[k.e].state = "here"
                     /\ endpoint[k.e].state # "never"
  /\ k.wrote => k.into \in Endpoints /\ k.into # k.e /\ endpoint[k.into].state # "never"
  /\ k.at \in {"clear", "insert"} => k.t \in Teams
  /\ k.at = "copyNext" => k.teams # {}
Shape(k) ==
  \/ k = NoEdit
  \/ k.kind \in {"grant", "revoke"} /\ GrantShape(k)
  \/ k.kind = "deleteTeam" /\ DeleteTeamShape(k)
  \/ k.kind \in {"addMember", "removeMember"} /\ MemberShape(k)
  \/ k.kind = "deleteEndpoint" /\ DeleteEndpointShape(k)
  \/ k.kind = "clone" /\ CloneShape(k)
Shapes == \A a \in Admins : Shape(edit[a])

\* The rows say what the edits that ended have granted.
Match ==
  /\ \A e \in Endpoints : endpoint[e].teams = want.teams[e]
  /\ \A t \in Teams, e \in Endpoints : subset[t][e] = want.tools[t][e]

\* What the rows say while one edit is half written and nothing crossed it.
PartGrant(k) ==
  /\ \A e \in Endpoints : endpoint[e].teams =
       IF e = k.e THEN IF k.kind = "grant" THEN want.teams[e] \cup {k.t} ELSE want.teams[e] \ {k.t}
       ELSE want.teams[e]
  /\ \A t \in Teams, e \in Endpoints :
       t # k.t \/ e # k.e => subset[t][e] = want.tools[t][e]
  /\ k.at = "insert" => subset[k.t][k.e] \cup k.tools = k.pick \cap k.rows[k.e].tools
PartDeleteTeam(k) ==
  /\ \A e \in Endpoints : endpoint[e].teams \ {k.t} = want.teams[e] \ {k.t}
  /\ \A t \in Teams, e \in Endpoints : t # k.t => subset[t][e] = want.tools[t][e]
  /\ k.at = "row" => \A e \in Endpoints : subset[k.t][e] = {}
PartDeleteEndpoint(k) ==
  /\ \A e \in Endpoints : endpoint[e].teams = want.teams[e]
  /\ \A t \in Teams, e \in Endpoints :
       subset[t][e] = IF e = k.e THEN {} ELSE want.tools[t][e]
PartClone(k) ==
  LET granting == want.teams[k.e]
      copying == k.at \in {"clear", "insert"} IN
  /\ \A e \in Endpoints :
       endpoint[e].teams = IF e = k.into THEN granting ELSE want.teams[e]
  /\ \A t \in Teams, e \in Endpoints :
       e # k.into => subset[t][e] = want.tools[t][e]
  /\ \A t \in Teams : \/ copying /\ t = k.t
                     \/ subset[t][k.into] = IF t \in granting \ k.teams THEN want.tools[t][k.e] ELSE {}
  /\ k.teams \subseteq granting
  /\ copying => k.t \in granting \ k.teams
  /\ k.at = "clear" => k.tools = want.tools[k.t][k.e]
  /\ k.at = "insert" => subset[k.t][k.into] \cup k.tools = want.tools[k.t][k.e]
Part(k) ==
  CASE k.kind \in {"grant", "revoke"} -> PartGrant(k)
    [] k.kind = "deleteTeam" -> PartDeleteTeam(k)
    [] k.kind = "deleteEndpoint" -> PartDeleteEndpoint(k)
    [] k.kind = "clone" -> PartClone(k)
    [] OTHER -> Match
Sound(k) == IF k.wrote THEN Part(k) ELSE Match

\* As long as no edit damaged another, at most one is half written.
Rightful ==
  ~access.damaged =>
    /\ (\A a \in Admins : ~edit[a].wrote) => Match
    /\ \A a \in Admins : edit[a].wrote => Part(edit[a]) /\ \A b \in Admins \ {a} : ~edit[b].wrote

\* What a consumer that nothing disturbed since its first read has found out:
\* of one endpoint, before its scope is built,
Seen(u) ==
  \E e \in Endpoints :
    /\ u.es = {e} /\ u.rows = [d \in {e} |-> endpoint[e]] /\ Serves(endpoint[e])
    /\ u.at = "scope" => MayConsume(endpoint[e], u.teams)
\* of those it asks about, which there are and which its caller may consume,
Listed(u) ==
  /\ DOMAIN u.rows \subseteq u.es
  /\ \A e \in DOMAIN u.rows :
       u.rows[e] = endpoint[e] /\ Serves(endpoint[e]) /\ MayConsume(endpoint[e], u.teams)
  /\ \A e \in u.es \ DOMAIN u.rows : ~(Serves(endpoint[e]) /\ MayConsume(endpoint[e], u.teams))
\* and of each of them what the teams it has asked for gave.
Asked(u) ==
  \A e \in DOMAIN u.rows :
    LET granting == Granting(endpoint[e], u.teams) IN
    /\ e \in u.open => granting = {} \/ \E t \in granting : subset[t][e] = {}
    /\ e \notin u.open =>
         \A t \in granting :
           \/ <<e, t>> \in u.ask
           \/ subset[t][e] # {} /\ \A x \in subset[t][e] : <<e, x>> \in u.some
    /\ e \notin u.open => granting # {}
    /\ \A x \in Tools : <<e, x>> \in u.some => \E t \in granting : x \in subset[t][e]
    /\ \A t \in Teams : <<e, t>> \in u.ask => t \in granting
Found(u) == Listed(u) /\ Asked(u) /\ \A p \in u.ask : p[1] \in DOMAIN u.rows

\* Edits and reads do not meet while a consumer is calm.
Calm(u) ==
  u.calm =>
    /\ u.at \in {"caller", "scope", "narrow"} => Settled
    /\ u.at \in {"caller", "scope"} => Seen(u)
    /\ u.at = "narrow" => Found(u)
    /\ u.at \in {"served", "refused"} => u.tools = u.owed
Reading(u) ==
  /\ u.at \in {"caller", "scope"} => \E e \in Endpoints : u.es = {e} /\ u.rows \in [{e} -> Rows]
  /\ u.at \notin {"narrow", "served", "refused"} => u.ask = {} /\ u.open = {} /\ u.some = {}
  /\ u.at = "turn" => u.es = {}
Readers == \A c \in Consumers : Reading(use[c]) /\ Calm(use[c])

AccessInv == AccessTypes /\ Unborn /\ Shapes /\ Rightful /\ Readers

-------------------------------------------------------------------------------
LEMMA CopiesOf == ASSUME NEW S \in SUBSET Endpoints, NEW f \in [S -> Rows] PROVE f \in Copies
BY DEF Copies

\* The edit of a goes on; whatever the others hold stays.
LEMMA GoesOn ==
  ASSUME AccessTypes, NEW a \in Admins, NEW k, Goes(a, k)
  PROVE  edit'[a] = k /\ \A b \in Admins \ {a} : edit'[b] = edit[b]
BY DEF AccessTypes, Goes

LEMMA GoesTyped ==
  ASSUME AccessTypes, NEW a \in Admins, NEW k \in EditRecords, Goes(a, k)
  PROVE  edit' \in [Admins -> EditRecords]
BY DEF AccessTypes, Goes

LEMMA NoRowsTyped == NoRows \in Copies /\ DOMAIN NoRows = {}
<1>1. NoRows \in [{} -> Rows]
  BY DEF NoRows
<1>2. {} \in SUBSET Endpoints
  OBVIOUS
<1>. QED BY <1>1, <1>2, CopiesOf

LEMMA NoEditTyped == NoEdit \in EditRecords /\ NoEdit.wrote = FALSE /\ NoEdit.at = "idle"
<1>1. NoRows \in Copies
  BY NoRowsTyped
<1>. HIDE DEF NoRows, Copies
<1>2. NoEdit \in EditRecords
  BY <1>1 DEF NoEdit, EditRecords
<1>3. NoEdit.wrote = FALSE /\ NoEdit.at = "idle"
  BY DEF NoEdit
<1>. QED BY <1>2, <1>3

LEMMA Idle ==
  ASSUME Shapes, NEW a \in Admins, edit[a].at = "idle"
  PROVE  edit[a] = NoEdit
BY DEF Shapes, Shape, GrantShape, DeleteTeamShape, MemberShape, DeleteEndpointShape, CloneShape

\* One edit moves on: the others are as they were.
LEMMA ShapesStep ==
  ASSUME Shapes, NEW a \in Admins, Shape(edit[a])',
         \A b \in Admins \ {a} : edit'[b] = edit[b],
         \A e \in Endpoints : endpoint'[e].state = "never" => endpoint[e].state = "never"
  PROVE  Shapes'
<1>. SUFFICES ASSUME NEW b \in Admins \ {a} PROVE Shape(edit[b])'
  BY DEF Shapes
<1>1. Shape(edit[b]) /\ edit'[b] = edit[b]
  BY DEF Shapes
<1>2. PICK k : k = edit[b]
  OBVIOUS
<1>3. CloneShape(k) => CloneShape(k)'
  BY DEF CloneShape
<1>4. Shape(k)'
  BY <1>1, <1>2, <1>3 DEF Shape, GrantShape, DeleteTeamShape, MemberShape, DeleteEndpointShape
<1>. QED BY <1>1, <1>2, <1>4

LEMMA PartStays ==
  ASSUME NEW k, UNCHANGED <<endpoint, subset, want>>
  PROVE  /\ Part(k) => Part(k)'
         /\ Match => Match'
<1>1. Match' = Match
  BY DEF Match
<1>2. PartGrant(k)' = PartGrant(k)
  BY DEF PartGrant
<1>3. PartDeleteTeam(k)' = PartDeleteTeam(k)
  BY DEF PartDeleteTeam
<1>4. PartDeleteEndpoint(k)' = PartDeleteEndpoint(k)
  BY DEF PartDeleteEndpoint
<1>5. PartClone(k)' = PartClone(k)
  BY DEF PartClone
<1>. HIDE DEF Match, PartGrant, PartDeleteTeam, PartDeleteEndpoint, PartClone
<1>. QED BY <1>1, <1>2, <1>3, <1>4, <1>5 DEF Part

LEMMA RightfulStep ==
  ASSUME Rightful, NEW a \in Admins,
         \A b \in Admins \ {a} : edit'[b] = edit[b],
         access.damaged => access'.damaged,
         ~access'.damaged /\ (\A b \in Admins \ {a} : ~edit[b].wrote) /\ Sound(edit[a])
           => Sound(edit[a])',
         ~access'.damaged /\ (\E b \in Admins \ {a} : edit[b].wrote)
           => UNCHANGED <<endpoint, subset, want>> /\ (edit'[a].wrote => edit[a].wrote)
  PROVE  Rightful'
<1>. SUFFICES ASSUME ~access'.damaged, ~access.damaged PROVE Rightful'
  BY DEF Rightful
<1>1. CASE \A b \in Admins \ {a} : ~edit[b].wrote
  <2>1. Sound(edit[a])
    BY <1>1 DEF Sound, Rightful
  <2>2. Sound(edit[a])'
    BY <1>1, <2>1
  <2>. QED BY <1>1, <2>2 DEF Sound, Rightful
<1>2. CASE \E b \in Admins \ {a} : edit[b].wrote
  <2>1. PICK b \in Admins \ {a} : edit[b].wrote
    BY <1>2
  <2>2. Part(edit[b]) /\ \A d \in Admins \ {b} : ~edit[d].wrote
    BY <2>1 DEF Rightful
  <2>3. UNCHANGED <<endpoint, subset, want>> /\ ~edit'[a].wrote
    BY <1>2, <2>1, <2>2
  <2>4. edit'[b] = edit[b] /\ \A d \in Admins \ {b} : ~edit'[d].wrote
    BY <2>1, <2>2, <2>3
  <2>5. Part(edit[b])'
    <3>1. PICK k : k = edit[b]
      OBVIOUS
    <3>2. Part(k)'
      BY <2>2, <2>3, <3>1, PartStays
    <3>. QED BY <2>1, <2>4, <3>1, <3>2
  <2>. QED BY <2>1, <2>4, <2>5 DEF Rightful
<1>. QED BY <1>1, <1>2

\* What the administrators' steps keep.
AdminInv == AccessTypes /\ Unborn /\ Shapes /\ Rightful

\* An edit is opened.
LEMMA OpenStep ==
  ASSUME AdminInv, NEW a \in Admins, NEW k \in EditRecords, ~k.wrote, Shape(k), Open(a, k)
  PROVE  AdminInv'
<1>1. edit[a] = NoEdit /\ ~edit[a].wrote
  BY Idle, NoEditTyped DEF Open, AdminInv
<1>2. edit'[a] = k /\ \A b \in Admins \ {a} : edit'[b] = edit[b]
  BY DEF Open, AdminInv, AccessTypes
<1>3. UNCHANGED <<endpoint, subset, team, member, use, want>> /\ access'.damaged = access.damaged
  BY DEF Open, AdminInv, AccessTypes
<1>4. AccessTypes'
  <2>1. edit' \in [Admins -> EditRecords]
    BY DEF Open, AdminInv, AccessTypes
  <2>2. access' \in [start : Access, edits : Nat, stops : Nat, damaged : BOOLEAN]
    BY DEF Open, AdminInv, AccessTypes
  <2>. QED BY <1>3, <2>1, <2>2 DEF AdminInv, AccessTypes
<1>5. Unborn'
  BY <1>3 DEF AdminInv, Unborn
<1>6. Shape(k)'
  BY <1>3 DEF Shape, GrantShape, DeleteTeamShape, MemberShape, DeleteEndpointShape, CloneShape
<1>7. Shapes'
  BY <1>2, <1>3, <1>6, ShapesStep DEF AdminInv
<1>8. Sound(edit[a]) => Sound(edit[a])'
  BY <1>1, <1>2, <1>3, PartStays DEF Sound
<1>9. Rightful'
  BY <1>2, <1>3, <1>8, RightfulStep DEF AdminInv
<1>. QED BY <1>4, <1>5, <1>7, <1>9 DEF AdminInv

\* An edit goes on without a write.
LEMMA SilentStep ==
  ASSUME AdminInv, NEW a \in Admins, NEW k \in EditRecords, ~k.wrote, ~edit[a].wrote,
         Shape(k), Goes(a, k), Reads
  PROVE  AdminInv'
<1>1. edit'[a] = k /\ \A b \in Admins \ {a} : edit'[b] = edit[b]
  BY GoesOn DEF AdminInv
<1>2. UNCHANGED <<endpoint, subset, team, member, use, want, access>>
  BY DEF Reads
<1>3. AccessTypes'
  BY <1>2, GoesTyped DEF AdminInv, AccessTypes
<1>4. Unborn'
  BY <1>2 DEF AdminInv, Unborn
<1>5. Shape(k)'
  BY <1>2 DEF Shape, GrantShape, DeleteTeamShape, MemberShape, DeleteEndpointShape, CloneShape
<1>6. Shapes'
  BY <1>1, <1>2, <1>5, ShapesStep DEF AdminInv
<1>7. Sound(edit[a]) => Sound(edit[a])'
  BY <1>1, <1>2, PartStays DEF Sound
<1>8. Rightful'
  BY <1>1, <1>2, <1>7, RightfulStep DEF AdminInv
<1>. QED BY <1>3, <1>4, <1>6, <1>8 DEF AdminInv

\* An edit writes: whoever is half written is damaged, so that only what it
\* leaves itself counts.
LEMMA WriteStep ==
  ASSUME AdminInv, NEW a \in Admins, NEW k \in EditRecords, NEW stale \in BOOLEAN,
         Goes(a, k), Writes(a, stale),
         endpoint' \in [Endpoints -> Rows],
         subset' \in [Teams -> [Endpoints -> SUBSET Tools]],
         member' \in SUBSET Teams,
         want' \in [teams : [Endpoints -> SUBSET Teams], tools : [Teams -> [Endpoints -> SUBSET Tools]]],
         \A e \in Endpoints : endpoint'[e].state = "never" => endpoint[e].state = "never",
         Unborn', Shape(k)',
         ~access.damaged /\ ~stale /\ Sound(edit[a]) => Sound(k)'
  PROVE  AdminInv'
<1>1. edit'[a] = k /\ \A b \in Admins \ {a} : edit'[b] = edit[b]
  BY GoesOn DEF AdminInv
<1>2. /\ access'.damaged = (access.damaged \/ stale \/ \E b \in Admins \ {a} : edit[b].wrote)
      /\ access' \in [start : Access, edits : Nat, stops : Nat, damaged : BOOLEAN]
  BY DEF AdminInv, AccessTypes, Writes
<1>3. use' \in [Consumers -> UseRecords]
  <2>1. ASSUME NEW u \in UseRecords PROVE [u EXCEPT !.calm = FALSE] \in UseRecords
    BY DEF UseRecords
  <2>. QED BY <2>1 DEF AdminInv, AccessTypes, Writes
<1>4. AccessTypes'
  BY <1>2, <1>3, GoesTyped DEF AdminInv, AccessTypes
<1>5. Shapes'
  BY <1>1, ShapesStep DEF AdminInv
<1>6. ~access'.damaged /\ Sound(edit[a]) => Sound(edit[a])'
  BY <1>1, <1>2
<1>7. Rightful'
  BY <1>1, <1>2, <1>6, RightfulStep DEF AdminInv
<1>. QED BY <1>4, <1>5, <1>7 DEF AdminInv

LEMMA ShapeOf ==
  ASSUME Shapes, NEW a \in Admins
  PROVE  LET k == edit[a] IN
         /\ k.kind \in {"grant", "revoke"} => GrantShape(k)
         /\ k.kind = "deleteTeam" => DeleteTeamShape(k)
         /\ k.kind \in {"addMember", "removeMember"} => MemberShape(k)
         /\ k.kind = "deleteEndpoint" => DeleteEndpointShape(k)
         /\ k.kind = "clone" => CloneShape(k)
         /\ k.at \in {"clear", "insert"} => k.kind \in {"grant", "revoke", "clone"}
         /\ k.at = "leave" => k.kind \in {"addMember", "removeMember"}
<1>1. Shape(edit[a])
  BY DEF Shapes
<1>2. NoEdit.kind = "none" /\ NoEdit.at = "idle"
  BY DEF NoEdit
<1>3. \/ edit[a] = NoEdit
      \/ edit[a].kind \in {"grant", "revoke"} /\ GrantShape(edit[a])
      \/ edit[a].kind = "deleteTeam" /\ DeleteTeamShape(edit[a])
      \/ edit[a].kind \in {"addMember", "removeMember"} /\ MemberShape(edit[a])
      \/ edit[a].kind = "deleteEndpoint" /\ DeleteEndpointShape(edit[a])
      \/ edit[a].kind = "clone" /\ CloneShape(edit[a])
  BY <1>1 DEF Shape
<1>4. CASE edit[a] = NoEdit
  BY <1>2, <1>4
<1>5. CASE edit[a].kind = "deleteTeam" /\ DeleteTeamShape(edit[a])
  BY <1>5 DEF DeleteTeamShape
<1>6. CASE edit[a].kind = "deleteEndpoint" /\ DeleteEndpointShape(edit[a])
  BY <1>6 DEF DeleteEndpointShape
<1>7. CASE edit[a].kind = "clone" /\ CloneShape(edit[a])
  BY <1>7 DEF CloneShape
<1>8. CASE edit[a].kind \in {"addMember", "removeMember"} /\ MemberShape(edit[a])
  BY <1>8 DEF MemberShape
<1>9. CASE edit[a].kind \in {"grant", "revoke"} /\ GrantShape(edit[a])
  BY <1>9 DEF GrantShape
<1>. QED BY <1>3, <1>4, <1>5, <1>6, <1>7, <1>8, <1>9

LEMMA Opens ==
  ASSUME AdminInv, NEW a \in Admins
  PROVE  /\ \A t \in Teams : DeleteTeam(a, t) \/ AddMember(a, t) \/ RemoveMember(a, t) => AdminInv'
         /\ \A t \in Teams, e \in Endpoints, kind \in {"grant", "revoke"}, pick \in SUBSET Tools :
              Grant(a, t, e, kind, pick) => AdminInv'
         /\ \A e \in Endpoints : DeleteEndpoint(a, e) \/ Clone(a, e) => AdminInv'
<1>. USE NoEditTyped
<1>1. ASSUME NEW t \in Teams, DeleteTeam(a, t) PROVE AdminInv'
  <2>. DEFINE k == [NoEdit EXCEPT !.at = "list", !.kind = "deleteTeam", !.t = t]
  <2>1. k \in EditRecords
    BY DEF EditRecords
  <2>2. ~k.wrote /\ Shape(k)
    BY DEF EditRecords, Shape, DeleteTeamShape
  <2>. QED BY <1>1, <2>1, <2>2, OpenStep DEF DeleteTeam
<1>2. ASSUME NEW t \in Teams, AddMember(a, t) PROVE AdminInv'
  <2>. DEFINE k == [NoEdit EXCEPT !.at = "team", !.kind = "addMember", !.t = t]
  <2>1. k \in EditRecords
    BY DEF EditRecords
  <2>2. ~k.wrote /\ Shape(k)
    BY DEF EditRecords, Shape, MemberShape
  <2>. QED BY <1>2, <2>1, <2>2, OpenStep DEF AddMember
<1>3. ASSUME NEW t \in Teams, RemoveMember(a, t) PROVE AdminInv'
  <2>. DEFINE k == [NoEdit EXCEPT !.at = "leave", !.kind = "removeMember", !.t = t]
  <2>1. k \in EditRecords
    BY DEF EditRecords
  <2>2. ~k.wrote /\ Shape(k)
    BY DEF EditRecords, Shape, MemberShape
  <2>. QED BY <1>3, <2>1, <2>2, OpenStep DEF RemoveMember
<1>4. ASSUME NEW t \in Teams, NEW e \in Endpoints, NEW kind \in {"grant", "revoke"},
             NEW chosen \in SUBSET Tools, Grant(a, t, e, kind, chosen)
      PROVE  AdminInv'
  <2>. DEFINE k == [NoEdit EXCEPT !.at = "team", !.kind = kind, !.t = t, !.e = e, !.into = e, !.pick = chosen]
  <2>1. k \in EditRecords
    BY DEF EditRecords
  <2>2. NoEdit.tools = {}
    BY DEF NoEdit
  <2>3. ~k.wrote /\ Shape(k)
    BY <2>2 DEF EditRecords, Shape, GrantShape
  <2>. QED BY <1>4, <2>1, <2>3, OpenStep DEF Grant
<1>5. ASSUME NEW e \in Endpoints, DeleteEndpoint(a, e) PROVE AdminInv'
  <2>. DEFINE k == [NoEdit EXCEPT !.at = "subsets", !.kind = "deleteEndpoint", !.e = e]
  <2>1. k \in EditRecords
    BY DEF EditRecords
  <2>2. ~k.wrote /\ Shape(k)
    BY DEF EditRecords, Shape, DeleteEndpointShape
  <2>. QED BY <1>5, <2>1, <2>2, OpenStep DEF DeleteEndpoint
<1>6. ASSUME NEW e \in Endpoints, Clone(a, e) PROVE AdminInv'
  <2>. DEFINE k == [NoEdit EXCEPT !.at = "source", !.kind = "clone", !.e = e]
  <2>1. k \in EditRecords
    BY DEF EditRecords
  <2>2. ~k.wrote /\ Shape(k)
    BY DEF EditRecords, Shape, CloneShape
  <2>. QED BY <1>6, <2>1, <2>2, OpenStep DEF Clone
<1>. QED BY <1>1, <1>2, <1>3, <1>4, <1>5, <1>6

LEMMA AnswersSilently ==
  ASSUME AdminInv, NEW a \in Admins, ~edit[a].wrote, Answers(a), Reads
  PROVE  AdminInv'
BY NoEditTyped, SilentStep DEF Answers, Shape

LEMMA SilentSteps ==
  ASSUME AdminInv, NEW a \in Admins,
         GrantTeam(a) \/ GrantRead(a) \/ ListEndpoints(a) \/ MemberTeam(a) \/ CloneRead(a)
  PROVE  AdminInv'
<1>0. edit[a] \in EditRecords /\ edit[a].wrote \in BOOLEAN
  BY DEF AdminInv, AccessTypes, EditRecords
<1>1. CASE GrantTeam(a)
  <2>. DEFINE k == [edit[a] EXCEPT !.at = "read"]
  <2>1. GrantShape(edit[a]) /\ edit[a].at = "team" /\ ~edit[a].wrote
    BY <1>1, ShapeOf DEF AdminInv, GrantTeam, Grants, GrantShape
  <2>2. k \in EditRecords
    BY <1>0 DEF EditRecords
  <2>3. ~k.wrote /\ Shape(k)
    BY <1>0, <1>1, <2>1 DEF EditRecords, Shape, GrantShape, GrantTeam, Grants
  <2>. HIDE DEF k
  <2>4. Goes(a, k) \/ Answers(a)
    BY <1>1 DEF GrantTeam, k
  <2>. QED BY <1>1, <2>1, <2>2, <2>3, <2>4, SilentStep, AnswersSilently DEF GrantTeam
<1>2. CASE GrantRead(a)
  <2>. DEFINE e == edit[a].e
              vs == endpoint[e]
              rows == [d \in {e} |-> vs]
              k == [edit[a] EXCEPT !.at = "update", !.rows = rows,
                                   !.tools = @ \cup (edit[a].pick \cap vs.tools)]
  <2>1. GrantShape(edit[a]) /\ edit[a].at = "read" /\ ~edit[a].wrote /\ edit[a].tools = {}
        /\ edit[a].kind \in {"grant", "revoke"} /\ e \in Endpoints
    BY <1>2, ShapeOf DEF AdminInv, GrantRead, Grants, GrantShape
  <2>2. CASE vs.state = "here"
    <3>1. vs \in Rows /\ vs.tools \in SUBSET Tools
      BY <2>1 DEF AdminInv, AccessTypes, Rows
    <3>2. rows \in [{e} -> Rows] /\ rows[e] = vs
      BY <3>1
    <3>3. rows \in Copies
      BY <2>1, <3>2, CopiesOf
    <3>. HIDE DEF rows
    <3>4. k \in EditRecords
      BY <1>0, <3>1, <3>3 DEF EditRecords
    <3>5. /\ k.at = "update" /\ k.rows = rows /\ k.tools = edit[a].pick \cap vs.tools
          /\ k.pick = edit[a].pick
          /\ k.kind = edit[a].kind /\ k.t = edit[a].t /\ k.e = e /\ k.into = edit[a].into
          /\ k.wrote = edit[a].wrote
      BY <1>0, <2>1 DEF EditRecords
    <3>6. Goes(a, k) /\ Reads
      BY <1>2, <2>2 DEF GrantRead, rows
    <3>. HIDE DEF k, vs
    <3>7. Shape(k)
      BY <2>1, <2>2, <3>2, <3>5 DEF Shape, GrantShape, vs
    <3>. QED BY <2>1, <3>4, <3>5, <3>6, <3>7, SilentStep
  <2>3. CASE vs.state # "here"
    BY <1>2, <2>1, <2>3, AnswersSilently DEF GrantRead
  <2>. QED BY <2>2, <2>3
<1>3. CASE ListEndpoints(a)
  <2>. DEFINE listed == {e \in Endpoints : endpoint[e].state = "here" /\ edit[a].t \in endpoint[e].teams}
              rows == [e \in listed |-> endpoint[e]]
              k == [edit[a] EXCEPT !.at = IF listed = {} THEN "members" ELSE "strip", !.rows = rows]
  <2>1. DeleteTeamShape(edit[a]) /\ edit[a].kind = "deleteTeam" /\ ~edit[a].wrote
    BY <1>3, ShapeOf DEF AdminInv, ListEndpoints, EditAt, DeleteTeamShape
  <2>2. rows \in Copies
    <3>1. rows \in [listed -> Rows] /\ listed \in SUBSET Endpoints
      BY DEF AdminInv, AccessTypes
    <3>. QED BY <3>1, CopiesOf
  <2>3. Goes(a, k) /\ Reads
    BY <1>3 DEF ListEndpoints
  <2>. HIDE DEF rows, listed
  <2>4. k \in EditRecords /\ k.at \in {"members", "strip"} /\ k.kind = edit[a].kind
        /\ k.t = edit[a].t /\ k.wrote = edit[a].wrote
    BY <1>0, <2>2 DEF EditRecords
  <2>. HIDE DEF k
  <2>5. Shape(k)
    BY <2>1, <2>4 DEF Shape, DeleteTeamShape
  <2>. QED BY <2>1, <2>3, <2>4, <2>5, SilentStep
<1>4. CASE MemberTeam(a)
  <2>. DEFINE k == [edit[a] EXCEPT !.at = "leave"]
  <2>1. MemberShape(edit[a]) /\ edit[a].kind = "addMember" /\ edit[a].at = "team" /\ ~edit[a].wrote
    BY <1>4, ShapeOf DEF AdminInv, MemberTeam, EditAt, MemberShape
  <2>2. k \in EditRecords
    BY <1>0 DEF EditRecords
  <2>3. ~k.wrote /\ Shape(k)
    BY <1>0, <2>1 DEF EditRecords, Shape, MemberShape
  <2>. HIDE DEF k
  <2>4. Goes(a, k) \/ Answers(a)
    BY <1>4 DEF MemberTeam, k
  <2>. QED BY <1>4, <2>1, <2>2, <2>3, <2>4, SilentStep, AnswersSilently DEF MemberTeam
<1>5. CASE CloneRead(a)
  <2>. DEFINE e == edit[a].e
              vs == endpoint[e]
              rows == [d \in {e} |-> vs]
              k == [edit[a] EXCEPT !.at = "copy", !.rows = rows]
  <2>1. CloneShape(edit[a]) /\ edit[a].at = "source" /\ ~edit[a].wrote
        /\ edit[a].kind = "clone" /\ e \in Endpoints
    BY <1>5, ShapeOf DEF AdminInv, CloneRead, EditAt, CloneShape
  <2>2. CASE vs.state = "here"
    <3>1. vs \in Rows
      BY <2>1 DEF AdminInv, AccessTypes
    <3>2. rows \in [{e} -> Rows] /\ rows[e] = vs
      BY <3>1
    <3>3. rows \in Copies
      BY <2>1, <3>2, CopiesOf
    <3>4. Goes(a, k) /\ Reads
      BY <1>5, <2>2 DEF CloneRead
    <3>. HIDE DEF rows
    <3>5. /\ k \in EditRecords /\ k.at = "copy" /\ k.rows = rows /\ k.kind = edit[a].kind
          /\ k.e = e /\ k.wrote = edit[a].wrote
      BY <1>0, <3>3 DEF EditRecords
    <3>. HIDE DEF k, vs
    <3>6. Shape(k)
      BY <2>1, <2>2, <3>2, <3>5 DEF Shape, CloneShape, vs
    <3>. QED BY <2>1, <3>4, <3>5, <3>6, SilentStep
  <2>3. CASE vs.state # "here"
    BY <1>5, <2>1, <2>3, AnswersSilently DEF CloneRead
  <2>. QED BY <2>2, <2>3
<1>. QED BY <1>1, <1>2, <1>3, <1>4, <1>5

\* What an edit that goes on with Half holds.
LEMMA HalfFields ==
  ASSUME AccessTypes, NEW a \in Admins,
         NEW at \in {"clear", "insert", "copyNext", "strip", "members", "subsets", "row", "join"}
  PROVE  \E k \in EditRecords :
         /\ k = Half(a, at)
         /\ k.at = at /\ k.wrote = TRUE /\ k.kind = edit[a].kind /\ k.t = edit[a].t
         /\ k.e = edit[a].e /\ k.into = edit[a].into /\ k.pick = edit[a].pick
         /\ k.rows = edit[a].rows /\ k.teams = edit[a].teams /\ k.tools = edit[a].tools
<1>1. edit[a] \in EditRecords
  BY DEF AccessTypes
<1>2. Half(a, at) \in EditRecords
  BY <1>1 DEF Half, EditRecords
<1>3. LET k == Half(a, at) IN
         /\ k.at = at /\ k.wrote = TRUE /\ k.kind = edit[a].kind /\ k.t = edit[a].t
         /\ k.e = edit[a].e /\ k.into = edit[a].into /\ k.pick = edit[a].pick
         /\ k.rows = edit[a].rows /\ k.teams = edit[a].teams /\ k.tools = edit[a].tools
  BY <1>1 DEF Half, EditRecords
<1>. HIDE DEF Half
<1>. QED BY <1>2, <1>3

\* The types of an edit's fields.
LEMMA EditFields ==
  ASSUME AccessTypes, NEW a \in Admins
  PROVE  /\ edit[a] \in EditRecords
         /\ edit[a].pick \in SUBSET Tools /\ edit[a].teams \in SUBSET Teams
         /\ edit[a].tools \in SUBSET Tools /\ edit[a].rows \in Copies
         /\ edit[a].wrote = TRUE \/ edit[a].wrote = FALSE
<1>1. edit[a] \in EditRecords
  BY DEF AccessTypes
<1>. QED BY <1>1 DEF EditRecords

LEMMA GrantUpdates ==
  ASSUME AdminInv, NEW a \in Admins, GrantUpdate(a)
  PROVE  AdminInv'
<1>. DEFINE e == edit[a].e
            vs == edit[a].rows[e]
            teams == IF edit[a].kind = "grant" THEN vs.teams \cup {edit[a].t} ELSE vs.teams \ {edit[a].t}
            access1 == IF edit[a].kind = "grant" /\ vs.access # "restricted" THEN "restricted"
                       ELSE endpoint[e].access
            stale == endpoint[e] # vs
            row == [endpoint[e] EXCEPT !.teams = teams, !.access = access1]
<1>1. GrantShape(edit[a]) /\ edit[a].at = "update" /\ ~edit[a].wrote
      /\ edit[a].kind \in {"grant", "revoke"} /\ e \in Endpoints /\ edit[a].t \in Teams
      /\ vs \in Rows /\ edit[a].rows \in [{e} -> Rows] /\ vs.state = "here"
      /\ edit[a].tools = edit[a].pick \cap vs.tools /\ edit[a].into = e
      /\ endpoint[e].state # "never"
  BY ShapeOf DEF AdminInv, GrantUpdate, Grants, GrantShape
<1>2. /\ endpoint \in [Endpoints -> Rows] /\ endpoint[e] \in Rows
      /\ subset \in [Teams -> [Endpoints -> SUBSET Tools]]
  BY <1>1 DEF AdminInv, AccessTypes
<1>3. teams \in SUBSET Teams /\ access1 \in {"public", "authenticated", "restricted"}
  BY <1>1, <1>2 DEF Rows
<1>4. /\ endpoint' = IF endpoint[e].state # "here" THEN endpoint ELSE [endpoint EXCEPT ![e] = row]
      /\ Goes(a, Half(a, "clear")) /\ Writes(a, stale)
      /\ UNCHANGED <<subset, team, member, want>>
  BY Zenon DEF GrantUpdate
<1>. HIDE DEF teams, access1
<1>5. row \in Rows /\ row.state = endpoint[e].state /\ row.teams = teams
  BY <1>2, <1>3 DEF Rows
<1>. HIDE DEF row
<1>6. /\ endpoint' \in [Endpoints -> Rows]
      /\ \A d \in Endpoints \ {e} : endpoint'[d] = endpoint[d]
      /\ endpoint'[e].state = endpoint[e].state
      /\ endpoint[e].state = "here" => endpoint'[e].teams = teams
  BY <1>1, <1>2, <1>4, <1>5
<1>7. PICK k \in EditRecords :
        /\ k = Half(a, "clear")
        /\ k.at = "clear" /\ k.wrote = TRUE /\ k.kind = edit[a].kind /\ k.t = edit[a].t
        /\ k.e = edit[a].e /\ k.into = edit[a].into /\ k.pick = edit[a].pick
        /\ k.rows = edit[a].rows /\ k.teams = edit[a].teams /\ k.tools = edit[a].tools
  BY HalfFields, ZenonT(60) DEF AdminInv
<1>8. Unborn'
  <2>1. ASSUME NEW d \in Endpoints, endpoint'[d].state = "never" PROVE endpoint'[d] = endpoint[d]
    BY <1>1, <1>6, <2>1
  <2>. QED BY <1>4, <2>1 DEF AdminInv, Unborn
<1>9. Shape(k)'
  BY <1>1, <1>6, <1>7 DEF Shape, GrantShape
<1>10. ASSUME ~stale, Match PROVE Sound(k)'
  <2>1. endpoint'[e].teams = IF k.kind = "grant" THEN want.teams[e] \cup {k.t} ELSE want.teams[e] \ {k.t}
    <3>1. endpoint[e] = vs /\ vs.teams = want.teams[e]
      BY <1>1, <1>10 DEF Match
    <3>2. endpoint'[e].teams = teams /\ k.kind = edit[a].kind /\ k.t = edit[a].t
      BY <1>1, <1>6, <1>7, <3>1
    <3>. QED BY <3>1, <3>2 DEF teams
  <2>2. PartGrant(k)'
    BY <1>4, <1>6, <1>7, <1>10, <2>1 DEF PartGrant, Match
  <2>. QED BY <1>1, <1>7, <2>2 DEF Sound, Part
<1>11. \A d \in Endpoints : endpoint'[d].state = "never" => endpoint[d].state = "never"
  BY <1>6
<1>12. member' \in SUBSET Teams /\ subset' \in [Teams -> [Endpoints -> SUBSET Tools]]
       /\ want' \in [teams : [Endpoints -> SUBSET Teams], tools : [Teams -> [Endpoints -> SUBSET Tools]]]
  BY <1>4 DEF AdminInv, AccessTypes
<1>13. Goes(a, k) /\ (Sound(edit[a]) => Match)
  BY <1>1, <1>4, <1>7 DEF Sound
<1>. QED BY <1>4, <1>6, <1>8, <1>9, <1>10, <1>11, <1>12, <1>13, WriteStep

\* One cell of the subsets is written.
LEMMA Cell ==
  ASSUME NEW S \in [Teams -> [Endpoints -> SUBSET Tools]], NEW t \in Teams, NEW e \in Endpoints,
         NEW X \in SUBSET Tools
  PROVE  /\ [S EXCEPT ![t][e] = X] \in [Teams -> [Endpoints -> SUBSET Tools]]
         /\ \A q \in Teams, d \in Endpoints :
              [S EXCEPT ![t][e] = X][q][d] = IF q = t /\ d = e THEN X ELSE S[q][d]
OBVIOUS

\* What the subset under way is to be.
Aim(k) == IF k.kind = "clone" THEN want.tools[k.t][k.e] ELSE k.pick \cap k.rows[k.e].tools

\* What an edit of subsets has granted when it is over.
LEMMA GrantedBy ==
  ASSUME AdminInv, NEW a \in Admins,
         edit[a].at \in {"clear", "insert"} \/ EditAt(a, "clone", "copyNext")
  PROVE  LET k == edit[a] IN
         /\ Granted(a) \in [teams : [Endpoints -> SUBSET Teams], tools : [Teams -> [Endpoints -> SUBSET Tools]]]
         /\ k.kind # "clone" =>
              /\ \A d \in Endpoints : Granted(a).teams[d] =
                   IF d = k.e THEN IF k.kind = "grant" THEN want.teams[d] \cup {k.t} ELSE want.teams[d] \ {k.t}
                   ELSE want.teams[d]
              /\ \A q \in Teams, d \in Endpoints : Granted(a).tools[q][d] =
                   IF q = k.t /\ d = k.e THEN k.pick \cap k.rows[k.e].tools ELSE want.tools[q][d]
         /\ k.kind = "clone" =>
              /\ \A d \in Endpoints : Granted(a).teams[d] =
                   IF d = k.into THEN want.teams[k.e] ELSE want.teams[d]
              /\ \A q \in Teams, d \in Endpoints : Granted(a).tools[q][d] =
                   IF d = k.into THEN IF q \in want.teams[k.e] THEN want.tools[q][k.e] ELSE {}
                   ELSE want.tools[q][d]
<1>1. /\ want.teams \in [Endpoints -> SUBSET Teams]
      /\ want.tools \in [Teams -> [Endpoints -> SUBSET Tools]]
      /\ edit[a].pick \in SUBSET Tools
  BY EditFields DEF AdminInv, AccessTypes
<1>2. CASE edit[a].kind # "clone"
  <2>1. edit[a].t \in Teams /\ edit[a].e \in Endpoints
    BY <1>2, ShapeOf DEF AdminInv, GrantShape, EditAt
  <2>. DEFINE teams == [want.teams EXCEPT ![edit[a].e] =
                          IF edit[a].kind = "grant" THEN @ \cup {edit[a].t} ELSE @ \ {edit[a].t}]
              tools == [want.tools EXCEPT ![edit[a].t][edit[a].e] =
                          edit[a].pick \cap edit[a].rows[edit[a].e].tools]
  <2>2. Granted(a) = [teams |-> teams, tools |-> tools]
    BY <1>2 DEF Granted
  <2>3. teams \in [Endpoints -> SUBSET Teams]
        /\ \A d \in Endpoints : teams[d] =
             IF d = edit[a].e THEN IF edit[a].kind = "grant" THEN want.teams[d] \cup {edit[a].t}
                                   ELSE want.teams[d] \ {edit[a].t}
             ELSE want.teams[d]
    BY <1>1, <2>1
  <2>4. edit[a].pick \cap edit[a].rows[edit[a].e].tools \in SUBSET Tools
    BY <1>1
  <2>5. tools \in [Teams -> [Endpoints -> SUBSET Tools]]
        /\ \A q \in Teams, d \in Endpoints : tools[q][d] =
             IF q = edit[a].t /\ d = edit[a].e THEN edit[a].pick \cap edit[a].rows[edit[a].e].tools
             ELSE want.tools[q][d]
    BY <1>1, <2>1, <2>4, Cell
  <2>. HIDE DEF teams, tools
  <2>6. /\ Granted(a) \in [teams : [Endpoints -> SUBSET Teams], tools : [Teams -> [Endpoints -> SUBSET Tools]]]
        /\ Granted(a).teams = teams /\ Granted(a).tools = tools
    BY <2>2, <2>3, <2>5
  <2>. QED BY <1>2, <2>3, <2>5, <2>6
<1>3. CASE edit[a].kind = "clone"
  <2>1. edit[a].into \in Endpoints /\ edit[a].e \in Endpoints
    BY <1>3, ShapeOf DEF AdminInv, CloneShape, EditAt
  <2>. DEFINE teams == [want.teams EXCEPT ![edit[a].into] = want.teams[edit[a].e]]
              tools == [t \in Teams |-> [want.tools[t] EXCEPT ![edit[a].into] =
                          IF t \in want.teams[edit[a].e] THEN want.tools[t][edit[a].e] ELSE {}]]
  <2>2. Granted(a) = [teams |-> teams, tools |-> tools]
    BY <1>3 DEF Granted
  <2>3. teams \in [Endpoints -> SUBSET Teams]
        /\ \A d \in Endpoints : teams[d] = IF d = edit[a].into THEN want.teams[edit[a].e] ELSE want.teams[d]
    BY <1>1, <2>1
  <2>4. tools \in [Teams -> [Endpoints -> SUBSET Tools]]
        /\ \A q \in Teams, d \in Endpoints : tools[q][d] =
             IF d = edit[a].into THEN IF q \in want.teams[edit[a].e] THEN want.tools[q][edit[a].e] ELSE {}
             ELSE want.tools[q][d]
    BY <1>1, <2>1
  <2>. HIDE DEF teams, tools
  <2>. QED BY <1>3, <2>2, <2>3, <2>4
<1>. QED BY <1>2, <1>3

\* What an edit of subsets writes into.
LEMMA SubsetShape ==
  ASSUME AdminInv, NEW a \in Admins, edit[a].at \in {"clear", "insert"}
  PROVE  LET k == edit[a] IN
         /\ k.t \in Teams /\ k.e \in Endpoints /\ k.into \in Endpoints /\ k.wrote
         /\ endpoint[k.into].state # "never"
         /\ k.kind \in {"grant", "revoke", "clone"}
         /\ k.kind = "clone" => CloneShape(k)
         /\ k.kind # "clone" => GrantShape(k) /\ k.into = k.e
BY ShapeOf DEF AdminInv, GrantShape, CloneShape

\* A subset under way is what is there but for the one cell.
LEMMA CellStep ==
  ASSUME AdminInv, NEW a \in Admins, edit[a].at \in {"clear", "insert"},
         NEW X \in SUBSET Tools, UNCHANGED <<endpoint, team, member>>,
         subset' = [subset EXCEPT ![edit[a].t][edit[a].into] = X]
  PROVE  /\ endpoint' \in [Endpoints -> Rows] /\ member' \in SUBSET Teams
         /\ subset' \in [Teams -> [Endpoints -> SUBSET Tools]]
         /\ \A q \in Teams, d \in Endpoints : subset'[q][d] =
              IF q = edit[a].t /\ d = edit[a].into THEN X ELSE subset[q][d]
         /\ Unborn'
<1>1. edit[a].t \in Teams /\ edit[a].into \in Endpoints /\ endpoint[edit[a].into].state # "never"
  BY SubsetShape
<1>2. subset \in [Teams -> [Endpoints -> SUBSET Tools]]
  BY DEF AdminInv, AccessTypes
<1>3. /\ subset' \in [Teams -> [Endpoints -> SUBSET Tools]]
      /\ \A q \in Teams, d \in Endpoints : subset'[q][d] =
           IF q = edit[a].t /\ d = edit[a].into THEN X ELSE subset[q][d]
  BY <1>1, <1>2, Cell
<1>4. Unborn'
  BY <1>1, <1>3 DEF AdminInv, Unborn
<1>. QED BY <1>3, <1>4 DEF AdminInv, AccessTypes

\* The subset is complete: the edit is over, or a clone turns to the next.
LEMMA SubsetDone ==
  ASSUME AdminInv, NEW a \in Admins, edit[a].at \in {"clear", "insert"}, AfterSubset(a),
         Writes(a, FALSE), NEW X \in SUBSET Tools, UNCHANGED <<endpoint, team, member>>,
         subset' = [subset EXCEPT ![edit[a].t][edit[a].into] = X],
         Part(edit[a]) => X = Aim(edit[a])
  PROVE  AdminInv'
<1>1. /\ endpoint' \in [Endpoints -> Rows] /\ member' \in SUBSET Teams
      /\ subset' \in [Teams -> [Endpoints -> SUBSET Tools]]
      /\ \A q \in Teams, d \in Endpoints : subset'[q][d] =
           IF q = edit[a].t /\ d = edit[a].into THEN X ELSE subset[q][d]
      /\ Unborn'
  BY CellStep
<1>2. /\ edit[a].t \in Teams /\ edit[a].e \in Endpoints /\ edit[a].into \in Endpoints
      /\ edit[a].wrote /\ edit[a].kind \in {"grant", "revoke", "clone"}
      /\ edit[a].kind = "clone" => CloneShape(edit[a])
      /\ edit[a].kind # "clone" => GrantShape(edit[a]) /\ edit[a].into = edit[a].e
  BY SubsetShape
<1>3. CASE edit[a].kind = "clone" /\ edit[a].teams # {}
  <2>1. PICK k \in EditRecords :
        /\ k = Half(a, "copyNext")
        /\ k.at = "copyNext" /\ k.wrote = TRUE /\ k.kind = edit[a].kind /\ k.t = edit[a].t
        /\ k.e = edit[a].e /\ k.into = edit[a].into /\ k.pick = edit[a].pick
        /\ k.rows = edit[a].rows /\ k.teams = edit[a].teams /\ k.tools = edit[a].tools
    BY HalfFields, ZenonT(60) DEF AdminInv
  <2>2. Goes(a, k) /\ UNCHANGED want
    BY <1>3, <2>1 DEF AfterSubset
  <2>3. Shape(k)'
    BY <1>2, <1>3, <2>1 DEF Shape, CloneShape
  <2>4. ASSUME Part(edit[a]) PROVE Sound(k)'
    <3>1. PartClone(edit[a]) /\ X = want.tools[edit[a].t][edit[a].e]
      BY <1>2, <1>3, <2>4 DEF Part, Aim
    <3>2. \A q \in Teams : subset'[q][edit[a].into] =
            IF q \in want.teams[edit[a].e] \ edit[a].teams THEN want.tools[q][edit[a].e] ELSE {}
      BY <1>1, <1>2, <3>1 DEF PartClone
    <3>3. PartClone(k)'
      BY <1>1, <1>2, <2>1, <2>2, <3>1, <3>2 DEF PartClone, CloneShape
    <3>. QED BY <1>3, <2>1, <3>3 DEF Sound, Part
  <2>5. want' \in [teams : [Endpoints -> SUBSET Teams], tools : [Teams -> [Endpoints -> SUBSET Tools]]]
    BY <2>2 DEF AdminInv, AccessTypes
  <2>. QED BY <1>1, <1>2, <2>1, <2>2, <2>3, <2>4, <2>5, WriteStep DEF Sound
<1>4. CASE ~(edit[a].kind = "clone" /\ edit[a].teams # {})
  <2>1. PICK g : g = Granted(a) /\ want' = g /\ Goes(a, NoEdit)
    BY <1>4 DEF AfterSubset, Answers
  <2>2. /\ want' \in [teams : [Endpoints -> SUBSET Teams], tools : [Teams -> [Endpoints -> SUBSET Tools]]]
        /\ edit[a].kind # "clone" =>
             /\ \A d \in Endpoints : want'.teams[d] =
                  IF d = edit[a].e THEN IF edit[a].kind = "grant" THEN want.teams[d] \cup {edit[a].t}
                                        ELSE want.teams[d] \ {edit[a].t}
                  ELSE want.teams[d]
             /\ \A q \in Teams, d \in Endpoints : want'.tools[q][d] =
                  IF q = edit[a].t /\ d = edit[a].e THEN edit[a].pick \cap edit[a].rows[edit[a].e].tools
                  ELSE want.tools[q][d]
        /\ edit[a].kind = "clone" =>
             /\ \A d \in Endpoints : want'.teams[d] =
                  IF d = edit[a].into THEN want.teams[edit[a].e] ELSE want.teams[d]
             /\ \A q \in Teams, d \in Endpoints : want'.tools[q][d] =
                  IF d = edit[a].into THEN IF q \in want.teams[edit[a].e] THEN want.tools[q][edit[a].e] ELSE {}
                  ELSE want.tools[q][d]
    <3>. HIDE DEF Granted
    <3>1. want' = Granted(a)
      BY <2>1
    <3>. QED BY ZenonT(60), <3>1, GrantedBy
  <2>3. Shape(NoEdit)'
    BY DEF Shape
  <2>4. ASSUME Part(edit[a]) PROVE Match'
    <3>1. CASE edit[a].kind = "clone"
      <4>1. PartClone(edit[a]) /\ X = want.tools[edit[a].t][edit[a].e] /\ edit[a].teams = {}
        BY <1>4, <2>4, <3>1 DEF Part, Aim
      <4>2. /\ \A d \in Endpoints : want'.teams[d] =
                 IF d = edit[a].into THEN want.teams[edit[a].e] ELSE want.teams[d]
            /\ \A q \in Teams, d \in Endpoints : want'.tools[q][d] =
                 IF d = edit[a].into THEN IF q \in want.teams[edit[a].e] THEN want.tools[q][edit[a].e] ELSE {}
                 ELSE want.tools[q][d]
        BY <2>2, <3>1
      <4>3. \A q \in Teams : subset'[q][edit[a].into] =
              IF q \in want.teams[edit[a].e] THEN want.tools[q][edit[a].e] ELSE {}
        BY <1>1, <1>2, <4>1 DEF PartClone
      <4>. QED BY <1>1, <1>2, <4>1, <4>2, <4>3 DEF PartClone, Match
    <3>2. CASE edit[a].kind # "clone"
      <4>1. PartGrant(edit[a]) /\ X = edit[a].pick \cap edit[a].rows[edit[a].e].tools
        BY <1>2, <2>4, <3>2 DEF Part, Aim
      <4>2. /\ \A d \in Endpoints : want'.teams[d] =
                 IF d = edit[a].e THEN IF edit[a].kind = "grant" THEN want.teams[d] \cup {edit[a].t}
                                       ELSE want.teams[d] \ {edit[a].t}
                 ELSE want.teams[d]
            /\ \A q \in Teams, d \in Endpoints : want'.tools[q][d] =
                 IF q = edit[a].t /\ d = edit[a].e THEN edit[a].pick \cap edit[a].rows[edit[a].e].tools
                 ELSE want.tools[q][d]
        BY <2>2, <3>2
      <4>3. \A d \in Endpoints : endpoint'[d].teams = want'.teams[d]
        BY <4>1, <4>2 DEF PartGrant
      <4>4. ASSUME NEW q \in Teams, NEW d \in Endpoints PROVE subset'[q][d] = want'.tools[q][d]
        <5>1. q # edit[a].t \/ d # edit[a].e => subset[q][d] = want.tools[q][d]
          BY <4>1 DEF PartGrant
        <5>2. CASE q = edit[a].t /\ d = edit[a].e
          <6>1. subset'[q][d] = X
            BY <1>1, <1>2, <3>2, <5>2
          <6>2. want'.tools[q][d] = edit[a].pick \cap edit[a].rows[edit[a].e].tools
            BY <4>2, <5>2
          <6>. QED BY <4>1, <6>1, <6>2
        <5>3. CASE ~(q = edit[a].t /\ d = edit[a].e)
          <6>1. subset'[q][d] = subset[q][d]
            BY <1>1, <1>2, <3>2, <5>3
          <6>2. want'.tools[q][d] = want.tools[q][d]
            BY <4>2, <5>3
          <6>. QED BY <5>1, <5>3, <6>1, <6>2
        <5>. QED BY <5>2, <5>3
      <4>. QED BY <4>3, <4>4 DEF Match
    <3>. QED BY <3>1, <3>2
  <2>5. Part(edit[a]) => Sound(NoEdit)'
    BY <2>4, NoEditTyped DEF Sound
  <2>. QED BY <1>1, <1>2, <2>1, <2>2, <2>3, <2>5, NoEditTyped, WriteStep DEF Sound
<1>. QED BY <1>3, <1>4

\* The subset goes on, with tools still to insert.
LEMMA SubsetOn ==
  ASSUME AdminInv, NEW a \in Admins, edit[a].at \in {"clear", "insert"},
         NEW X \in SUBSET Tools, UNCHANGED <<endpoint, team, member, want>>,
         subset' = [subset EXCEPT ![edit[a].t][edit[a].into] = X],
         NEW k \in EditRecords, Goes(a, k), Writes(a, FALSE),
         k.at = "insert" /\ k.wrote = TRUE /\ k.kind = edit[a].kind /\ k.t = edit[a].t,
         k.e = edit[a].e /\ k.into = edit[a].into /\ k.pick = edit[a].pick,
         k.rows = edit[a].rows /\ k.teams = edit[a].teams,
         Part(edit[a]) => X \cup k.tools = Aim(edit[a])
  PROVE  AdminInv'
<1>1. /\ endpoint' \in [Endpoints -> Rows] /\ member' \in SUBSET Teams
      /\ subset' \in [Teams -> [Endpoints -> SUBSET Tools]]
      /\ \A q \in Teams, d \in Endpoints : subset'[q][d] =
           IF q = edit[a].t /\ d = edit[a].into THEN X ELSE subset[q][d]
      /\ Unborn'
  BY CellStep
<1>2. /\ edit[a].t \in Teams /\ edit[a].e \in Endpoints /\ edit[a].into \in Endpoints
      /\ edit[a].wrote /\ edit[a].kind \in {"grant", "revoke", "clone"}
      /\ edit[a].kind = "clone" => CloneShape(edit[a])
      /\ edit[a].kind # "clone" => GrantShape(edit[a]) /\ edit[a].into = edit[a].e
  BY SubsetShape
<1>3. want' \in [teams : [Endpoints -> SUBSET Teams], tools : [Teams -> [Endpoints -> SUBSET Tools]]]
  BY DEF AdminInv, AccessTypes
<1>4. CASE edit[a].kind = "clone"
  <2>1. Shape(k)'
    BY <1>2, <1>4 DEF Shape, CloneShape
  <2>2. ASSUME Part(edit[a]) PROVE Sound(k)'
    <3>1. PartClone(edit[a]) /\ X \cup k.tools = want.tools[edit[a].t][edit[a].e]
      BY <1>4, <2>2 DEF Part, Aim
    <3>2. CloneShape(edit[a]) /\ edit[a].at \in {"clear", "insert"} /\ edit[a].into # edit[a].e
      BY <1>2, <1>4 DEF CloneShape
    <3>3. \A q \in Teams : \/ q = edit[a].t
             \/ subset'[q][edit[a].into] =
                  IF q \in want.teams[edit[a].e] \ edit[a].teams THEN want.tools[q][edit[a].e] ELSE {}
      BY <1>1, <1>2, <3>1, <3>2 DEF PartClone
    <3>4. \A q \in Teams, d \in Endpoints :
            d # edit[a].into => subset'[q][d] = want.tools[q][d]
      BY <1>1, <3>1 DEF PartClone
    <3>5. subset'[k.t][k.into] \cup k.tools = want.tools[k.t][k.e]
      BY <1>1, <1>2, <3>1
    <3>6. edit[a].t \in want.teams[edit[a].e] \ edit[a].teams /\ edit[a].teams \subseteq want.teams[edit[a].e]
      BY <3>1, <3>2 DEF PartClone
    <3>7. \A d \in Endpoints : endpoint[d].teams = IF d = edit[a].into THEN want.teams[edit[a].e] ELSE want.teams[d]
      BY <3>1 DEF PartClone
    <3>8. PartClone(k)'
      <4>1. /\ k.into = edit[a].into /\ k.e = edit[a].e /\ k.t = edit[a].t /\ k.teams = edit[a].teams
            /\ k.at = "insert" /\ UNCHANGED <<endpoint, want>>
        OBVIOUS
      <4>2. /\ \A d \in Endpoints : endpoint'[d].teams =
                 IF d = k.into THEN want'.teams[k.e] ELSE want'.teams[d]
            /\ \A q \in Teams, d \in Endpoints : d # k.into => subset'[q][d] = want'.tools[q][d]
            /\ k.teams \subseteq want'.teams[k.e] /\ k.t \in want'.teams[k.e] \ k.teams
            /\ subset'[k.t][k.into] \cup k.tools = want'.tools[k.t][k.e]
        BY <3>4, <3>5, <3>6, <3>7, <4>1
      <4>3. \A q \in Teams : \/ q = k.t
               \/ subset'[q][k.into] =
                    IF q \in want'.teams[k.e] \ k.teams THEN want'.tools[q][k.e] ELSE {}
        BY <3>3, <4>1
      <4>4. k.at \in {"clear", "insert"} /\ k.at # "clear"
        BY <4>1
      <4>. QED BY <4>2, <4>3, <4>4 DEF PartClone
    <3>. QED BY <1>4, <3>8 DEF Sound, Part
  <2>. QED BY <1>1, <1>2, <1>3, <2>1, <2>2, WriteStep DEF Sound
<1>5. CASE edit[a].kind # "clone"
  <2>1. Shape(k)'
    BY <1>2, <1>5 DEF Shape, GrantShape
  <2>2. ASSUME Part(edit[a]) PROVE Sound(k)'
    <3>0. PartGrant(edit[a])
      BY <1>2, <1>5, <2>2 DEF Part
    <3>1. X \cup k.tools = edit[a].pick \cap edit[a].rows[edit[a].e].tools
      BY <1>2, <1>5, <2>2 DEF Part, Aim
    <3>2. PartGrant(k)'
      <4>1. /\ k.into = k.e /\ k.e = edit[a].e /\ k.t = edit[a].t /\ k.kind = edit[a].kind
            /\ UNCHANGED <<endpoint, want>>
        BY <1>2, <1>5
      <4>2. \A d \in Endpoints : endpoint[d].teams =
              IF d = k.e THEN IF k.kind = "grant" THEN want.teams[d] \cup {k.t} ELSE want.teams[d] \ {k.t}
              ELSE want.teams[d]
        <5>1. \A d \in Endpoints : endpoint[d].teams =
                IF d = edit[a].e THEN IF edit[a].kind = "grant" THEN want.teams[d] \cup {edit[a].t}
                                      ELSE want.teams[d] \ {edit[a].t}
                ELSE want.teams[d]
          BY <3>0, Zenon DEF PartGrant
        <5>2. k.e = edit[a].e /\ k.t = edit[a].t /\ k.kind = edit[a].kind
          BY <4>1
        <5>. QED BY ONLY <5>1, <5>2
      <4>3. \A q \in Teams, d \in Endpoints : q # k.t \/ d # k.e => subset[q][d] = want.tools[q][d]
        BY <3>0, <4>1 DEF PartGrant
      <4>4. \A q \in Teams, d \in Endpoints : q # k.t \/ d # k.e => subset'[q][d] = want'.tools[q][d]
        BY <1>1, <1>2, <1>5, <4>1, <4>3
      <4>5. k.t \in Teams /\ k.e \in Endpoints /\ k.into = edit[a].into
        BY <1>2
      <4>6. subset'[k.t][k.e] = X
        BY <1>1, <4>1, <4>5
      <4>7. subset'[k.t][k.e] \cup k.tools = k.pick \cap k.rows[k.e].tools
        BY <3>1, <4>1, <4>6
      <4>8. \A d \in Endpoints : endpoint'[d].teams =
              IF d = k.e THEN IF k.kind = "grant" THEN want'.teams[d] \cup {k.t} ELSE want'.teams[d] \ {k.t}
              ELSE want'.teams[d]
        BY <4>1, <4>2
      <4>. QED BY <4>4, <4>7, <4>8, Zenon DEF PartGrant
    <3>. QED BY <1>2, <1>5, <3>2 DEF Sound, Part
  <2>. QED BY <1>1, <1>2, <1>3, <2>1, <2>2, WriteStep DEF Sound
<1>. QED BY <1>4, <1>5

LEMMA ClearSubsets ==
  ASSUME AdminInv, NEW a \in Admins, ClearSubset(a)
  PROVE  AdminInv'
<1>1. /\ edit[a].at = "clear" /\ Writes(a, FALSE) /\ UNCHANGED <<endpoint, team, member>>
      /\ subset' = [subset EXCEPT ![edit[a].t][edit[a].into] = {}]
      /\ IF edit[a].tools = {} THEN AfterSubset(a) ELSE Goes(a, Half(a, "insert")) /\ UNCHANGED want
  BY DEF ClearSubset, ClearsSubset
<1>2. Part(edit[a]) => edit[a].tools = Aim(edit[a])
  <2>1. CASE edit[a].kind = "clone"
    BY <1>1, <2>1 DEF Part, PartClone, Aim
  <2>2. CASE edit[a].kind # "clone"
    BY <1>1, <2>2, SubsetShape DEF GrantShape, Aim
  <2>. QED BY <2>1, <2>2
<1>3. CASE edit[a].tools = {}
  BY <1>1, <1>2, <1>3, SubsetDone
<1>4. CASE edit[a].tools # {}
  <2>1. PICK k \in EditRecords :
        /\ k = Half(a, "insert")
        /\ k.at = "insert" /\ k.wrote = TRUE /\ k.kind = edit[a].kind /\ k.t = edit[a].t
        /\ k.e = edit[a].e /\ k.into = edit[a].into /\ k.pick = edit[a].pick
        /\ k.rows = edit[a].rows /\ k.teams = edit[a].teams /\ k.tools = edit[a].tools
    BY HalfFields, ZenonT(60) DEF AdminInv
  <2>2. PICK X \in SUBSET Tools : X = {}
    OBVIOUS
  <2>3. Part(edit[a]) => X \cup k.tools = Aim(edit[a])
    BY <1>2, <2>1, <2>2
  <2>4. Goes(a, k) /\ UNCHANGED want
        /\ subset' = [subset EXCEPT ![edit[a].t][edit[a].into] = X]
    BY <1>1, <1>4, <2>1, <2>2
  <2>. QED BY <1>1, <2>1, <2>3, <2>4, SubsetOn
<1>. QED BY <1>3, <1>4

LEMMA InsertSubsets ==
  ASSUME AdminInv, NEW a \in Admins, InsertSubset(a)
  PROVE  AdminInv'
<1>. DEFINE cell == subset[edit[a].t][edit[a].into]
<1>1. PICK x \in edit[a].tools :
        IF x \in cell
        THEN Answers(a) /\ Writes(a, TRUE) /\ UNCHANGED <<subset, want>>
        ELSE /\ subset' = [subset EXCEPT ![edit[a].t][edit[a].into] = @ \cup {x}]
             /\ IF edit[a].tools = {x} THEN AfterSubset(a)
                ELSE Goes(a, [Half(a, "insert") EXCEPT !.tools = @ \ {x}]) /\ UNCHANGED want
             /\ Writes(a, FALSE)
  BY DEF InsertSubset
<1>2. edit[a].at = "insert" /\ UNCHANGED <<endpoint, team, member>>
  BY DEF InsertSubset
<1>3. /\ edit[a].t \in Teams /\ edit[a].into \in Endpoints
      /\ edit[a].tools \in SUBSET Tools
      /\ subset \in [Teams -> [Endpoints -> SUBSET Tools]]
  BY <1>2, SubsetShape, EditFields DEF AdminInv, AccessTypes
<1>4. Part(edit[a]) => cell \cup edit[a].tools = Aim(edit[a])
  <2>1. CASE edit[a].kind = "clone"
    BY <1>2, <2>1 DEF Part, PartClone, Aim
  <2>2. CASE edit[a].kind # "clone"
    <3>1. edit[a].kind \in {"grant", "revoke"} /\ edit[a].into = edit[a].e
      BY <1>2, <2>2, SubsetShape
    <3>. QED BY <1>2, <2>2, <3>1 DEF Part, PartGrant, Aim
  <2>. QED BY <2>1, <2>2
<1>5. CASE x \in cell
  <2>1. Goes(a, NoEdit) /\ Writes(a, TRUE) /\ UNCHANGED <<subset, want, endpoint, member>>
    BY <1>1, <1>2, <1>5 DEF Answers
  <2>2. Unborn' /\ Shape(NoEdit)'
    BY <2>1 DEF AdminInv, Unborn, Shape
  <2>3. /\ endpoint' \in [Endpoints -> Rows] /\ member' \in SUBSET Teams
        /\ subset' \in [Teams -> [Endpoints -> SUBSET Tools]]
        /\ want' \in [teams : [Endpoints -> SUBSET Teams], tools : [Teams -> [Endpoints -> SUBSET Tools]]]
    BY <2>1 DEF AdminInv, AccessTypes
  <2>. QED BY <2>1, <2>2, <2>3, NoEditTyped, WriteStep
<1>6. CASE x \notin cell
  <2>. DEFINE X == cell \cup {x}
  <2>1. X \in SUBSET Tools
    BY <1>1, <1>3
  <2>2. subset' = [subset EXCEPT ![edit[a].t][edit[a].into] = X]
    BY <1>1, <1>6
  <2>3. CASE edit[a].tools = {x}
    <3>1. Part(edit[a]) => X = Aim(edit[a])
      BY <1>4, <2>3
    <3>2. AfterSubset(a) /\ Writes(a, FALSE)
      BY <1>1, <1>6, <2>3
    <3>. HIDE DEF X
    <3>. QED BY <1>2, <2>1, <2>2, <3>1, <3>2, SubsetDone
  <2>4. CASE edit[a].tools # {x}
    <3>1. PICK h \in EditRecords :
          /\ h = Half(a, "insert")
          /\ h.at = "insert" /\ h.wrote = TRUE /\ h.kind = edit[a].kind /\ h.t = edit[a].t
          /\ h.e = edit[a].e /\ h.into = edit[a].into /\ h.pick = edit[a].pick
          /\ h.rows = edit[a].rows /\ h.teams = edit[a].teams /\ h.tools = edit[a].tools
      BY HalfFields, ZenonT(60) DEF AdminInv
    <3>2. PICK k : k = [h EXCEPT !.tools = h.tools \ {x}]
      OBVIOUS
    <3>3. /\ k \in EditRecords
          /\ k.at = "insert" /\ k.wrote = TRUE /\ k.kind = edit[a].kind /\ k.t = edit[a].t
          /\ k.e = edit[a].e /\ k.into = edit[a].into /\ k.pick = edit[a].pick
          /\ k.rows = edit[a].rows /\ k.teams = edit[a].teams /\ k.tools = edit[a].tools \ {x}
      BY <3>1, <3>2 DEF EditRecords
    <3>4. Goes(a, k) /\ UNCHANGED want /\ Writes(a, FALSE)
      BY <1>1, <1>6, <2>4, <3>1, <3>2
    <3>5. Part(edit[a]) => X \cup k.tools = Aim(edit[a])
      BY <1>1, <1>4, <3>3
    <3>. HIDE DEF X
    <3>. QED BY <1>2, <2>1, <2>2, <3>3, <3>4, <3>5, SubsetOn
  <2>. QED BY <2>3, <2>4
<1>. QED BY <1>5, <1>6

LEMMA StripTeams ==
  ASSUME AdminInv, NEW a \in Admins, StripTeam(a)
  PROVE  AdminInv'
<1>1. /\ edit[a].kind = "deleteTeam" /\ edit[a].at = "strip" /\ edit[a].t \in Teams
      /\ UNCHANGED <<subset, team, member, want>>
  BY ShapeOf DEF AdminInv, StripTeam, EditAt, DeleteTeamShape
<1>2. PICK S \in SUBSET Endpoints : edit[a].rows \in [S -> Rows]
  BY EditFields DEF AdminInv, Copies
<1>3. PICK e \in S :
        /\ endpoint' = IF endpoint[e].state # "here" THEN endpoint
                       ELSE [endpoint EXCEPT ![e].teams = edit[a].rows[e].teams \ {edit[a].t}]
        /\ Writes(a, endpoint[e].teams # edit[a].rows[e].teams)
        /\ Goes(a, [Half(a, IF S \ {e} = {} THEN "members" ELSE "strip")
                      EXCEPT !.rows = [d \in S \ {e} |-> edit[a].rows[d]]])
  BY <1>2 DEF StripTeam
<1>4. /\ endpoint \in [Endpoints -> Rows] /\ e \in Endpoints /\ endpoint[e] \in Rows
      /\ edit[a].rows[e].teams \in SUBSET Teams
  BY <1>2, <1>3 DEF AdminInv, AccessTypes, Rows
<1>5. /\ endpoint' \in [Endpoints -> Rows]
      /\ \A d \in Endpoints : endpoint'[d].state = endpoint[d].state
      /\ \A d \in Endpoints \ {e} : endpoint'[d] = endpoint[d]
      /\ endpoint[e].state = "here" => endpoint'[e].teams = edit[a].rows[e].teams \ {edit[a].t}
      /\ endpoint[e].state # "here" => endpoint'[e] = endpoint[e]
  <2>. DEFINE row == [endpoint[e] EXCEPT !.teams = edit[a].rows[e].teams \ {edit[a].t}]
  <2>1. row \in Rows /\ row.state = endpoint[e].state /\ row.teams = edit[a].rows[e].teams \ {edit[a].t}
    BY <1>4 DEF Rows
  <2>2. endpoint' = IF endpoint[e].state # "here" THEN endpoint ELSE [endpoint EXCEPT ![e] = row]
    BY <1>3
  <2>. HIDE DEF row
  <2>. QED BY <1>4, <2>1, <2>2
<1>6. PICK at \in {"members", "strip"} : at = IF S \ {e} = {} THEN "members" ELSE "strip"
  OBVIOUS
<1>7. PICK h \in EditRecords :
        /\ h = Half(a, at)
        /\ h.at = at /\ h.wrote = TRUE /\ h.kind = edit[a].kind /\ h.t = edit[a].t
        /\ h.e = edit[a].e /\ h.into = edit[a].into /\ h.pick = edit[a].pick
        /\ h.rows = edit[a].rows /\ h.teams = edit[a].teams /\ h.tools = edit[a].tools
  <2>1. AccessTypes
    BY DEF AdminInv
  <2>2. CASE at = "members"
    <3>1. \E h \in EditRecords :
            /\ h = Half(a, "members")
            /\ h.at = "members" /\ h.wrote = TRUE /\ h.kind = edit[a].kind /\ h.t = edit[a].t
            /\ h.e = edit[a].e /\ h.into = edit[a].into /\ h.pick = edit[a].pick
            /\ h.rows = edit[a].rows /\ h.teams = edit[a].teams /\ h.tools = edit[a].tools
      BY <2>1, HalfFields, ZenonT(60)
    <3>. QED BY <2>2, <3>1
  <2>3. CASE at = "strip"
    <3>1. \E h \in EditRecords :
            /\ h = Half(a, "strip")
            /\ h.at = "strip" /\ h.wrote = TRUE /\ h.kind = edit[a].kind /\ h.t = edit[a].t
            /\ h.e = edit[a].e /\ h.into = edit[a].into /\ h.pick = edit[a].pick
            /\ h.rows = edit[a].rows /\ h.teams = edit[a].teams /\ h.tools = edit[a].tools
      BY <2>1, HalfFields, ZenonT(60)
    <3>. QED BY <2>3, <3>1
  <2>. QED BY <1>6, <2>2, <2>3
<1>8. PICK rows \in Copies : rows = [d \in S \ {e} |-> edit[a].rows[d]]
  <2>1. [d \in S \ {e} |-> edit[a].rows[d]] \in [S \ {e} -> Rows] /\ S \ {e} \in SUBSET Endpoints
    BY <1>2
  <2>. QED BY <2>1, CopiesOf
<1>9. PICK k : k = [h EXCEPT !.rows = rows]
  OBVIOUS
<1>10. /\ k \in EditRecords /\ k.at = at /\ k.wrote = TRUE /\ k.kind = "deleteTeam" /\ k.t = edit[a].t
  BY <1>1, <1>7, <1>9 DEF EditRecords
<1>11. Goes(a, k)
  BY <1>3, <1>6, <1>7, <1>8, <1>9
<1>12. Unborn'
  <2>1. \A d \in Endpoints : endpoint'[d].state = "never" => endpoint'[d] = endpoint[d]
    BY <1>5
  <2>. QED BY <1>1, <1>5, <2>1 DEF AdminInv, Unborn
<1>13. Shape(k)'
  BY <1>1, <1>10 DEF Shape, DeleteTeamShape
<1>14. ASSUME endpoint[e].teams = edit[a].rows[e].teams, Sound(edit[a]) PROVE Sound(k)'
  <2>1. /\ \A d \in Endpoints : endpoint[d].teams \ {k.t} = want.teams[d] \ {k.t}
        /\ \A q \in Teams, d \in Endpoints : q # k.t => subset[q][d] = want.tools[q][d]
    <3>1. CASE edit[a].wrote
      BY <1>1, <1>10, <1>14, <3>1 DEF Sound, Part, PartDeleteTeam
    <3>2. CASE ~edit[a].wrote
      BY <1>14, <3>2 DEF Sound, Match
    <3>. QED BY <3>1, <3>2
  <2>2. \A d \in Endpoints : endpoint'[d].teams \ {k.t} = endpoint[d].teams \ {k.t}
    BY <1>5, <1>10, <1>14
  <2>3. PartDeleteTeam(k)'
    BY <1>1, <1>10, <2>1, <2>2 DEF PartDeleteTeam
  <2>. QED BY <1>10, <2>3 DEF Sound, Part
<1>15. /\ member' \in SUBSET Teams /\ subset' \in [Teams -> [Endpoints -> SUBSET Tools]]
       /\ want' \in [teams : [Endpoints -> SUBSET Teams], tools : [Teams -> [Endpoints -> SUBSET Tools]]]
  BY <1>1 DEF AdminInv, AccessTypes
<1>. QED BY <1>3, <1>5, <1>10, <1>11, <1>12, <1>13, <1>14, <1>15, WriteStep

\* Steps that write members only.
LEMMA MembersStep ==
  ASSUME AdminInv, NEW a \in Admins, NEW k \in EditRecords, Goes(a, k), Writes(a, FALSE),
         UNCHANGED <<endpoint, subset, want>>, member' \in SUBSET Teams,
         Shape(k), Sound(edit[a]) => Sound(k)
  PROVE  AdminInv'
<1>1. Unborn'
  BY DEF AdminInv, Unborn
<1>2. Shape(k)'
  BY DEF Shape, GrantShape, DeleteTeamShape, MemberShape, DeleteEndpointShape, CloneShape
<1>3. Sound(k) => Sound(k)'
  BY PartStays DEF Sound
<1>4. /\ endpoint' \in [Endpoints -> Rows] /\ subset' \in [Teams -> [Endpoints -> SUBSET Tools]]
      /\ want' \in [teams : [Endpoints -> SUBSET Teams], tools : [Teams -> [Endpoints -> SUBSET Tools]]]
  BY DEF AdminInv, AccessTypes
<1>. QED BY <1>1, <1>2, <1>3, <1>4, WriteStep

LEMMA MemberSteps ==
  ASSUME AdminInv, NEW a \in Admins, DropMembers(a) \/ LeaveTeam(a) \/ JoinTeam(a)
  PROVE  AdminInv'
<1>1. CASE DropMembers(a)
  <2>1. /\ edit[a].kind = "deleteTeam" /\ edit[a].at = "members" /\ edit[a].t \in Teams
        /\ UNCHANGED <<endpoint, subset, want>> /\ member' \in SUBSET Teams
        /\ Goes(a, Half(a, "subsets")) /\ Writes(a, FALSE)
    BY <1>1, ShapeOf DEF AdminInv, AccessTypes, DropMembers, EditAt, DeleteTeamShape
  <2>2. PICK k \in EditRecords :
        /\ k = Half(a, "subsets")
        /\ k.at = "subsets" /\ k.wrote = TRUE /\ k.kind = edit[a].kind /\ k.t = edit[a].t
        /\ k.e = edit[a].e /\ k.into = edit[a].into /\ k.pick = edit[a].pick
        /\ k.rows = edit[a].rows /\ k.teams = edit[a].teams /\ k.tools = edit[a].tools
    BY HalfFields, ZenonT(60) DEF AdminInv
  <2>3. Shape(k)
    BY <2>1, <2>2 DEF Shape, DeleteTeamShape
  <2>4. Sound(edit[a]) => Sound(k)
    <3>1. CASE edit[a].wrote
      BY <2>1, <2>2, <3>1 DEF Sound, Part, PartDeleteTeam
    <3>2. CASE ~edit[a].wrote
      BY <2>1, <2>2, <3>2 DEF Sound, Part, PartDeleteTeam, Match
    <3>. QED BY <3>1, <3>2
  <2>. QED BY <2>1, <2>2, <2>3, <2>4, MembersStep
<1>2. CASE LeaveTeam(a)
  <2>1. /\ MemberShape(edit[a]) /\ edit[a].kind \in {"addMember", "removeMember"} /\ edit[a].at = "leave"
        /\ UNCHANGED <<endpoint, subset, want>> /\ member' \in SUBSET Teams
        /\ Writes(a, FALSE) /\ ~edit[a].wrote
    BY <1>2, ShapeOf DEF AdminInv, AccessTypes, LeaveTeam, MemberShape
  <2>2. CASE edit[a].kind = "addMember"
    <3>1. PICK k \in EditRecords :
          /\ k = Half(a, "join")
          /\ k.at = "join" /\ k.wrote = TRUE /\ k.kind = edit[a].kind /\ k.t = edit[a].t
          /\ k.e = edit[a].e /\ k.into = edit[a].into /\ k.pick = edit[a].pick
          /\ k.rows = edit[a].rows /\ k.teams = edit[a].teams /\ k.tools = edit[a].tools
      BY HalfFields, ZenonT(60) DEF AdminInv
    <3>2. Goes(a, k)
      BY <1>2, <2>2, <3>1 DEF LeaveTeam
    <3>3. Shape(k)
      BY <2>1, <2>2, <3>1 DEF Shape, MemberShape
    <3>4. Sound(edit[a]) => Sound(k)
      BY <2>1, <2>2, <3>1 DEF Sound, Part
    <3>. QED BY <2>1, <3>1, <3>2, <3>3, <3>4, MembersStep
  <2>3. CASE edit[a].kind # "addMember"
    <3>1. Goes(a, NoEdit)
      BY <1>2, <2>3 DEF LeaveTeam, Answers
    <3>2. Shape(NoEdit) /\ (Sound(edit[a]) => Sound(NoEdit))
      BY <2>1, NoEditTyped DEF Shape, Sound
    <3>. QED BY <2>1, <3>1, <3>2, NoEditTyped, MembersStep
  <2>. QED BY <2>2, <2>3
<1>3. CASE JoinTeam(a)
  <2>1. /\ MemberShape(edit[a]) /\ edit[a].kind = "addMember" /\ edit[a].at = "join"
        /\ UNCHANGED <<endpoint, subset, want>> /\ member' \in SUBSET Teams
        /\ Writes(a, FALSE) /\ Goes(a, NoEdit)
    BY <1>3, ShapeOf DEF AdminInv, AccessTypes, JoinTeam, EditAt, MemberShape, Answers
  <2>2. Shape(NoEdit) /\ (Sound(edit[a]) => Sound(NoEdit))
    BY <2>1, NoEditTyped DEF Shape, Sound, Part
  <2>. QED BY <2>1, <2>2, NoEditTyped, MembersStep
<1>. QED BY <1>1, <1>2, <1>3

LEMMA DropsTeam ==
  ASSUME AdminInv, NEW a \in Admins, DropSubsets(a) \/ DropTeam(a)
  PROVE  AdminInv'
<1>0. /\ endpoint \in [Endpoints -> Rows] /\ member \in SUBSET Teams
      /\ subset \in [Teams -> [Endpoints -> SUBSET Tools]]
      /\ want.teams \in [Endpoints -> SUBSET Teams]
      /\ want.tools \in [Teams -> [Endpoints -> SUBSET Tools]]
      /\ want \in [teams : [Endpoints -> SUBSET Teams], tools : [Teams -> [Endpoints -> SUBSET Tools]]]
  BY DEF AdminInv, AccessTypes
<1>1. CASE DropSubsets(a)
  <2>1. /\ edit[a].kind = "deleteTeam" /\ edit[a].at = "subsets" /\ edit[a].t \in Teams /\ edit[a].wrote
        /\ UNCHANGED <<endpoint, member, want>>
        /\ subset' = [subset EXCEPT ![edit[a].t] = [e \in Endpoints |-> {}]]
        /\ Goes(a, Half(a, "row")) /\ Writes(a, FALSE)
    BY <1>1, ShapeOf DEF AdminInv, DropSubsets, EditAt, DeleteTeamShape
  <2>2. PICK k \in EditRecords :
        /\ k = Half(a, "row")
        /\ k.at = "row" /\ k.wrote = TRUE /\ k.kind = edit[a].kind /\ k.t = edit[a].t
        /\ k.e = edit[a].e /\ k.into = edit[a].into /\ k.pick = edit[a].pick
        /\ k.rows = edit[a].rows /\ k.teams = edit[a].teams /\ k.tools = edit[a].tools
    BY HalfFields, ZenonT(60) DEF AdminInv
  <2>3. /\ subset' \in [Teams -> [Endpoints -> SUBSET Tools]]
        /\ \A q \in Teams, d \in Endpoints : subset'[q][d] = IF q = k.t THEN {} ELSE subset[q][d]
    BY <1>0, <2>1, <2>2
  <2>4. Unborn' /\ Shape(k)'
    BY <2>1, <2>2, <2>3 DEF AdminInv, Unborn, Shape, DeleteTeamShape
  <2>5. Sound(edit[a]) => Sound(k)'
    <3>1. Sound(edit[a]) => PartDeleteTeam(edit[a])
      BY <2>1 DEF Sound, Part
    <3>2. PartDeleteTeam(edit[a]) => PartDeleteTeam(k)'
      BY <2>1, <2>2, <2>3 DEF PartDeleteTeam
    <3>. QED BY <2>1, <2>2, <3>1, <3>2 DEF Sound, Part
  <2>. QED BY <1>0, <2>1, <2>2, <2>3, <2>4, <2>5, WriteStep
<1>2. CASE DropTeam(a)
  <2>. DEFINE stale == \E e \in Endpoints : edit[a].t \in endpoint[e].teams
              teams == [e \in Endpoints |-> want.teams[e] \ {edit[a].t}]
              tools == [want.tools EXCEPT ![edit[a].t] = [e \in Endpoints |-> {}]]
  <2>1. /\ edit[a].kind = "deleteTeam" /\ edit[a].at = "row" /\ edit[a].t \in Teams /\ edit[a].wrote
        /\ UNCHANGED <<endpoint, member, subset>>
        /\ want' = [teams |-> teams, tools |-> tools]
        /\ Goes(a, NoEdit) /\ Writes(a, stale)
    BY <1>2, ShapeOf DEF AdminInv, DropTeam, EditAt, DeleteTeamShape, Answers
  <2>2. /\ teams \in [Endpoints -> SUBSET Teams]
        /\ \A d \in Endpoints : teams[d] = want.teams[d] \ {edit[a].t}
        /\ tools \in [Teams -> [Endpoints -> SUBSET Tools]]
        /\ \A q \in Teams, d \in Endpoints : tools[q][d] = IF q = edit[a].t THEN {} ELSE want.tools[q][d]
    BY <1>0, <2>1
  <2>. HIDE DEF teams, tools
  <2>3. /\ want' \in [teams : [Endpoints -> SUBSET Teams], tools : [Teams -> [Endpoints -> SUBSET Tools]]]
        /\ want'.teams = teams /\ want'.tools = tools
    BY <2>1, <2>2
  <2>4. ASSUME ~stale, Sound(edit[a]) PROVE Sound(NoEdit)'
    <3>1. PartDeleteTeam(edit[a])
      BY <2>1, <2>4 DEF Sound, Part
    <3>2. \A d \in Endpoints : endpoint'[d].teams = want'.teams[d]
      <4>1. ASSUME NEW d \in Endpoints PROVE endpoint'[d].teams = want'.teams[d]
        <5>1. endpoint[d].teams \ {edit[a].t} = want.teams[d] \ {edit[a].t}
          BY <3>1 DEF PartDeleteTeam
        <5>2. edit[a].t \notin endpoint[d].teams
          BY <2>4
        <5>3. endpoint'[d].teams = endpoint[d].teams /\ want'.teams[d] = want.teams[d] \ {edit[a].t}
          BY <2>1, <2>2, <2>3
        <5>. QED BY <5>1, <5>2, <5>3
      <4>. QED BY <4>1
    <3>3. ASSUME NEW q \in Teams, NEW d \in Endpoints PROVE subset'[q][d] = want'.tools[q][d]
      <4>1. want'.tools[q][d] = IF q = edit[a].t THEN {} ELSE want.tools[q][d]
        BY <2>2, <2>3
      <4>2. subset[q][d] = IF q = edit[a].t THEN {} ELSE want.tools[q][d]
        BY <2>1, <3>1 DEF PartDeleteTeam
      <4>. QED BY <2>1, <4>1, <4>2
    <3>. QED BY <3>2, <3>3, NoEditTyped DEF Sound, Match
  <2>5. Unborn' /\ Shape(NoEdit)'
    BY <2>1 DEF AdminInv, Unborn, Shape
  <2>6. stale \in BOOLEAN
    OBVIOUS
  <2>. HIDE DEF stale
  <2>. QED BY <1>0, <2>1, <2>3, <2>4, <2>5, <2>6, NoEditTyped, WriteStep
<1>. QED BY <1>1, <1>2

LEMMA DropsEndpoint ==
  ASSUME AdminInv, NEW a \in Admins, DropGrants(a) \/ DropEndpoint(a)
  PROVE  AdminInv'
<1>0. /\ endpoint \in [Endpoints -> Rows] /\ member \in SUBSET Teams
      /\ subset \in [Teams -> [Endpoints -> SUBSET Tools]]
      /\ want.teams \in [Endpoints -> SUBSET Teams]
      /\ want.tools \in [Teams -> [Endpoints -> SUBSET Tools]]
      /\ want \in [teams : [Endpoints -> SUBSET Teams], tools : [Teams -> [Endpoints -> SUBSET Tools]]]
  BY DEF AdminInv, AccessTypes
<1>1. CASE DropGrants(a)
  <2>1. /\ edit[a].kind = "deleteEndpoint" /\ edit[a].at = "subsets" /\ edit[a].e \in Endpoints
        /\ ~edit[a].wrote
        /\ UNCHANGED <<endpoint, member, want>>
        /\ subset' = [t \in Teams |-> [subset[t] EXCEPT ![edit[a].e] = {}]]
        /\ Goes(a, Half(a, "row")) /\ Writes(a, FALSE)
    BY <1>1, ShapeOf DEF AdminInv, DropGrants, EditAt, DeleteEndpointShape
  <2>2. PICK k \in EditRecords :
        /\ k = Half(a, "row")
        /\ k.at = "row" /\ k.wrote = TRUE /\ k.kind = edit[a].kind /\ k.t = edit[a].t
        /\ k.e = edit[a].e /\ k.into = edit[a].into /\ k.pick = edit[a].pick
        /\ k.rows = edit[a].rows /\ k.teams = edit[a].teams /\ k.tools = edit[a].tools
    BY HalfFields, ZenonT(60) DEF AdminInv
  <2>3. /\ subset' \in [Teams -> [Endpoints -> SUBSET Tools]]
        /\ \A q \in Teams, d \in Endpoints : subset'[q][d] = IF d = k.e THEN {} ELSE subset[q][d]
    BY <1>0, <2>1, <2>2
  <2>4. Unborn' /\ Shape(k)'
    BY <2>1, <2>2, <2>3 DEF AdminInv, Unborn, Shape, DeleteEndpointShape
  <2>5. Match => Sound(k)'
    <3>1. Match => PartDeleteEndpoint(k)'
      BY <2>1, <2>2, <2>3 DEF Match, PartDeleteEndpoint
    <3>. QED BY <2>1, <2>2, <3>1 DEF Sound, Part
  <2>. QED BY <1>0, <2>1, <2>2, <2>3, <2>4, <2>5, WriteStep DEF Sound
<1>2. CASE DropEndpoint(a)
  <2>. DEFINE gone == Row("gone", NoForm)
              teams == [want.teams EXCEPT ![edit[a].e] = {}]
              tools == [t \in Teams |-> [want.tools[t] EXCEPT ![edit[a].e] = {}]]
  <2>1. /\ edit[a].kind = "deleteEndpoint" /\ edit[a].at = "row" /\ edit[a].e \in Endpoints
        /\ edit[a].wrote
        /\ UNCHANGED <<subset, member>>
        /\ endpoint' = [endpoint EXCEPT ![edit[a].e] = gone]
        /\ want' = [teams |-> teams, tools |-> tools]
        /\ Goes(a, NoEdit) /\ Writes(a, FALSE)
    BY <1>2, ShapeOf DEF AdminInv, DropEndpoint, EditAt, DeleteEndpointShape, Answers
  <2>2. gone \in Rows /\ gone.teams = {} /\ gone.state = "gone"
    BY DEF Row, NoForm, Rows
  <2>3. /\ teams \in [Endpoints -> SUBSET Teams]
        /\ \A d \in Endpoints : teams[d] = IF d = edit[a].e THEN {} ELSE want.teams[d]
        /\ tools \in [Teams -> [Endpoints -> SUBSET Tools]]
        /\ \A q \in Teams, d \in Endpoints : tools[q][d] = IF d = edit[a].e THEN {} ELSE want.tools[q][d]
    BY <1>0, <2>1
  <2>. HIDE DEF teams, tools, gone
  <2>4. /\ want' \in [teams : [Endpoints -> SUBSET Teams], tools : [Teams -> [Endpoints -> SUBSET Tools]]]
        /\ want'.teams = teams /\ want'.tools = tools
    BY <2>1, <2>3
  <2>5. /\ endpoint' \in [Endpoints -> Rows] /\ endpoint'[edit[a].e] = gone
        /\ \A d \in Endpoints : d # edit[a].e => endpoint'[d] = endpoint[d]
    BY <1>0, <2>1, <2>2
  <2>6. Sound(edit[a]) => Sound(NoEdit)'
    <3>1. Sound(edit[a]) => PartDeleteEndpoint(edit[a])
      BY <2>1 DEF Sound, Part
    <3>2. ASSUME PartDeleteEndpoint(edit[a]) PROVE Match'
      <4>1. ASSUME NEW d \in Endpoints PROVE endpoint'[d].teams = want'.teams[d]
        BY <2>2, <2>3, <2>4, <2>5, <3>2 DEF PartDeleteEndpoint
      <4>2. ASSUME NEW q \in Teams, NEW d \in Endpoints PROVE subset'[q][d] = want'.tools[q][d]
        <5>1. want'.tools[q][d] = IF d = edit[a].e THEN {} ELSE want.tools[q][d]
          BY <2>3, <2>4
        <5>. QED BY <2>1, <3>2, <5>1 DEF PartDeleteEndpoint
      <4>. QED BY <4>1, <4>2 DEF Match
    <3>. QED BY <3>1, <3>2, NoEditTyped DEF Sound
  <2>7. Unborn' /\ Shape(NoEdit)'
    BY <2>1, <2>2, <2>5 DEF AdminInv, Unborn, Shape
  <2>8. \A d \in Endpoints : endpoint'[d].state = "never" => endpoint[d].state = "never"
    BY <2>2, <2>5
  <2>. QED BY <1>0, <2>1, <2>4, <2>5, <2>6, <2>7, <2>8, NoEditTyped, WriteStep
<1>. QED BY <1>1, <1>2

LEMMA CloneRows ==
  ASSUME AdminInv, NEW a \in Admins, CloneRow(a)
  PROVE  AdminInv'
<1>. DEFINE e == edit[a].e
            vs == edit[a].rows[e]
            copy == [vs EXCEPT !.enabled = FALSE]
            stale == endpoint[e] # vs
<1>1. /\ CloneShape(edit[a]) /\ edit[a].kind = "clone" /\ edit[a].at = "copy" /\ ~edit[a].wrote
      /\ e \in Endpoints /\ vs \in Rows /\ vs.state = "here" /\ endpoint[e].state # "never"
      /\ UNCHANGED <<subset, member, want>> /\ Writes(a, stale)
  BY ShapeOf DEF AdminInv, CloneRow, EditAt, CloneShape
<1>2. PICK into \in Endpoints :
        /\ endpoint[into].state = "never"
        /\ endpoint' = [endpoint EXCEPT ![into] = copy]
        /\ IF vs.teams = {} THEN Answers(a)
           ELSE Goes(a, [Half(a, "copyNext") EXCEPT !.into = into, !.teams = vs.teams])
  BY DEF CloneRow
<1>3. /\ endpoint \in [Endpoints -> Rows] /\ endpoint[into].teams = {}
      /\ \A t \in Teams : subset[t][into] = {}
      /\ subset \in [Teams -> [Endpoints -> SUBSET Tools]] /\ member \in SUBSET Teams
      /\ want \in [teams : [Endpoints -> SUBSET Teams], tools : [Teams -> [Endpoints -> SUBSET Tools]]]
  BY <1>2 DEF AdminInv, AccessTypes, Unborn
<1>4. copy \in Rows /\ copy.teams = vs.teams /\ copy.state = "here" /\ vs.teams \in SUBSET Teams
  BY <1>1 DEF Rows
<1>. HIDE DEF copy
<1>5. /\ endpoint' \in [Endpoints -> Rows] /\ endpoint'[into] = copy
      /\ \A d \in Endpoints : d # into => endpoint'[d] = endpoint[d]
  BY <1>2, <1>3, <1>4
<1>6. Unborn'
  BY <1>1, <1>4, <1>5 DEF AdminInv, Unborn
<1>7. \A d \in Endpoints : endpoint'[d].state = "never" => endpoint[d].state = "never"
  BY <1>2, <1>5
<1>8. CASE vs.teams = {}
  <2>1. Goes(a, NoEdit) /\ Shape(NoEdit)'
    BY <1>2, <1>8 DEF Answers, Shape
  <2>2. Match => Match'
    <3>1. Match => want.teams[into] = {}
      BY <1>3 DEF Match
    <3>2. ASSUME Match, NEW d \in Endpoints PROVE endpoint'[d].teams = want'.teams[d]
      BY <1>1, <1>4, <1>5, <1>8, <3>1, <3>2 DEF Match
    <3>3. ASSUME Match, NEW q \in Teams, NEW d \in Endpoints PROVE subset'[q][d] = want'.tools[q][d]
      BY <1>1, <3>3 DEF Match
    <3>. QED BY <3>2, <3>3 DEF Match
  <2>3. Sound(edit[a]) => Sound(NoEdit)'
    BY <1>1, <2>2, NoEditTyped DEF Sound
  <2>. QED BY <1>1, <1>3, <1>5, <1>6, <1>7, <2>1, <2>3, NoEditTyped, WriteStep
<1>9. CASE vs.teams # {}
  <2>1. PICK h \in EditRecords :
        /\ h = Half(a, "copyNext")
        /\ h.at = "copyNext" /\ h.wrote = TRUE /\ h.kind = edit[a].kind /\ h.t = edit[a].t
        /\ h.e = edit[a].e /\ h.into = edit[a].into /\ h.pick = edit[a].pick
        /\ h.rows = edit[a].rows /\ h.teams = edit[a].teams /\ h.tools = edit[a].tools
    BY HalfFields, ZenonT(60) DEF AdminInv
  <2>2. PICK k : k = [h EXCEPT !.into = into, !.teams = vs.teams]
    OBVIOUS
  <2>3. /\ k \in EditRecords /\ k.at = "copyNext" /\ k.wrote = TRUE /\ k.kind = "clone"
        /\ k.e = edit[a].e /\ k.into = into /\ k.teams = vs.teams
    BY <1>1, <1>4, <2>1, <2>2 DEF EditRecords
  <2>4. Goes(a, k)
    BY <1>2, <1>9, <2>1, <2>2
  <2>5. into # edit[a].e
    BY <1>1, <1>2
  <2>6. Shape(k)'
    BY <1>4, <1>5, <2>3, <2>5, <1>9, <1>1 DEF Shape, CloneShape
  <2>7. ASSUME ~stale, Match PROVE Sound(k)'
    <3>1. into # k.e /\ endpoint[k.e].teams = vs.teams /\ want.teams[k.e] = vs.teams
      BY <1>1, <2>3, <2>5, <2>7 DEF Match
    <3>2. ASSUME NEW d \in Endpoints
          PROVE  endpoint'[d].teams = IF d = k.into THEN want'.teams[k.e] ELSE want'.teams[d]
      BY <1>1, <1>4, <1>5, <2>3, <2>7, <3>1 DEF Match
    <3>3. ASSUME NEW q \in Teams, NEW d \in Endpoints PROVE subset'[q][d] = want'.tools[q][d]
      BY <1>1, <2>7 DEF Match
    <3>4. \A q \in Teams : subset'[q][k.into] = {}
      BY <1>1, <1>3, <2>3
    <3>5. k.teams = want'.teams[k.e]
      BY <1>1, <2>3, <3>1
    <3>6. PartClone(k)'
      BY <2>3, <3>2, <3>3, <3>4, <3>5 DEF PartClone
    <3>. QED BY <2>3, <3>6 DEF Sound, Part
  <2>8. ~access.damaged /\ ~stale /\ Sound(edit[a]) => Sound(k)'
    BY <1>1, <2>7 DEF Sound
  <2>. HIDE DEF stale
  <2>9. stale \in BOOLEAN
    BY DEF stale
  <2>. QED BY <1>1, <1>3, <1>5, <1>6, <1>7, <2>3, <2>4, <2>6, <2>8, <2>9, WriteStep
<1>. QED BY <1>8, <1>9

\* A half-written edit goes on, or ends, without a write of rows.
LEMMA GrantStep ==
  ASSUME AdminInv, NEW a \in Admins, edit[a].wrote, NEW k \in EditRecords, Goes(a, k),
         UNCHANGED <<endpoint, subset, team, member, use, access>>,
         want' \in [teams : [Endpoints -> SUBSET Teams], tools : [Teams -> [Endpoints -> SUBSET Tools]]],
         Shape(k), Part(edit[a]) => Sound(k)'
  PROVE  AdminInv'
<1>1. edit'[a] = k /\ \A b \in Admins \ {a} : edit'[b] = edit[b]
  BY GoesOn DEF AdminInv
<1>2. AccessTypes'
  BY GoesTyped DEF AdminInv, AccessTypes
<1>3. Unborn'
  BY DEF AdminInv, Unborn
<1>4. Shape(k)'
  BY DEF Shape, GrantShape, DeleteTeamShape, MemberShape, DeleteEndpointShape, CloneShape
<1>5. Shapes'
  BY <1>1, <1>4, ShapesStep DEF AdminInv
<1>6. Sound(edit[a]) => Sound(edit[a])'
  BY <1>1 DEF Sound
<1>7. ~access.damaged => \A b \in Admins \ {a} : ~edit[b].wrote
  BY DEF AdminInv, Rightful
<1>8. Rightful'
  BY <1>1, <1>6, <1>7, RightfulStep DEF AdminInv
<1>. QED BY <1>2, <1>3, <1>5, <1>8 DEF AdminInv

LEMMA CloneSubsets ==
  ASSUME AdminInv, NEW a \in Admins, CloneSubset(a)
  PROVE  AdminInv'
<1>1. /\ CloneShape(edit[a]) /\ edit[a].kind = "clone" /\ edit[a].at = "copyNext" /\ edit[a].wrote
      /\ edit[a].e \in Endpoints /\ edit[a].into \in Endpoints /\ edit[a].into # edit[a].e
      /\ endpoint[edit[a].into].state # "never"
      /\ UNCHANGED <<endpoint, subset, team, member, use, access>>
  BY ShapeOf DEF AdminInv, CloneSubset, EditAt, CloneShape
<1>2. PICK t \in edit[a].teams :
        LET s == subset[t][edit[a].e]
            k2 == [edit[a] EXCEPT !.t = t, !.teams = @ \ {t}, !.tools = s]
        IN CASE s # {} -> Goes(a, [k2 EXCEPT !.at = "clear"]) /\ UNCHANGED want
             [] s = {} /\ k2.teams # {} -> Goes(a, k2) /\ UNCHANGED want
             [] OTHER -> Answers(a) /\ want' = Granted(a)
  BY DEF CloneSubset
<1>3. PICK s : s = subset[t][edit[a].e]
  OBVIOUS
<1>4. /\ edit[a] \in EditRecords /\ edit[a].teams \in SUBSET Teams /\ t \in Teams
      /\ s \in SUBSET Tools
      /\ want \in [teams : [Endpoints -> SUBSET Teams], tools : [Teams -> [Endpoints -> SUBSET Tools]]]
  <2>1. /\ edit[a] \in EditRecords /\ edit[a].teams \in SUBSET Teams
        /\ subset \in [Teams -> [Endpoints -> SUBSET Tools]]
        /\ want \in [teams : [Endpoints -> SUBSET Teams], tools : [Teams -> [Endpoints -> SUBSET Tools]]]
    BY EditFields DEF AdminInv, AccessTypes
  <2>2. t \in Teams
    BY <1>2, <2>1
  <2>3. s \in SUBSET Tools
    BY <1>1, <1>3, <2>1, <2>2
  <2>. QED BY <2>1, <2>2, <2>3
<1>5. PICK k2 : k2 = [edit[a] EXCEPT !.t = t, !.teams = edit[a].teams \ {t}, !.tools = s]
  OBVIOUS
<1>6. /\ k2 \in EditRecords /\ k2.kind = "clone" /\ k2.at = "copyNext" /\ k2.wrote
      /\ k2.e = edit[a].e /\ k2.into = edit[a].into /\ k2.t = t
      /\ k2.teams = edit[a].teams \ {t} /\ k2.tools = s
  BY <1>1, <1>4, <1>5 DEF EditRecords
<1>7. /\ s # {} => Goes(a, [k2 EXCEPT !.at = "clear"]) /\ UNCHANGED want
      /\ s = {} /\ k2.teams # {} => Goes(a, k2) /\ UNCHANGED want
      /\ s = {} /\ k2.teams = {} => Answers(a) /\ want' = Granted(a)
  BY <1>2, <1>3, <1>5
<1>8. ASSUME Part(edit[a])
      PROVE  /\ \A d \in Endpoints : endpoint[d].teams =
                  IF d = edit[a].into THEN want.teams[edit[a].e] ELSE want.teams[d]
             /\ \A q \in Teams, d \in Endpoints : d # edit[a].into => subset[q][d] = want.tools[q][d]
             /\ \A q \in Teams : subset[q][edit[a].into] =
                  IF q \in want.teams[edit[a].e] \ edit[a].teams THEN want.tools[q][edit[a].e] ELSE {}
             /\ edit[a].teams \subseteq want.teams[edit[a].e]
             /\ s = want.tools[t][edit[a].e]
  <2>1. PartClone(edit[a]) /\ edit[a].at \notin {"clear", "insert"}
    BY <1>1, <1>8 DEF Part
  <2>2. \A d \in Endpoints : endpoint[d].teams =
          IF d = edit[a].into THEN want.teams[edit[a].e] ELSE want.teams[d]
    BY <2>1, Zenon DEF PartClone
  <2>3. \A q \in Teams, d \in Endpoints : d # edit[a].into => subset[q][d] = want.tools[q][d]
    BY <2>1, Zenon DEF PartClone
  <2>4. \A q \in Teams : subset[q][edit[a].into] =
          IF q \in want.teams[edit[a].e] \ edit[a].teams THEN want.tools[q][edit[a].e] ELSE {}
    BY <2>1, Zenon DEF PartClone
  <2>5. edit[a].teams \subseteq want.teams[edit[a].e]
    BY <2>1 DEF PartClone
  <2>6. s = want.tools[t][edit[a].e]
    BY <1>1, <1>3, <1>4, <2>3
  <2>. QED BY <2>2, <2>3, <2>4, <2>5, <2>6
<1>9. CASE s # {}
  <2>1. PICK k : k = [k2 EXCEPT !.at = "clear"]
    OBVIOUS
  <2>2. /\ k \in EditRecords /\ k.kind = "clone" /\ k.at = "clear" /\ k.wrote
        /\ k.e = edit[a].e /\ k.into = edit[a].into /\ k.t = t
        /\ k.teams = edit[a].teams \ {t} /\ k.tools = s
    BY <1>6, <2>1 DEF EditRecords
  <2>3. Goes(a, k) /\ UNCHANGED want
    BY <1>7, <1>9, <2>1
  <2>4. Shape(k)
    BY <1>1, <1>4, <2>2 DEF Shape, CloneShape
  <2>5. ASSUME Part(edit[a]) PROVE Sound(k)'
    <3>1. /\ \A d \in Endpoints : endpoint'[d].teams = IF d = k.into THEN want'.teams[k.e] ELSE want'.teams[d]
          /\ \A q \in Teams, d \in Endpoints : d # k.into => subset'[q][d] = want'.tools[q][d]
          /\ k.tools = want'.tools[k.t][k.e]
      BY <1>1, <1>8, <2>2, <2>3, <2>5
    <3>2. k.teams \subseteq want'.teams[k.e] /\ k.t \in want'.teams[k.e] \ k.teams
      BY <1>8, <2>2, <2>3, <2>5
    <3>3. \A q \in Teams : q = k.t \/ subset'[q][k.into] =
            IF q \in want'.teams[k.e] \ k.teams THEN want'.tools[q][k.e] ELSE {}
      BY <1>1, <1>8, <2>2, <2>3, <2>5
    <3>4. PartClone(k)'
      BY <2>2, <3>1, <3>2, <3>3 DEF PartClone
    <3>. QED BY <2>2, <3>4 DEF Sound, Part
  <2>6. want' \in [teams : [Endpoints -> SUBSET Teams], tools : [Teams -> [Endpoints -> SUBSET Tools]]]
    BY <1>4, <2>3
  <2>. QED BY <1>1, <2>2, <2>3, <2>4, <2>5, <2>6, GrantStep
<1>10. CASE s = {} /\ k2.teams # {}
  <2>1. Goes(a, k2) /\ UNCHANGED want
    BY <1>7, <1>10
  <2>2. Shape(k2)
    BY <1>1, <1>6, <1>10 DEF Shape, CloneShape
  <2>3. ASSUME Part(edit[a]) PROVE Sound(k2)'
    <3>1. /\ \A d \in Endpoints : endpoint'[d].teams = IF d = k2.into THEN want'.teams[k2.e] ELSE want'.teams[d]
          /\ \A q \in Teams, d \in Endpoints : d # k2.into => subset'[q][d] = want'.tools[q][d]
          /\ k2.teams \subseteq want'.teams[k2.e]
      BY <1>1, <1>6, <1>8, <2>1, <2>3
    <3>2. ASSUME NEW q \in Teams
          PROVE  subset'[q][k2.into] =
                   IF q \in want'.teams[k2.e] \ k2.teams THEN want'.tools[q][k2.e] ELSE {}
      <4>1. subset[q][edit[a].into] =
              IF q \in want.teams[edit[a].e] \ edit[a].teams THEN want.tools[q][edit[a].e] ELSE {}
        BY <1>8, <2>3
      <4>2. q = t => want.tools[q][edit[a].e] = {}
        BY <1>8, <1>10, <2>3
      <4>3. q # t => (q \in k2.teams <=> q \in edit[a].teams)
        BY <1>6
      <4>4. t \in edit[a].teams
        BY <1>2
      <4>. QED BY <1>1, <1>6, <2>1, <4>1, <4>2, <4>3, <4>4
    <3>3. PartClone(k2)'
      BY <1>6, <3>1, <3>2 DEF PartClone
    <3>. QED BY <1>6, <3>3 DEF Sound, Part
  <2>4. want' \in [teams : [Endpoints -> SUBSET Teams], tools : [Teams -> [Endpoints -> SUBSET Tools]]]
    BY <1>4, <2>1
  <2>. QED BY <1>1, <1>6, <2>1, <2>2, <2>3, <2>4, GrantStep
<1>11. CASE s = {} /\ k2.teams = {}
  <2>1. Goes(a, NoEdit) /\ want' = Granted(a) /\ Shape(NoEdit)
    BY <1>7, <1>11 DEF Answers, Shape
  <2>2. /\ want' \in [teams : [Endpoints -> SUBSET Teams], tools : [Teams -> [Endpoints -> SUBSET Tools]]]
        /\ \A d \in Endpoints : want'.teams[d] =
             IF d = edit[a].into THEN want.teams[edit[a].e] ELSE want.teams[d]
        /\ \A q \in Teams, d \in Endpoints : want'.tools[q][d] =
             IF d = edit[a].into THEN IF q \in want.teams[edit[a].e] THEN want.tools[q][edit[a].e] ELSE {}
             ELSE want.tools[q][d]
    <3>1. EditAt(a, "clone", "copyNext")
      BY <1>1 DEF EditAt
    <3>2. /\ Granted(a) \in [teams : [Endpoints -> SUBSET Teams], tools : [Teams -> [Endpoints -> SUBSET Tools]]]
          /\ \A d \in Endpoints : Granted(a).teams[d] =
               IF d = edit[a].into THEN want.teams[edit[a].e] ELSE want.teams[d]
          /\ \A q \in Teams, d \in Endpoints : Granted(a).tools[q][d] =
               IF d = edit[a].into THEN IF q \in want.teams[edit[a].e] THEN want.tools[q][edit[a].e] ELSE {}
               ELSE want.tools[q][d]
      BY <1>1, <3>1, GrantedBy, Zenon
    <3>. QED BY <2>1, <3>2, Zenon
  <2>3. ASSUME Part(edit[a]) PROVE Sound(NoEdit)'
    <3>1. \A d \in Endpoints : endpoint'[d].teams = want'.teams[d]
      BY <1>1, <1>8, <2>2, <2>3
    <3>2. \A q \in edit[a].teams : q = t
      BY <1>6, <1>11
    <3>3. ASSUME NEW q \in Teams, NEW d \in Endpoints PROVE subset'[q][d] = want'.tools[q][d]
      <4>1. CASE d = edit[a].into
        <5>1. subset[q][edit[a].into] =
                IF q \in want.teams[edit[a].e] \ edit[a].teams THEN want.tools[q][edit[a].e] ELSE {}
          BY <1>8, <2>3
        <5>2. q = t => want.tools[q][edit[a].e] = {}
          BY <1>8, <1>11, <2>3
        <5>3. q \in edit[a].teams => q = t
          BY <3>2
        <5>4. want'.tools[q][d] = IF q \in want.teams[edit[a].e] THEN want.tools[q][edit[a].e] ELSE {}
          BY <2>2, <4>1
        <5>. QED BY <1>1, <4>1, <5>1, <5>2, <5>3, <5>4
      <4>2. CASE d # edit[a].into
        <5>1. subset[q][d] = want.tools[q][d]
          BY <1>8, <2>3, <4>2
        <5>2. want'.tools[q][d] = want.tools[q][d]
          BY <2>2, <4>2
        <5>. QED BY <1>1, <5>1, <5>2
      <4>. QED BY <4>1, <4>2
    <3>4. Match'
      BY <3>1, <3>3 DEF Match
    <3>. QED BY <3>4, NoEditTyped DEF Sound
  <2>. QED BY <1>1, <2>1, <2>2, <2>3, NoEditTyped, GrantStep
<1>. QED BY <1>9, <1>10, <1>11

LEMMA Saves ==
  ASSUME AdminInv, NEW a \in Admins, NEW e \in Endpoints, NEW form \in Forms, Save(a, e, form)
  PROVE  AdminInv'
<1>. DEFINE row == Row("here", form)
            teams == [want.teams EXCEPT ![e] = form.teams]
            mess == \E b \in Admins : edit[b].wrote
<1>1. /\ edit[a] = NoEdit /\ UNCHANGED <<subset, team, member, edit>>
      /\ endpoint' = [endpoint EXCEPT ![e] = row]
      /\ use' = [c \in Consumers |-> [use[c] EXCEPT !.calm = FALSE]]
  BY Idle DEF Save, AdminInv
<1>2. row \in Rows /\ row.state = "here" /\ row.teams = form.teams /\ form.teams \in SUBSET Teams
  BY AccessConstants DEF Row, Rows, PageForms
<1>3. endpoint \in [Endpoints -> Rows] /\ want.teams \in [Endpoints -> SUBSET Teams]
      /\ want.tools \in [Teams -> [Endpoints -> SUBSET Tools]]
  BY DEF AdminInv, AccessTypes
<1>4. want' = [teams |-> teams, tools |-> want.tools]
  BY DEF Save, AdminInv, AccessTypes
<1>5. /\ teams \in [Endpoints -> SUBSET Teams] /\ teams[e] = form.teams
      /\ \A d \in Endpoints : d # e => teams[d] = want.teams[d]
  BY <1>2, <1>3
<1>. HIDE DEF row, teams
<1>6. /\ want' \in [teams : [Endpoints -> SUBSET Teams], tools : [Teams -> [Endpoints -> SUBSET Tools]]]
      /\ want'.teams = teams /\ want'.tools = want.tools
  BY <1>3, <1>4, <1>5
<1>7. /\ endpoint' \in [Endpoints -> Rows] /\ endpoint'[e] = row
      /\ \A d \in Endpoints : d # e => endpoint'[d] = endpoint[d]
  BY <1>1, <1>2, <1>3
<1>8. /\ access' \in [start : Access, edits : Nat, stops : Nat, damaged : BOOLEAN]
      /\ access'.damaged = (access.damaged \/ mess)
  <2>1. access \in [start : Access, edits : Nat, stops : Nat, damaged : BOOLEAN]
    BY DEF AdminInv, AccessTypes
  <2>2. mess \in BOOLEAN
    OBVIOUS
  <2>3. access' = [access EXCEPT !.edits = @ + 1, !.damaged = @ \/ mess]
    BY DEF Save
  <2>. HIDE DEF mess
  <2>4. access'.start \in Access /\ access'.edits \in Nat /\ access'.stops \in Nat
    BY <2>1, <2>3
  <2>5. access'.damaged \in BOOLEAN /\ access'.damaged = (access.damaged \/ mess)
    BY <2>1, <2>2, <2>3
  <2>6. access' = [start |-> access'.start, edits |-> access'.edits, stops |-> access'.stops,
                   damaged |-> access'.damaged]
    BY <2>1, <2>3
  <2>. QED BY <2>4, <2>5, <2>6
<1>9. use' \in [Consumers -> UseRecords]
  <2>1. ASSUME NEW u \in UseRecords PROVE [u EXCEPT !.calm = FALSE] \in UseRecords
    BY DEF UseRecords
  <2>. QED BY <1>1, <2>1 DEF AdminInv, AccessTypes
<1>10. AccessTypes'
  BY <1>1, <1>6, <1>7, <1>8, <1>9 DEF AdminInv, AccessTypes
<1>11. Unborn'
  BY <1>1, <1>2, <1>7 DEF AdminInv, Unborn
<1>12. Shapes'
  <2>1. Shape(edit[a])'
    BY <1>1 DEF Shape
  <2>2. \A d \in Endpoints : endpoint'[d].state = "never" => endpoint[d].state = "never"
    BY <1>2, <1>7
  <2>. QED BY <1>1, <2>1, <2>2, ShapesStep DEF AdminInv
<1>13. Match => Match'
  <2>1. ASSUME Match, NEW d \in Endpoints PROVE endpoint'[d].teams = want'.teams[d]
    BY <1>2, <1>5, <1>6, <1>7, <2>1 DEF Match
  <2>2. ASSUME Match, NEW t \in Teams, NEW d \in Endpoints PROVE subset'[t][d] = want'.tools[t][d]
    BY <1>1, <1>6, <2>2 DEF Match
  <2>. QED BY <2>1, <2>2 DEF Match
<1>14. Rightful'
  BY <1>1, <1>8, <1>13 DEF AdminInv, Rightful
<1>. QED BY <1>10, <1>11, <1>12, <1>14 DEF AdminInv

LEMMA StopsStep ==
  ASSUME AdminInv, NEW a \in Admins, Stops(a)
  PROVE  AdminInv'
<1>1. /\ Goes(a, NoEdit) /\ UNCHANGED <<endpoint, subset, team, member, use, want>>
      /\ access' = [access EXCEPT !.stops = @ + 1, !.damaged = @ \/ edit[a].wrote]
  BY DEF Stops, Answers
<1>2. edit'[a] = NoEdit /\ \A b \in Admins \ {a} : edit'[b] = edit[b]
  BY <1>1, GoesOn DEF AdminInv
<1>3. /\ access' \in [start : Access, edits : Nat, stops : Nat, damaged : BOOLEAN]
      /\ access'.damaged = (access.damaged \/ edit[a].wrote)
  <2>1. access \in [start : Access, edits : Nat, stops : Nat, damaged : BOOLEAN]
    BY DEF AdminInv, AccessTypes
  <2>2. edit[a].wrote \in BOOLEAN
    BY EditFields DEF AdminInv
  <2>3. access' = [access EXCEPT !.stops = @ + 1, !.damaged = @ \/ edit[a].wrote]
    BY <1>1
  <2>4. access'.start \in Access /\ access'.edits \in Nat /\ access'.stops \in Nat
    BY <2>1, <2>3
  <2>5. access'.damaged \in BOOLEAN /\ access'.damaged = (access.damaged \/ edit[a].wrote)
    BY <2>1, <2>2, <2>3
  <2>6. access' = [start |-> access'.start, edits |-> access'.edits, stops |-> access'.stops,
                   damaged |-> access'.damaged]
    BY <2>1, <2>3
  <2>. QED BY <2>4, <2>5, <2>6
<1>4. AccessTypes'
  BY <1>1, <1>3, NoEditTyped, GoesTyped DEF AdminInv, AccessTypes
<1>5. Unborn'
  BY <1>1 DEF AdminInv, Unborn
<1>6. Shapes'
  BY <1>1, <1>2, ShapesStep DEF AdminInv, Shape
<1>7. Sound(edit[a]) => access'.damaged \/ Sound(edit[a])'
  BY <1>1, <1>2, <1>3, NoEditTyped, PartStays DEF Sound
<1>8. Rightful'
  BY <1>1, <1>2, <1>3, <1>7, NoEditTyped, RightfulStep DEF AdminInv
<1>. QED BY <1>4, <1>5, <1>6, <1>8 DEF AdminInv

\* Whatever an administrator's request does, the rows say what the edits that
\* ended have granted, unless one damaged another.
LEMMA AdminStep ==
  ASSUME AdminInv, NEW a \in Admins, Administer(a)
  PROVE  AdminInv'
<1>0. {} \in SUBSET Tools
  OBVIOUS
<1>1. ASSUME NEW t \in Teams, DeleteTeam(a, t) \/ AddMember(a, t) \/ RemoveMember(a, t)
      PROVE  AdminInv'
  BY <1>0, <1>1, Opens
<1>2. ASSUME NEW t \in Teams, NEW e \in Endpoints, Grant(a, t, e, "revoke", {}) PROVE AdminInv'
  BY <1>0, <1>2, Opens
<1>3. ASSUME NEW t \in Teams, NEW e \in Endpoints, NEW pick \in SUBSET Tools, Grant(a, t, e, "grant", pick)
      PROVE  AdminInv'
  BY <1>3, Opens
<1>4. ASSUME NEW e \in Endpoints, DeleteEndpoint(a, e) \/ Clone(a, e) PROVE AdminInv'
  BY <1>0, <1>4, Opens
<1>5. ASSUME NEW e \in Endpoints, NEW form \in Forms, Save(a, e, form) PROVE AdminInv'
  BY <1>5, Saves
<1>. QED BY <1>1, <1>2, <1>3, <1>4, <1>5, SilentSteps, GrantUpdates, ClearSubsets, InsertSubsets,
            StripTeams, MemberSteps, DropsTeam, DropsEndpoint, CloneRows, CloneSubsets, StopsStep
         DEF Administer

-------------------------------------------------------------------------------
LEMMA InitAccess == ASSUME AccessInit PROVE AccessInv
<1>1. PICK start \in Access : access = [start |-> start, edits |-> 0, stops |-> 0, damaged |-> FALSE]
  BY DEF AccessInit
<1>2. /\ start.endpoint \in [Endpoints -> Rows] /\ start.member \in SUBSET Teams
      /\ start.subset \in [Teams -> [Endpoints -> SUBSET Tools]]
      /\ \A e \in Endpoints : start.endpoint[e].state = "never" =>
           start.endpoint[e].teams = {} /\ \A t \in Teams : start.subset[t][e] = {}
  BY AccessConstants
<1>3. /\ endpoint = start.endpoint /\ subset = start.subset /\ member = start.member
      /\ use = [c \in Consumers |-> NoUse] /\ edit = [a \in Admins |-> NoEdit]
      /\ want = [teams |-> [e \in Endpoints |-> endpoint[e].teams], tools |-> subset]
  BY <1>1 DEF AccessInit
<1>4. access \in [start : Access, edits : Nat, stops : Nat, damaged : BOOLEAN]
  BY <1>1
<1>5. NoUse \in UseRecords /\ NoUse.at = "idle" /\ NoUse.ask = {} /\ NoUse.open = {} /\ NoUse.some = {}
  <2>1. NoRows \in Copies
    BY NoRowsTyped
  <2>. HIDE DEF NoRows, Copies
  <2>. QED BY <2>1 DEF NoUse, UseRecords
<1>6. /\ want \in [teams : [Endpoints -> SUBSET Teams], tools : [Teams -> [Endpoints -> SUBSET Tools]]]
      /\ \A e \in Endpoints : want.teams[e] = endpoint[e].teams
      /\ want.tools = subset
  <2>1. [e \in Endpoints |-> endpoint[e].teams] \in [Endpoints -> SUBSET Teams]
    BY <1>2, <1>3 DEF Rows
  <2>. QED BY <1>2, <1>3, <2>1
<1>7. AccessTypes
  BY <1>2, <1>3, <1>4, <1>5, <1>6, NoEditTyped DEF AccessTypes
<1>8. Unborn /\ Shapes
  BY <1>2, <1>3 DEF Unborn, Shapes, Shape
<1>9. Match
  BY <1>6 DEF Match
<1>10. \A a \in Admins : ~edit[a].wrote
  BY <1>3, NoEditTyped
<1>11. Rightful
  BY <1>9, <1>10 DEF Rightful
<1>12. Readers
  BY <1>3, <1>5 DEF Readers, Reading, Calm
<1>. QED BY <1>7, <1>8, <1>11, <1>12 DEF AccessInv

\* Where nothing is written, what a consumer has found out stays true.
LEMMA ReadingStays ==
  ASSUME NEW u, UNCHANGED <<endpoint, subset>>, access'.start = access.start, Settled => Settled'
  PROVE  (Reading(u) => Reading(u)') /\ (Calm(u) => Calm(u)')
<1>1. Reading(u)' = Reading(u)
  BY DEF Reading
<1>2. Seen(u)' = Seen(u)
  BY DEF Seen, Serves, MayConsume
<1>3. Listed(u)' = Listed(u)
  BY DEF Listed, Serves, MayConsume
<1>4. Asked(u)' = Asked(u)
  BY DEF Asked, Granting
<1>. HIDE DEF Reading, Seen, Listed, Asked, Settled
<1>. QED BY <1>1, <1>2, <1>3, <1>4 DEF Calm, Found

RestStays == UNCHANGED <<endpoint, subset, team, member, edit, want, access>>

LEMMA RestStep ==
  ASSUME AccessInv, RestStays, use' \in [Consumers -> UseRecords],
         \A d \in Consumers : \E k : k = use'[d] /\ Reading(k) /\ Calm(k)
  PROVE  AccessInv'
<1>1. AccessTypes'
  BY DEF AccessInv, AccessTypes, RestStays
<1>2. Unborn'
  BY DEF AccessInv, Unborn, RestStays
<1>3. ASSUME NEW a \in Admins PROVE Shape(edit[a])'
  <2>1. PICK k : k = edit[a]
    OBVIOUS
  <2>2. Shape(k) /\ k = edit'[a]
    BY <2>1 DEF AccessInv, Shapes, RestStays
  <2>3. Shape(k)'
    BY <2>2 DEF Shape, GrantShape, DeleteTeamShape, MemberShape, DeleteEndpointShape, CloneShape, RestStays
  <2>. QED BY <2>2, <2>3
<1>4. Rightful'
  <2>1. Match' = Match
    BY DEF Match, RestStays
  <2>2. ASSUME NEW a \in Admins, Part(edit[a]) PROVE Part(edit[a])'
    <3>1. PICK k : k = edit[a]
      OBVIOUS
    <3>2. Part(k)'
      BY <2>2, <3>1, PartStays DEF RestStays
    <3>. QED BY <3>1, <3>2 DEF RestStays
  <2>. QED BY <2>1, <2>2 DEF AccessInv, Rightful, RestStays
<1>5. Settled => Settled'
  BY DEF Settled, RestStays
<1>6. ASSUME NEW d \in Consumers PROVE Reading(use[d])' /\ Calm(use[d])'
  <2>1. PICK k : k = use'[d] /\ Reading(k) /\ Calm(k)
    OBVIOUS
  <2>2. Reading(k)' /\ Calm(k)'
    BY <1>5, <2>1, ReadingStays DEF RestStays
  <2>. QED BY <2>1, <2>2
<1>. QED BY <1>1, <1>2, <1>3, <1>4, <1>6 DEF AccessInv, Shapes, Readers

LEMMA ReadStep ==
  ASSUME AccessInv, NEW c \in Consumers, NEW u \in UseRecords, Uses(c, u), RestStays,
         Reading(u), Calm(u)
  PROVE  AccessInv'
<1>1. use' \in [Consumers -> UseRecords] /\ use'[c] = u
      /\ \A d \in Consumers : d # c => use'[d] = use[d]
  BY DEF AccessInv, AccessTypes, Uses
<1>2. ASSUME NEW d \in Consumers PROVE \E k : k = use'[d] /\ Reading(k) /\ Calm(k)
  <2>1. PICK k : k = IF d = c THEN u ELSE use[d]
    OBVIOUS
  <2>2. k = use'[d] /\ Reading(k) /\ Calm(k)
    BY <1>1, <2>1 DEF AccessInv, Readers
  <2>. QED BY <2>2
<1>. QED BY <1>1, <1>2, RestStep

LEMMA AccessStays == ASSUME AccessInv, UNCHANGED accessVars PROVE AccessInv'
<1>1. RestStays /\ use' \in [Consumers -> UseRecords]
  BY DEF accessVars, RestStays, AccessInv, AccessTypes
<1>2. ASSUME NEW d \in Consumers PROVE \E k : k = use'[d] /\ Reading(k) /\ Calm(k)
  <2>1. PICK k : k = use[d]
    OBVIOUS
  <2>2. k = use'[d] /\ Reading(k) /\ Calm(k)
    BY <2>1 DEF AccessInv, Readers, accessVars
  <2>. QED BY <2>2
<1>. QED BY <1>1, <1>2, RestStep

\* What the edits that ended have granted, where the rows say it: nothing to whom
\* may not consume the endpoint, else by the rows.
LEMMA DueByRows ==
  ASSUME AccessInv, Match, NEW e \in Endpoints, NEW T \in SUBSET Teams
  PROVE  LET granting == Granting(endpoint[e], T) IN
         /\ Due(e, T) \in SUBSET Tools
         /\ ~(Serves(endpoint[e]) /\ MayConsume(endpoint[e], T)) => Due(e, T) = {}
         /\ Serves(endpoint[e]) /\ MayConsume(endpoint[e], T) =>
              /\ granting = {} \/ (\E t \in granting : subset[t][e] = {}) => Due(e, T) = endpoint[e].tools
              /\ granting # {} /\ (\A t \in granting : subset[t][e] # {}) =>
                   Due(e, T) = {x \in endpoint[e].tools : \E t \in granting : x \in subset[t][e]}
<1>. DEFINE teams == endpoint[e].teams \cap T
            given(t) == IF want.tools[t][e] = {} THEN endpoint[e].tools ELSE want.tools[t][e]
<1>1. /\ want.teams[e] = endpoint[e].teams /\ teams \in SUBSET Teams
      /\ \A t \in teams : want.tools[t][e] = subset[t][e]
      /\ endpoint[e].tools \in SUBSET Tools
  BY DEF Match, AccessInv, AccessTypes, Rows
<1>2. /\ ~Serves(endpoint[e]) => Due(e, T) = {}
      /\ Serves(endpoint[e]) /\ endpoint[e].access = "restricted" /\ teams = {} => Due(e, T) = {}
      /\ /\ Serves(endpoint[e]) /\ (endpoint[e].access = "restricted" => teams # {})
         /\ access.start.admin \/ teams = {}
         => Due(e, T) = endpoint[e].tools
      /\ /\ Serves(endpoint[e]) /\ ~access.start.admin /\ teams # {}
         => Due(e, T) = endpoint[e].tools \cap UNION {given(t) : t \in teams}
  <2>1. PICK U : U = endpoint[e].tools \cap
                       UNION {IF want.tools[t][e] = {} THEN endpoint[e].tools ELSE want.tools[t][e] :
                                t \in want.teams[e] \cap T}
    OBVIOUS
  <2>2. Due(e, T) =
          IF ~Serves(endpoint[e]) \/ (endpoint[e].access = "restricted" /\ want.teams[e] \cap T = {})
          THEN {}
          ELSE IF access.start.admin \/ want.teams[e] \cap T = {} THEN endpoint[e].tools ELSE U
    BY <2>1, Zenon DEF Due
  <2>3. want.teams[e] \cap T = teams
    BY <1>1
  <2>4. U = endpoint[e].tools \cap UNION {given(t) : t \in teams}
    BY <2>1, <2>3, Zenon
  <2>. HIDE DEF teams, given
  <2>. QED BY <2>2, <2>3, <2>4
<1>3. MayConsume(endpoint[e], T) <=> (endpoint[e].access = "restricted" => teams # {})
  BY DEF MayConsume
<1>4. Granting(endpoint[e], T) = IF access.start.admin THEN {} ELSE teams
  BY DEF Granting
<1>. HIDE DEF teams, given
<1>5. CASE ~Serves(endpoint[e])
  BY <1>2, <1>5
<1>6. CASE Serves(endpoint[e]) /\ ~MayConsume(endpoint[e], T)
  BY <1>2, <1>3, <1>6
<1>7. CASE Serves(endpoint[e]) /\ MayConsume(endpoint[e], T) /\ (access.start.admin \/ teams = {})
  <2>1. Due(e, T) = endpoint[e].tools /\ Granting(endpoint[e], T) = {}
    BY <1>2, <1>3, <1>4, <1>7
  <2>. QED BY <1>1, <1>7, <2>1
<1>8. CASE Serves(endpoint[e]) /\ MayConsume(endpoint[e], T) /\ ~access.start.admin /\ teams # {}
  <2>1. Due(e, T) = endpoint[e].tools \cap UNION {given(t) : t \in teams}
    BY <1>2, <1>3, <1>8
  <2>2. Granting(endpoint[e], T) = teams
    BY <1>4, <1>8
  <2>3. ASSUME NEW t \in teams, subset[t][e] = {} PROVE Due(e, T) = endpoint[e].tools
    <3>1. given(t) = endpoint[e].tools
      BY <1>1, <2>3 DEF given
    <3>. QED BY <2>1, <3>1
  <2>4. ASSUME \A t \in teams : subset[t][e] # {}
        PROVE  Due(e, T) = {x \in endpoint[e].tools : \E t \in teams : x \in subset[t][e]}
    <3>1. \A t \in teams : given(t) = subset[t][e]
      BY <1>1, <2>4 DEF given
    <3>. QED BY <2>1, <3>1
  <2>5. Due(e, T) \in SUBSET Tools
    BY <1>1, <2>1
  <2>. QED BY <1>8, <2>2, <2>3, <2>4, <2>5
<1>. QED BY <1>5, <1>6, <1>7, <1>8

\* Who has asked all has found out what was granted.
LEMMA FoundAll ==
  ASSUME AccessInv, Match, NEW u \in UseRecords, Found(u), u.ask = {}
  PROVE  UNION {Given(u, e) : e \in DOMAIN u.rows} = UNION {Due(e, u.teams) : e \in u.es}
<1>1. u.es \in SUBSET Endpoints /\ u.teams \in SUBSET Teams
  BY DEF UseRecords
<1>2. ASSUME NEW e \in DOMAIN u.rows PROVE Given(u, e) = Due(e, u.teams)
  <2>. DEFINE granting == Granting(endpoint[e], u.teams)
  <2>1. /\ e \in Endpoints /\ u.rows[e] = endpoint[e]
        /\ Serves(endpoint[e]) /\ MayConsume(endpoint[e], u.teams)
    BY <1>1 DEF Found, Listed
  <2>2. /\ e \in u.open => granting = {} \/ \E t \in granting : subset[t][e] = {}
        /\ e \notin u.open =>
             granting # {} /\ \A t \in granting :
               subset[t][e] # {} /\ \A x \in subset[t][e] : <<e, x>> \in u.some
        /\ \A x \in Tools : <<e, x>> \in u.some => \E t \in granting : x \in subset[t][e]
    BY DEF Found, Asked
  <2>3. /\ granting = {} \/ (\E t \in granting : subset[t][e] = {}) => Due(e, u.teams) = endpoint[e].tools
        /\ granting # {} /\ (\A t \in granting : subset[t][e] # {}) =>
             Due(e, u.teams) = {x \in endpoint[e].tools : \E t \in granting : x \in subset[t][e]}
    BY <1>1, <2>1, DueByRows, Zenon
  <2>4. endpoint[e].tools \in SUBSET Tools
    BY <2>1 DEF AccessInv, AccessTypes, Rows
  <2>. HIDE DEF granting
  <2>5. CASE e \in u.open
    BY <2>1, <2>2, <2>3, <2>5 DEF Given
  <2>6. CASE e \notin u.open
    <3>1. Due(e, u.teams) = {x \in endpoint[e].tools : \E t \in granting : x \in subset[t][e]}
      BY <2>2, <2>3, <2>6
    <3>2. Given(u, e) = {x \in endpoint[e].tools : <<e, x>> \in u.some}
      BY <2>1, <2>6 DEF Given
    <3>. QED BY <2>2, <2>4, <2>6, <3>1, <3>2
  <2>. QED BY <2>5, <2>6
<1>3. ASSUME NEW e \in u.es \ DOMAIN u.rows PROVE Due(e, u.teams) = {}
  BY <1>1, DueByRows DEF Found, Listed
<1>4. DOMAIN u.rows \subseteq u.es
  BY DEF Found, Listed
<1>. HIDE DEF Given, Due
<1>. QED BY <1>2, <1>3, <1>4

LEMMA EndsStep ==
  ASSUME AccessInv, NEW c \in Consumers, NEW u \in UseRecords, NEW at \in {"served", "refused"},
         Ends(c, u, at), RestStays,
         u.calm => UNION {Given(u, e) : e \in DOMAIN u.rows} = UNION {Due(e, u.teams) : e \in u.es}
  PROVE  AccessInv'
<1>1. PICK S \in SUBSET Endpoints : u.rows \in [S -> Rows]
  BY DEF UseRecords, Copies
<1>2. PICK T \in SUBSET Tools : T = UNION {Given(u, e) : e \in DOMAIN u.rows}
  <2>1. ASSUME NEW e \in S PROVE Given(u, e) \subseteq Tools
    BY <1>1 DEF Given, Rows
  <2>. QED BY <1>1, <2>1
<1>3. PICK O \in SUBSET Tools : O = UNION {Due(e, u.teams) : e \in u.es}
  <2>1. u.es \in SUBSET Endpoints /\ u.teams \in SUBSET Teams
    BY DEF UseRecords
  <2>2. ASSUME NEW e \in Endpoints, NEW Q \in SUBSET Teams PROVE Due(e, Q) \in SUBSET Tools
    BY DEF Due, AccessInv, AccessTypes, Rows
  <2>. HIDE DEF Due
  <2>3. \A e \in u.es : Due(e, u.teams) \subseteq Tools
    BY <2>1, <2>2
  <2>4. UNION {Due(e, u.teams) : e \in u.es} \in SUBSET Tools
    BY <2>3
  <2>. QED BY <2>4
<1>4. PICK k : k = [u EXCEPT !.at = at, !.ask = {}, !.open = {}, !.some = {}, !.rows = NoRows,
                             !.tools = T, !.owed = O]
  OBVIOUS
<1>5. Uses(c, k)
  BY <1>2, <1>3, <1>4, Zenon DEF Ends
<1>6. /\ k \in UseRecords /\ k.at = at /\ k.tools = T /\ k.owed = O /\ k.calm = u.calm
      /\ k.ask = {} /\ k.open = {} /\ k.some = {}
  <2>1. NoRows \in Copies
    BY NoRowsTyped
  <2>. HIDE DEF NoRows, Copies
  <2>. QED BY <1>4, <2>1 DEF UseRecords
<1>7. Reading(k) /\ Calm(k)
  BY <1>2, <1>3, <1>6 DEF Reading, Calm
<1>. QED BY <1>5, <1>6, <1>7, ReadStep

LEMMA SettledMatch == ASSUME AccessInv, Settled PROVE Match
BY DEF AccessInv, Settled, Rightful

\* A consumer asks the granting teams of what it has listed.
LEMMA NarrowsStep ==
  ASSUME AccessInv, NEW c \in Consumers, NEW u \in UseRecords, u.ask = {}, u.open = {}, u.some = {},
         Narrows(c, u), RestStays, u.calm => Settled /\ Listed(u)
  PROVE  AccessInv'
<1>1. PICK S \in SUBSET Endpoints : u.rows \in [S -> Rows]
  BY DEF UseRecords, Copies
<1>2. PICK ask : ask = UNION {{<<e, t>> : t \in Granting(u.rows[e], u.teams)} : e \in DOMAIN u.rows}
  OBVIOUS
<1>3. PICK open : open = {e \in DOMAIN u.rows : \A t \in Teams : <<e, t>> \notin ask}
  OBVIOUS
<1>4. /\ ask = {} => Ends(c, [u EXCEPT !.open = open], "served")
      /\ ask # {} => Uses(c, [u EXCEPT !.at = "narrow", !.ask = ask, !.open = open])
  BY <1>2, <1>3, Zenon DEF Narrows
<1>5. \A e \in S : Granting(u.rows[e], u.teams) \subseteq Teams
  BY DEF Granting, UseRecords
<1>6. /\ \A e \in S : \A t \in Granting(u.rows[e], u.teams) : <<e, t>> \in ask
      /\ \A p \in ask : \E e \in S : \E t \in Granting(u.rows[e], u.teams) : p = <<e, t>>
  <2>. HIDE DEF Granting
  <2>. QED BY <1>1, <1>2
<1>7. ask \in SUBSET (Endpoints \X Teams) /\ \A p \in ask : p[1] \in S
  BY <1>5, <1>6
<1>8. open \in SUBSET Endpoints
  BY <1>1, <1>3
<1>9. ASSUME NEW k \in UseRecords, k.rows = u.rows, k.es = u.es, k.teams = u.teams,
             k.ask = ask, k.open = open, k.some = {}, Listed(u)
      PROVE  Found(k)
  <2>1. Listed(k)
    BY <1>9 DEF Listed
  <2>2. ASSUME NEW e \in DOMAIN k.rows
        PROVE  LET granting == Granting(endpoint[e], k.teams) IN
               /\ e \in k.open => granting = {}
               /\ e \notin k.open => granting # {} /\ \A t \in granting : <<e, t>> \in k.ask
               /\ \A t \in Teams : <<e, t>> \in k.ask => t \in granting
    <3>1. e \in S /\ u.rows[e] = endpoint[e]
      BY <1>1, <1>9 DEF Listed
    <3>2. \A t \in Teams : <<e, t>> \in ask <=> t \in Granting(endpoint[e], u.teams)
      BY <1>5, <1>6, <3>1
    <3>3. e \in open <=> \A t \in Teams : <<e, t>> \notin ask
      BY <1>1, <1>3, <3>1
    <3>4. Granting(endpoint[e], u.teams) \subseteq Teams
      BY <1>5, <3>1
    <3>. HIDE DEF Granting
    <3>. QED BY <1>9, <3>2, <3>3, <3>4
  <2>3. Asked(k)
    <3>. HIDE DEF Granting
    <3>. QED BY <1>9, <2>2 DEF Asked
  <2>4. \A p \in k.ask : p[1] \in DOMAIN k.rows
    BY <1>1, <1>7, <1>9
  <2>. QED BY <2>1, <2>3, <2>4 DEF Found
<1>10. CASE ask = {}
  <2>1. PICK k : k = [u EXCEPT !.open = open]
    OBVIOUS
  <2>2. /\ k \in UseRecords /\ k.rows = u.rows /\ k.es = u.es /\ k.teams = u.teams
        /\ k.ask = {} /\ k.open = open /\ k.some = {} /\ k.calm = u.calm
    BY <1>8, <2>1 DEF UseRecords
  <2>3. k.calm => UNION {Given(k, e) : e \in DOMAIN k.rows} = UNION {Due(e, k.teams) : e \in k.es}
    BY <1>9, <1>10, <2>2, SettledMatch, FoundAll
  <2>4. Ends(c, k, "served")
    BY <1>4, <1>10, <2>1
  <2>. QED BY <2>2, <2>3, <2>4, EndsStep
<1>11. CASE ask # {}
  <2>1. PICK k : k = [u EXCEPT !.at = "narrow", !.ask = ask, !.open = open]
    OBVIOUS
  <2>2. /\ k \in UseRecords /\ k.rows = u.rows /\ k.es = u.es /\ k.teams = u.teams /\ k.at = "narrow"
        /\ k.ask = ask /\ k.open = open /\ k.some = {} /\ k.calm = u.calm
    BY <1>7, <1>8, <2>1 DEF UseRecords
  <2>3. Reading(k) /\ Calm(k)
    BY <1>9, <2>2 DEF Reading, Calm
  <2>4. Uses(c, k)
    BY <1>4, <1>11, <2>1
  <2>. QED BY <2>2, <2>3, <2>4, ReadStep
<1>. QED BY <1>10, <1>11

\* Who is refused, or finds no endpoint, is served nothing.
LEMMA NothingStep ==
  ASSUME AccessInv, NEW c \in Consumers, NEW u \in UseRecords, NEW at \in {"served", "refused"},
         Ends(c, [u EXCEPT !.rows = NoRows], at), RestStays,
         u.calm => \A e \in u.es :
                     Settled /\ ~(Serves(endpoint[e]) /\ MayConsume(endpoint[e], u.teams))
  PROVE  AccessInv'
<1>1. PICK k : k = [u EXCEPT !.rows = NoRows]
  OBVIOUS
<1>2. k \in UseRecords /\ DOMAIN k.rows = {} /\ k.es = u.es /\ k.teams = u.teams /\ k.calm = u.calm
  <2>1. NoRows \in Copies /\ DOMAIN NoRows = {}
    BY NoRowsTyped
  <2>. HIDE DEF NoRows, Copies
  <2>. QED BY <1>1, <2>1 DEF UseRecords
<1>3. ASSUME u.calm, NEW e \in k.es PROVE Due(e, k.teams) = {}
  <2>1. e \in Endpoints /\ k.teams \in SUBSET Teams
    BY <1>2 DEF UseRecords
  <2>2. Match /\ ~(Serves(endpoint[e]) /\ MayConsume(endpoint[e], k.teams))
    BY <1>2, <1>3, SettledMatch
  <2>. QED BY <2>1, <2>2, DueByRows, Zenon
<1>4. k.calm => UNION {Given(k, e) : e \in DOMAIN k.rows} = UNION {Due(e, k.teams) : e \in k.es}
  <2>. HIDE DEF Given, Due
  <2>1. UNION {Given(k, e) : e \in DOMAIN k.rows} = {}
    BY <1>2
  <2>2. k.calm => UNION {Due(e, k.teams) : e \in k.es} = {}
    <3>. SUFFICES ASSUME k.calm PROVE \A e \in k.es : Due(e, k.teams) = {}
      OBVIOUS
    <3>. QED BY <1>2, <1>3
  <2>. QED BY <2>1, <2>2
<1>5. Ends(c, k, at)
  BY <1>1
<1>. QED BY <1>2, <1>4, <1>5, EndsStep

LEMMA UseFields ==
  ASSUME AccessInv, NEW c \in Consumers
  PROVE  /\ use[c] \in UseRecords /\ Reading(use[c]) /\ Calm(use[c])
         /\ use[c].calm = TRUE \/ use[c].calm = FALSE
BY DEF AccessInv, AccessTypes, UseRecords, Readers

LEMMA NoUseTyped ==
  /\ NoUse \in UseRecords /\ NoUse.at = "idle" /\ NoUse.ask = {} /\ NoUse.open = {} /\ NoUse.some = {}
  /\ NoUse.teams = {} /\ NoUse.es = {}
<1>1. NoRows \in Copies
  BY NoRowsTyped
<1>. HIDE DEF NoRows, Copies
<1>. QED BY <1>1 DEF NoUse, UseRecords

LEMMA OneRow ==
  ASSUME AccessInv, NEW e \in Endpoints
  PROVE  \E rows \in Copies :
           /\ rows = [d \in {e} |-> endpoint[e]] /\ rows \in [{e} -> Rows]
           /\ DOMAIN rows = {e} /\ rows[e] = endpoint[e]
<1>1. endpoint[e] \in Rows
  BY DEF AccessInv, AccessTypes
<1>2. [d \in {e} |-> endpoint[e]] \in [{e} -> Rows]
  BY <1>1
<1>. QED BY <1>2, CopiesOf

LEMMA LookUps ==
  ASSUME AccessInv, NEW c \in Consumers, NEW e \in Endpoints, LookUp(c, e)
  PROVE  AccessInv'
<1>1. PICK rows \in Copies :
        /\ rows = [d \in {e} |-> endpoint[e]] /\ rows \in [{e} -> Rows]
        /\ DOMAIN rows = {e} /\ rows[e] = endpoint[e]
  BY OneRow
<1>2. PICK calm \in BOOLEAN : calm = Settled
  BY DEF Settled
<1>3. PICK u : u = [NoUse EXCEPT !.es = {e}, !.calm = calm, !.rows = rows]
  OBVIOUS
<1>4. /\ u \in UseRecords /\ u.at = "idle" /\ u.es = {e} /\ u.calm = calm /\ u.rows = rows
      /\ u.ask = {} /\ u.open = {} /\ u.some = {} /\ u.teams = {}
  BY <1>3, NoUseTyped DEF UseRecords
<1>5. /\ ~Serves(endpoint[e]) => Refused(c, u)
      /\ Serves(endpoint[e]) =>
           Uses(c, [u EXCEPT !.at = IF endpoint[e].access = "public" THEN "scope" ELSE "caller"])
      /\ RestStays
  BY <1>1, <1>2, <1>3, Zenon DEF LookUp, RestStays
<1>6. CASE ~Serves(endpoint[e])
  BY <1>2, <1>4, <1>5, <1>6, NothingStep DEF Refused
<1>7. CASE Serves(endpoint[e])
  <2>1. PICK at \in {"scope", "caller"} : at = IF endpoint[e].access = "public" THEN "scope" ELSE "caller"
    OBVIOUS
  <2>2. PICK k : k = [u EXCEPT !.at = at]
    OBVIOUS
  <2>3. /\ k \in UseRecords /\ k.at = at /\ k.es = {e} /\ k.calm = calm /\ k.rows = rows
        /\ k.ask = {} /\ k.open = {} /\ k.some = {} /\ k.teams = {}
    BY <1>4, <2>2 DEF UseRecords
  <2>4. Uses(c, k)
    BY <1>5, <1>7, <2>1, <2>2
  <2>5. Reading(k)
    BY <1>1, <2>3 DEF Reading
  <2>6. Seen(k)
    BY <1>1, <1>7, <2>1, <2>3 DEF Seen, MayConsume
  <2>7. Calm(k)
    BY <1>2, <2>3, <2>6 DEF Calm
  <2>. QED BY <1>5, <2>3, <2>4, <2>5, <2>7, ReadStep
<1>. QED BY <1>6, <1>7

LEMMA Authenticates ==
  ASSUME AccessInv, NEW c \in Consumers, Authenticate(c)
  PROVE  AccessInv'
<1>1. /\ use[c] \in UseRecords /\ Reading(use[c]) /\ Calm(use[c]) /\ use[c].at = "caller"
      /\ use[c].ask = {} /\ use[c].open = {} /\ use[c].some = {}
  BY UseFields DEF Authenticate, Reading
<1>2. PICK e \in Endpoints : use[c].es = {e} /\ use[c].rows \in [{e} -> Rows]
  BY <1>1 DEF Reading
<1>3. use[c].calm => /\ Settled /\ use[c].rows[e] = endpoint[e] /\ Serves(endpoint[e])
                     /\ use[c].rows = [d \in {e} |-> endpoint[e]]
  BY <1>1, <1>2 DEF Calm, Seen
<1>4. PICK u : u = [use[c] EXCEPT !.teams = member]
  OBVIOUS
<1>5. /\ u \in UseRecords /\ u.at = "caller" /\ u.es = {e} /\ u.calm = use[c].calm
      /\ u.rows = use[c].rows /\ u.ask = {} /\ u.open = {} /\ u.some = {} /\ u.teams = member
  BY <1>1, <1>2, <1>4 DEF UseRecords, AccessInv, AccessTypes
<1>7. /\ MayConsume(u.rows[e], member) => Uses(c, [u EXCEPT !.at = "scope"])
      /\ ~MayConsume(u.rows[e], member) => Refused(c, u)
      /\ RestStays
  BY <1>2, <1>4 DEF Authenticate, RestStays
<1>8. CASE MayConsume(u.rows[e], member)
  <2>1. PICK k : k = [u EXCEPT !.at = "scope"]
    OBVIOUS
  <2>2. /\ k \in UseRecords /\ k.at = "scope" /\ k.es = {e} /\ k.calm = use[c].calm
        /\ k.rows = use[c].rows /\ k.ask = {} /\ k.open = {} /\ k.some = {} /\ k.teams = member
    BY <1>5, <2>1 DEF UseRecords
  <2>3. Reading(k)
    BY <1>2, <2>2 DEF Reading
  <2>4. k.calm => Seen(k) /\ Settled
    BY <1>3, <1>5, <1>8, <2>2 DEF Seen
  <2>5. Calm(k)
    BY <2>2, <2>4 DEF Calm
  <2>. QED BY <1>7, <1>8, <2>1, <2>2, <2>3, <2>5, ReadStep
<1>9. CASE ~MayConsume(u.rows[e], member)
  BY <1>3, <1>5, <1>7, <1>9, NothingStep DEF Refused
<1>. QED BY <1>8, <1>9

LEMMA BuildScopes ==
  ASSUME AccessInv, NEW c \in Consumers, BuildScope(c)
  PROVE  AccessInv'
<1>1. /\ use[c] \in UseRecords /\ Reading(use[c]) /\ Calm(use[c]) /\ use[c].at = "scope"
      /\ use[c].ask = {} /\ use[c].open = {} /\ use[c].some = {}
  BY UseFields DEF BuildScope, Reading
<1>2. PICK e \in Endpoints : use[c].es = {e} /\ use[c].rows \in [{e} -> Rows]
  BY <1>1 DEF Reading
<1>3. use[c].calm => /\ Settled /\ use[c].rows[e] = endpoint[e] /\ Serves(endpoint[e])
                     /\ MayConsume(endpoint[e], use[c].teams)
  BY <1>1, <1>2 DEF Calm, Seen
<1>5. PICK vs \in Rows : /\ vs = [use[c].rows[e] EXCEPT !.tools = endpoint[e].tools]
                         /\ use[c].calm => vs = endpoint[e]
  <2>1. endpoint[e] \in Rows /\ use[c].rows[e] \in Rows
    BY <1>2 DEF AccessInv, AccessTypes
  <2>2. [use[c].rows[e] EXCEPT !.tools = endpoint[e].tools] \in Rows
    BY <2>1 DEF Rows
  <2>3. use[c].calm => [use[c].rows[e] EXCEPT !.tools = endpoint[e].tools] = endpoint[e]
    BY <1>3, <2>1 DEF Rows
  <2>. QED BY <2>2, <2>3
<1>6. PICK rows \in [{e} -> Rows] : rows = [d \in {e} |-> vs]
  OBVIOUS
<1>7. PICK u : u = [use[c] EXCEPT !.rows = rows]
  OBVIOUS
<1>8. /\ u \in UseRecords /\ u.es = {e} /\ u.calm = use[c].calm /\ u.rows = rows
      /\ u.ask = {} /\ u.open = {} /\ u.some = {} /\ u.teams = use[c].teams
  <2>1. rows \in Copies
    BY CopiesOf
  <2>. QED BY <1>1, <1>2, <1>7, <2>1 DEF UseRecords
<1>9. /\ Serves(endpoint[e]) => Narrows(c, u)
      /\ ~Serves(endpoint[e]) => Refused(c, use[c])
      /\ RestStays
  <2>1. PICK d \in use[c].es :
          IF Serves(endpoint[d])
          THEN Narrows(c, [use[c] EXCEPT !.rows =
                             [q \in {d} |-> [use[c].rows[d] EXCEPT !.tools = endpoint[d].tools]]])
          ELSE Refused(c, use[c])
    BY Zenon DEF BuildScope
  <2>2. d = e
    BY <1>2
  <2>3. RestStays
    BY DEF BuildScope, RestStays
  <2>. QED BY <1>5, <1>6, <1>7, <2>1, <2>2, <2>3
<1>10. CASE Serves(endpoint[e])
  <2>1. u.calm => Listed(u)
    BY <1>3, <1>5, <1>6, <1>8 DEF Listed
  <2>. QED BY <1>3, <1>8, <1>9, <1>10, <2>1, NarrowsStep
<1>11. CASE ~Serves(endpoint[e])
  BY <1>1, <1>2, <1>3, <1>9, <1>11, NothingStep DEF Refused
<1>. QED BY <1>10, <1>11

LEMMA SignIns ==
  ASSUME AccessInv, NEW c \in Consumers, SignIn(c)
  PROVE  AccessInv'
<1>1. PICK k : k = [NoUse EXCEPT !.at = "turn", !.kind = "turn", !.teams = member]
  OBVIOUS
<1>2. /\ k \in UseRecords /\ k.at = "turn" /\ k.es = {} /\ k.ask = {} /\ k.open = {} /\ k.some = {}
  BY <1>1, NoUseTyped DEF UseRecords, AccessInv, AccessTypes
<1>3. Uses(c, k) /\ RestStays
  BY <1>1, Zenon DEF SignIn, RestStays
<1>4. Reading(k) /\ Calm(k)
  BY <1>2 DEF Reading, Calm
<1>. QED BY <1>2, <1>3, <1>4, ReadStep

LEMMA ResolvesTools ==
  ASSUME AccessInv, NEW c \in Consumers, NEW e \in Endpoints, ResolveTools(c, e)
  PROVE  AccessInv'
<1>1. /\ use[c] \in UseRecords /\ use[c].at = "turn"
      /\ use[c].ask = {} /\ use[c].open = {} /\ use[c].some = {}
  BY UseFields DEF ResolveTools, Reading
<1>2. PICK rows \in Copies :
        /\ rows = [d \in {e} |-> endpoint[e]] /\ rows \in [{e} -> Rows]
        /\ DOMAIN rows = {e} /\ rows[e] = endpoint[e]
  BY OneRow
<1>3. PICK calm \in BOOLEAN : calm = Settled
  BY DEF Settled
<1>4. PICK u : u = [use[c] EXCEPT !.es = {e}, !.calm = calm, !.rows = rows]
  OBVIOUS
<1>5. /\ u \in UseRecords /\ u.es = {e} /\ u.calm = calm /\ u.rows = rows
      /\ u.ask = {} /\ u.open = {} /\ u.some = {}
  BY <1>1, <1>4 DEF UseRecords
<1>6. RestStays
  BY DEF ResolveTools, RestStays
<1>7. CASE ~Serves(endpoint[e])
  <2>1. Ends(c, [u EXCEPT !.rows = NoRows], "served")
    BY <1>2, <1>3, <1>4, <1>7 DEF ResolveTools
  <2>. QED BY <1>3, <1>5, <1>6, <1>7, <2>1, NothingStep
<1>8. CASE Serves(endpoint[e]) /\ ~MayConsume(endpoint[e], u.teams)
  <2>1. Refused(c, u)
    BY <1>2, <1>3, <1>4, <1>8 DEF ResolveTools
  <2>. QED BY <1>3, <1>5, <1>6, <1>8, <2>1, NothingStep DEF Refused
<1>9. CASE Serves(endpoint[e]) /\ MayConsume(endpoint[e], u.teams)
  <2>1. Narrows(c, u)
    BY <1>2, <1>3, <1>4, <1>9 DEF ResolveTools
  <2>2. Listed(u)
    BY <1>2, <1>5, <1>9 DEF Listed
  <2>. QED BY <1>3, <1>5, <1>6, <2>1, <2>2, NarrowsStep
<1>. QED BY <1>7, <1>8, <1>9

LEMMA ResolvesPinned ==
  ASSUME AccessInv, NEW c \in Consumers, ResolvePinned(c)
  PROVE  AccessInv'
<1>1. /\ use[c] \in UseRecords /\ use[c].at = "turn"
      /\ use[c].ask = {} /\ use[c].open = {} /\ use[c].some = {}
  BY UseFields DEF ResolvePinned, Reading
<1>2. PICK mine \in SUBSET Endpoints :
        mine = {e \in Endpoints : Serves(endpoint[e]) /\ MayConsume(endpoint[e], use[c].teams)}
  OBVIOUS
<1>3. PICK calm \in BOOLEAN : calm = Settled
  BY DEF Settled
<1>4. PICK rows \in [mine -> Rows] : rows = [e \in mine |-> endpoint[e]]
  BY DEF AccessInv, AccessTypes
<1>5. PICK u : u = [use[c] EXCEPT !.es = Endpoints, !.calm = calm, !.rows = rows]
  OBVIOUS
<1>6. /\ u \in UseRecords /\ u.es = Endpoints /\ u.calm = calm /\ u.rows = rows
      /\ u.ask = {} /\ u.open = {} /\ u.some = {} /\ u.teams = use[c].teams
  <2>1. rows \in Copies
    BY CopiesOf
  <2>. QED BY <1>1, <1>5, <2>1 DEF UseRecords
<1>7. Narrows(c, u) /\ RestStays
  BY <1>2, <1>3, <1>4, <1>5, Zenon DEF ResolvePinned, RestStays
<1>8. Listed(u)
  BY <1>2, <1>4, <1>6 DEF Listed
<1>. QED BY <1>3, <1>6, <1>7, <1>8, NarrowsStep

LEMMA ReadSubsets ==
  ASSUME AccessInv, NEW c \in Consumers, ReadSubset(c)
  PROVE  AccessInv'
<1>1. PICK u \in UseRecords : u = use[c] /\ u.at = "narrow" /\ Calm(u)
  BY UseFields DEF ReadSubset
<1>2. PICK e \in Endpoints, t \in Teams :
        /\ <<e, t>> \in u.ask
        /\ LET s == subset[t][e]
               left == IF s = {} THEN {q \in u.ask : q[1] # e} ELSE u.ask \ {<<e, t>>}
               k == [u EXCEPT !.ask = left, !.open = IF s = {} THEN @ \cup {e} ELSE @,
                              !.some = @ \cup {<<e, x>> : x \in s}]
           IN IF left = {} THEN Ends(c, k, "served") ELSE Uses(c, k)
  BY <1>1 DEF ReadSubset
<1>3. /\ u.ask \in SUBSET (Endpoints \X Teams) /\ u.open \in SUBSET Endpoints
      /\ u.some \in SUBSET (Endpoints \X Tools)
  BY DEF UseRecords
<1>4. PICK p \in u.ask : p = <<e, t>>
  BY <1>2
<1>5. PICK s \in SUBSET Tools : s = subset[t][e]
  BY DEF AccessInv, AccessTypes
<1>6. PICK left \in SUBSET u.ask : left = IF s = {} THEN {q \in u.ask : q[1] # e} ELSE u.ask \ {p}
  OBVIOUS
<1>7. PICK open \in SUBSET Endpoints : open = IF s = {} THEN u.open \cup {e} ELSE u.open
  BY <1>3
<1>8. PICK some \in SUBSET (Endpoints \X Tools) : some = u.some \cup {<<e, x>> : x \in s}
  <2>1. \A x \in s : <<e, x>> \in Endpoints \X Tools
    OBVIOUS
  <2>2. {<<e, x>> : x \in s} \in SUBSET (Endpoints \X Tools)
    BY <2>1
  <2>. QED BY <1>3, <2>2
<1>9. PICK k : k = [u EXCEPT !.ask = left, !.open = open, !.some = some]
  OBVIOUS
<1>10. /\ k \in UseRecords /\ k.at = "narrow" /\ k.es = u.es /\ k.rows = u.rows /\ k.teams = u.teams
       /\ k.calm = u.calm /\ k.ask = left /\ k.open = open /\ k.some = some
  <2>1. left \in SUBSET (Endpoints \X Teams)
    BY <1>3
  <2>. QED BY <1>1, <1>9, <2>1 DEF UseRecords
<1>11. IF left = {} THEN Ends(c, k, "served") ELSE Uses(c, k)
  BY <1>2, <1>4, <1>5, <1>6, <1>7, <1>8, <1>9, Zenon
<1>12. RestStays
  BY DEF ReadSubset, RestStays
<1>13. ASSUME u.calm PROVE Settled /\ Found(k)
  <2>1. Settled /\ Listed(u) /\ Asked(u) /\ \A q \in u.ask : q[1] \in DOMAIN u.rows
    BY <1>1, <1>13 DEF Calm, Found
  <2>2. Listed(k)
    BY <1>10, <2>1 DEF Listed
  <2>3. \A q \in k.ask : q[1] \in DOMAIN k.rows
    BY <1>10, <2>1
  <2>4. ASSUME NEW d \in DOMAIN k.rows, NEW granting, granting = Granting(endpoint[d], k.teams)
        PROVE  /\ d \in k.open => granting = {} \/ \E q \in granting : subset[q][d] = {}
               /\ d \notin k.open =>
                    \A q \in granting :
                      \/ <<d, q>> \in k.ask
                      \/ subset[q][d] # {} /\ \A x \in subset[q][d] : <<d, x>> \in k.some
               /\ d \notin k.open => granting # {}
               /\ \A x \in Tools : <<d, x>> \in k.some => \E q \in granting : x \in subset[q][d]
               /\ \A q \in Teams : <<d, q>> \in k.ask => q \in granting
    <3>1. /\ d \in u.open => granting = {} \/ \E q \in granting : subset[q][d] = {}
          /\ d \notin u.open =>
               \A q \in granting :
                 \/ <<d, q>> \in u.ask
                 \/ subset[q][d] # {} /\ \A x \in subset[q][d] : <<d, x>> \in u.some
          /\ d \notin u.open => granting # {}
          /\ \A x \in Tools : <<d, x>> \in u.some => \E q \in granting : x \in subset[q][d]
          /\ \A q \in Teams : <<d, q>> \in u.ask => q \in granting
      BY <1>10, <2>1, <2>4 DEF Asked
    <3>2. d = e => t \in granting
      BY <1>4, <3>1
    <3>3. d \in open <=> d \in u.open \/ (s = {} /\ d = e)
      BY <1>7
    <3>4. \A x : <<d, x>> \in some <=> <<d, x>> \in u.some \/ (d = e /\ x \in s)
      BY <1>8
    <3>5. \A q : <<d, q>> \in left <=> <<d, q>> \in u.ask /\ (IF s = {} THEN d # e ELSE <<d, q>> # p)
      BY <1>6
    <3>6. d \in k.open => granting = {} \/ \E q \in granting : subset[q][d] = {}
      BY <1>5, <1>10, <3>1, <3>2, <3>3
    <3>7. d \notin k.open => granting # {}
      BY <1>10, <3>1, <3>3
    <3>8. ASSUME d \notin k.open, NEW q \in granting, <<d, q>> \notin k.ask
          PROVE  subset[q][d] # {} /\ \A x \in subset[q][d] : <<d, x>> \in k.some
      <4>1. d \notin u.open /\ ~(s = {} /\ d = e)
        BY <1>10, <3>3, <3>8
      <4>2. CASE <<d, q>> \in u.ask
        <5>1. d = e /\ q = t /\ s # {}
          BY <1>4, <1>10, <3>5, <3>8, <4>1, <4>2
        <5>. QED BY <1>5, <1>10, <3>4, <5>1
      <4>3. CASE <<d, q>> \notin u.ask
        BY <1>10, <3>1, <3>4, <4>1, <4>3
      <4>. QED BY <4>2, <4>3
    <3>9. ASSUME NEW x \in Tools, <<d, x>> \in k.some PROVE \E q \in granting : x \in subset[q][d]
      BY <1>5, <1>10, <3>1, <3>2, <3>4, <3>9
    <3>10. \A q \in Teams : <<d, q>> \in k.ask => q \in granting
      BY <1>10, <3>1, <3>5
    <3>. QED BY <3>6, <3>7, <3>8, <3>9, <3>10
  <2>5. Asked(k)
    <3>. HIDE DEF Granting
    <3>. QED BY <2>4 DEF Asked
  <2>. QED BY <2>1, <2>2, <2>3, <2>5 DEF Found
<1>14. CASE left = {}
  <2>1. k.calm => UNION {Given(k, d) : d \in DOMAIN k.rows} = UNION {Due(d, k.teams) : d \in k.es}
    BY <1>10, <1>13, <1>14, SettledMatch, FoundAll
  <2>2. Ends(c, k, "served")
    BY <1>11, <1>14
  <2>. QED BY <1>10, <1>12, <2>1, <2>2, EndsStep
<1>15. CASE left # {}
  <2>1. Reading(k) /\ Calm(k)
    BY <1>10, <1>13 DEF Reading, Calm
  <2>2. Uses(c, k)
    BY <1>11, <1>15
  <2>. QED BY <1>10, <1>12, <2>1, <2>2, ReadStep
<1>. QED BY <1>14, <1>15

LEMMA ConsumeStep ==
  ASSUME AccessInv, NEW c \in Consumers, Consume(c)
  PROVE  AccessInv'
BY LookUps, ResolvesTools, Authenticates, BuildScopes, SignIns, ResolvesPinned, ReadSubsets DEF Consume

-------------------------------------------------------------------------------
\* An administrator's step either is one that consumers may notice, or leaves
\* what they read alone.
Loud == use' = [c \in Consumers |-> [use[c] EXCEPT !.calm = FALSE]]
Quiet == UNCHANGED <<endpoint, subset, use>> /\ access'.start = access.start /\ (Settled => Settled')

LEMMA QuietStep ==
  ASSUME AccessTypes, NEW a \in Admins, NEW k, Goes(a, k), UNCHANGED <<endpoint, subset, use>>,
         access'.start = access.start, access'.damaged => access.damaged \/ edit[a].wrote,
         k.wrote => edit[a].wrote
  PROVE  Quiet
<1>1. edit'[a] = k /\ \A b \in Admins \ {a} : edit'[b] = edit[b]
  BY GoesOn
<1>. QED BY <1>1 DEF Quiet, Settled

LEMMA QuietReads ==
  ASSUME AccessTypes, NEW a \in Admins, NEW k, Goes(a, k), Reads, k.wrote => edit[a].wrote
  PROVE  Quiet
BY QuietStep DEF Reads

LEMMA QuietOpens ==
  ASSUME AdminInv, NEW a \in Admins, NEW k, Open(a, k), ~k.wrote
  PROVE  Quiet
<1>1. Goes(a, k) /\ UNCHANGED <<endpoint, subset, use>>
      /\ access'.start = access.start /\ access'.damaged = access.damaged
  BY DEF Open, Goes, AdminInv, AccessTypes
<1>. QED BY <1>1, QuietStep DEF AdminInv

LEMMA QuietOrLoud ==
  ASSUME AdminInv, NEW a \in Admins, Administer(a)
  PROVE  Loud \/ Quiet
<1>. USE DEF AdminInv
<1>0. edit[a] \in EditRecords /\ NoEdit \in EditRecords /\ ~NoEdit.wrote
  BY EditFields, NoEditTyped
<1>1. ASSUME NEW t \in Teams, DeleteTeam(a, t) \/ AddMember(a, t) \/ RemoveMember(a, t)
      PROVE  Quiet
  <2>1. ASSUME NEW at, NEW kind, Open(a, [NoEdit EXCEPT !.at = at, !.kind = kind, !.t = t])
        PROVE  Quiet
    <3>1. PICK k : k = [NoEdit EXCEPT !.at = at, !.kind = kind, !.t = t]
      OBVIOUS
    <3>2. ~k.wrote
      BY <1>0, <3>1 DEF EditRecords
    <3>. QED BY <2>1, <3>1, <3>2, QuietOpens
  <2>. QED BY <1>1, <2>1 DEF DeleteTeam, AddMember, RemoveMember
<1>2. ASSUME NEW t \in Teams, NEW e \in Endpoints, NEW kind, NEW pick, Grant(a, t, e, kind, pick)
      PROVE  Quiet
  <2>1. PICK k : k = [NoEdit EXCEPT !.at = "team", !.kind = kind, !.t = t, !.e = e, !.into = e, !.pick = pick]
    OBVIOUS
  <2>2. ~k.wrote
    BY <1>0, <2>1 DEF EditRecords
  <2>. QED BY <1>2, <2>1, <2>2, QuietOpens DEF Grant
<1>3. ASSUME NEW e \in Endpoints, DeleteEndpoint(a, e) \/ Clone(a, e) PROVE Quiet
  <2>1. ASSUME NEW at, NEW kind, Open(a, [NoEdit EXCEPT !.at = at, !.kind = kind, !.e = e])
        PROVE  Quiet
    <3>1. PICK k : k = [NoEdit EXCEPT !.at = at, !.kind = kind, !.e = e]
      OBVIOUS
    <3>2. ~k.wrote
      BY <1>0, <3>1 DEF EditRecords
    <3>. QED BY <2>1, <3>1, <3>2, QuietOpens
  <2>. QED BY <1>3, <2>1 DEF DeleteEndpoint, Clone
<1>4. ASSUME NEW e \in Endpoints, NEW form \in Forms, Save(a, e, form) PROVE Loud
  BY <1>4 DEF Save, Loud
<1>5. CASE GrantTeam(a)
  <2>1. PICK k : k = [edit[a] EXCEPT !.at = "read"]
    OBVIOUS
  <2>2. k.wrote = edit[a].wrote
    BY <1>0, <2>1 DEF EditRecords
  <2>. QED BY <1>0, <1>5, <2>1, <2>2, QuietReads DEF GrantTeam, Answers
<1>6. CASE GrantRead(a)
  <2>1. PICK k : k = [edit[a] EXCEPT !.at = "update", !.rows = [e \in {edit[a].e} |-> endpoint[edit[a].e]],
                               !.tools = @ \cup (edit[a].pick \cap endpoint[edit[a].e].tools)]
    OBVIOUS
  <2>2. k.wrote = edit[a].wrote
    BY <1>0, <2>1 DEF EditRecords
  <2>3. Reads /\ (Goes(a, k) \/ Goes(a, NoEdit))
    BY <1>6, <2>1, Zenon DEF GrantRead, Answers
  <2>. QED BY <1>0, <2>2, <2>3, QuietReads
<1>7. CASE ListEndpoints(a)
  <2>1. PICK listed : listed = {e \in Endpoints : endpoint[e].state = "here" /\ edit[a].t \in endpoint[e].teams}
    OBVIOUS
  <2>2. PICK k : k = [edit[a] EXCEPT !.at = IF listed = {} THEN "members" ELSE "strip",
                               !.rows = [e \in listed |-> endpoint[e]]]
    OBVIOUS
  <2>3. k.wrote = edit[a].wrote
    BY <1>0, <2>2 DEF EditRecords
  <2>4. Goes(a, k) /\ Reads
    BY <1>7, <2>1, <2>2, Zenon DEF ListEndpoints
  <2>. QED BY <2>3, <2>4, QuietReads
<1>8. CASE MemberTeam(a)
  <2>1. PICK k : k = [edit[a] EXCEPT !.at = "leave"]
    OBVIOUS
  <2>2. k.wrote = edit[a].wrote
    BY <1>0, <2>1 DEF EditRecords
  <2>. QED BY <1>0, <1>8, <2>1, <2>2, QuietReads DEF MemberTeam, Answers
<1>9. CASE CloneRead(a)
  <2>1. PICK k : k = [edit[a] EXCEPT !.at = "copy", !.rows = [e \in {edit[a].e} |-> endpoint[edit[a].e]]]
    OBVIOUS
  <2>2. k.wrote = edit[a].wrote
    BY <1>0, <2>1 DEF EditRecords
  <2>3. Reads /\ (Goes(a, k) \/ Goes(a, NoEdit))
    BY <1>9, <2>1, Zenon DEF CloneRead, Answers
  <2>. QED BY <1>0, <2>2, <2>3, QuietReads
<1>10. CASE CloneSubset(a)
  <2>1. edit[a].wrote
    BY <1>10, ShapeOf DEF CloneSubset, EditAt, CloneShape
  <2>2. ~Settled
    BY <2>1 DEF Settled
  <2>. QED BY <1>10, <2>2 DEF CloneSubset, Quiet
<1>11. CASE Stops(a)
  <2>1. access'.start = access.start /\ (access'.damaged => access.damaged \/ edit[a].wrote)
    BY <1>11 DEF Stops, AccessTypes
  <2>. QED BY <1>0, <1>11, <2>1, QuietStep DEF Stops, Answers
<1>12. CASE \/ GrantUpdate(a) \/ ClearSubset(a) \/ InsertSubset(a) \/ StripTeam(a)
            \/ DropMembers(a) \/ DropSubsets(a) \/ DropTeam(a) \/ LeaveTeam(a) \/ JoinTeam(a)
            \/ DropGrants(a) \/ DropEndpoint(a) \/ CloneRow(a)
  <2>1. ASSUME NEW stale, Writes(a, stale) PROVE Loud
    BY <2>1 DEF Writes, Loud
  <2>2. \E stale : Writes(a, stale)
    <3>1. CASE GrantUpdate(a) \/ ClearSubset(a) \/ DropMembers(a) \/ DropSubsets(a)
      BY <3>1, Zenon DEF GrantUpdate, ClearSubset, DropMembers, DropSubsets
    <3>2. CASE DropTeam(a) \/ LeaveTeam(a) \/ JoinTeam(a) \/ DropGrants(a)
      BY <3>2, Zenon DEF DropTeam, LeaveTeam, JoinTeam, DropGrants
    <3>3. CASE DropEndpoint(a) \/ CloneRow(a) \/ StripTeam(a)
      BY <3>3, Zenon DEF DropEndpoint, CloneRow, StripTeam
    <3>4. CASE InsertSubset(a)
      BY <3>4, Zenon DEF InsertSubset
    <3>. QED BY <1>12, <3>1, <3>2, <3>3, <3>4
  <2>. QED BY <2>1, <2>2
<1>. QED BY <1>1, <1>2, <1>3, <1>4, <1>5, <1>6, <1>7, <1>8, <1>9, <1>10, <1>11, <1>12, Zenon
         DEF Administer

LEMMA AdministerStep ==
  ASSUME AccessInv, NEW a \in Admins, Administer(a)
  PROVE  AccessInv'
<1>1. AdminInv /\ AdminInv'
  BY AdminStep DEF AccessInv, AdminInv
<1>2. CASE Loud
  <2>1. ASSUME NEW c \in Consumers PROVE Reading(use[c])' /\ Calm(use[c])'
    <3>1. use[c] \in UseRecords /\ Reading(use[c])
      BY UseFields
    <3>2. PICK k : k = [use[c] EXCEPT !.calm = FALSE]
      OBVIOUS
    <3>3. /\ k.at = use[c].at /\ k.es = use[c].es /\ k.rows = use[c].rows /\ k.calm = FALSE
          /\ k.ask = use[c].ask /\ k.open = use[c].open /\ k.some = use[c].some
      BY <3>1, <3>2 DEF UseRecords
    <3>4. use'[c] = k
      BY <1>2, <3>2 DEF Loud
    <3>5. Reading(k)' /\ Calm(k)'
      BY <3>1, <3>3 DEF Reading, Calm
    <3>. QED BY <3>4, <3>5
  <2>. QED BY <1>1, <2>1 DEF AccessInv, AdminInv, Readers
<1>3. CASE Quiet
  <2>1. ASSUME NEW c \in Consumers PROVE Reading(use[c])' /\ Calm(use[c])'
    <3>1. PICK k : k = use[c]
      OBVIOUS
    <3>2. Reading(k)' /\ Calm(k)'
      BY <1>3, <3>1, UseFields, ReadingStays DEF Quiet
    <3>. QED BY <1>3, <3>1, <3>2 DEF Quiet
  <2>. QED BY <1>1, <2>1 DEF AccessInv, AdminInv, Readers
<1>. QED BY <1>1, <1>2, <1>3, QuietOrLoud

\* Every step of the composition keeps what is known of the rows and of who
\* reads them.
LEMMA AccessStep == ASSUME AccessInv, [DelegationNext]_allVars PROVE AccessInv'
<1>1. CASE UNCHANGED accessVars
  BY <1>1, AccessStays
<1>2. ASSUME NEW t \in Tasks,
             (SignIn(t) /\ UNCHANGED vars) \/ Delegate(t) \/ NotDelegated(t) \/ TaskStep(t)
      PROVE  AccessInv'
  <2>1. t \in Consumers /\ Skill \in Endpoints
    BY DelegationConstants
  <2>2. CASE SignIn(t)
    BY <2>1, <2>2, SignIns
  <2>3. CASE Delegate(t)
    BY <1>1, <2>3 DEF Delegate
  <2>4. CASE NotDelegated(t)
    <3>1. use[t] \in UseRecords /\ use[t].es = {}
      BY <2>1, <2>4, UseFields DEF NotDelegated, Reading
    <3>2. Ends(t, [use[t] EXCEPT !.rows = NoRows], "refused") /\ RestStays
      BY <2>4 DEF NotDelegated, Refused, RestStays
    <3>. QED BY <2>1, <3>1, <3>2, NothingStep
  <2>5. CASE TaskStep(t)
    BY <1>1, <2>1, <2>5, ResolvesTools, ReadSubsets DEF TaskStep, TurnTools, TurnEnds
  <2>. QED BY <1>2, <2>2, <2>3, <2>4, <2>5
<1>3. ASSUME NEW c \in Consumers \ Tasks, Consume(c) PROVE AccessInv'
  BY <1>3, ConsumeStep
<1>4. ASSUME NEW a \in Admins, Administer(a) PROVE AccessInv'
  BY <1>4, AdministerStep
<1>5. CASE UNCHANGED allVars
  BY <1>1, <1>5 DEF allVars
<1>. QED BY <1>1, <1>2, <1>3, <1>4, <1>5 DEF DelegationNext

\* The inductive invariant of the rows, the edits under way and their readers:
\* an endpoint that is yet to come has no rows (Unborn), each edit is where its
\* handler may be (Shapes), the rows say what the edits that ended have granted,
\* but for at most one that is half written (Rightful), and a consumer knows of
\* them what is so (Readers).
THEOREM AccessInvariance == DelegationSpec => []AccessInv
<1>1. DelegationInit => AccessInv
  BY InitAccess DEF DelegationInit
<1>2. AccessInv /\ [DelegationNext]_allVars => AccessInv'
  BY AccessStep
<1>. QED BY <1>1, <1>2, PTL DEF DelegationSpec

\* A request, a chat turn or the turn of a delegated task is served exactly the
\* tools its caller's teams are granted, after whatever grants, deletions, saves
\* and clones, unless an edit writes while it reads, or edits crossed or stopped.
THEOREM OnlyWhatIsGranted == DelegationSpec => []ServedAsGranted
<1>1. AccessInv => ServedAsGranted
  BY DEF AccessInv, Readers, Calm, ServedAsGranted
<1>. QED BY <1>1, AccessInvariance, PTL
=============================================================================
