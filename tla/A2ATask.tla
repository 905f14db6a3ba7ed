------------------------------ MODULE A2ATask ------------------------------
(***************************************************************************)
(* The life of an inbound A2A task (a2a/a2a.service.ts): the run that      *)
(* drives it through a chat turn, tasks/cancel requests racing with it,    *)
(* resubscribed streams that poll the stored row, and push notifications.  *)
(* Delegation composes it with what the caller may use.                    *)
(*                                                                         *)
(* The row is shared by all of them and every update of it is an           *)
(* unconditional UPDATE; each await is a step of its own.                  *)
(***************************************************************************)
EXTENDS Naturals

CONSTANTS
  Tasks,       \* task ids
  Cancels,     \* tasks/cancel requests
  Subs,        \* tasks/resubscribe requests
  Users,       \* callers
  Owner,       \* Owner[t]: the caller that delegates the task t
  NoTask,      \* "no task yet", for requests that have not arrived
  MaxFaults,   \* bound: failed database statements and deliveries
  MaxCrashes   \* bound: requests that die with their process

ASSUME A2AConstants ==
  /\ Owner \in [Tasks -> Users]
  /\ NoTask \notin Tasks
  /\ MaxFaults \in Nat
  /\ MaxCrashes \in Nat

VARIABLES
  state,       \* state[t]: a2a_tasks.state, "absent" before the insert
  pc,          \* pc[t]: where the run of the task is
  hook,        \* hook[t]: the task's push notification config
  outbox,      \* firePush calls in flight
  received,    \* what the webhooks have received
  can,         \* can[k]: the cancel request k
  sub,         \* sub[s]: the resubscribe request s
  faults, crashes

pushVars == <<hook, outbox, received>>
bounds == <<faults, crashes>>
vars == <<state, pc, hook, outbox, received, can, sub, faults, crashes>>

Results == {"completed", "failed"}
Terminal == Results \cup {"canceled"}
States == Terminal \cup {"absent", "submitted", "working"}
\* "over": runTask returned; "dead": it threw or its process died;
\* "orphaned": the request failed after the task was created.
Running == {"created", "chat", "check", "complete", "recover", "fail"}
RunPcs == Running \cup {"idle", "over", "dead", "orphaned"}
\* "on": registered with the task and not touched since; "late": set later.
Hooks == {"off", "on", "late"}
Pushes == [task : Tasks, state : States]

TypeOK ==
  /\ state \in [Tasks -> States]
  /\ pc \in [Tasks -> RunPcs]
  /\ hook \in [Tasks -> Hooks]
  /\ outbox \subseteq [task : Tasks, state : States, by : Cancels \cup {NoTask}]
  /\ received \subseteq Pushes
  /\ can \in [Cancels -> [pc : {"idle", "update", "reread", "answered",
                                "refused", "dead"},
                          task : Tasks \cup {NoTask}]]
  /\ sub \in [Subs -> [pc : {"idle", "poll", "done", "left"},
                       task : Tasks \cup {NoTask},
                       last : States,
                       finals : 0..1]]
  /\ faults \in Nat
  /\ crashes \in Nat

Init ==
  /\ state = [t \in Tasks |-> "absent"]
  /\ pc = [t \in Tasks |-> "idle"]
  /\ hook = [t \in Tasks |-> "off"]
  /\ outbox = {}
  /\ received = {}
  /\ can = [k \in Cancels |-> [pc |-> "idle", task |-> NoTask]]
  /\ sub = [s \in Subs |-> [pc |-> "idle", task |-> NoTask, last |-> "absent",
                            finals |-> 0]]
  /\ faults = 0
  /\ crashes = 0

Fault == faults < MaxFaults /\ faults' = faults + 1

-----------------------------------------------------------------------------
(* The run of a task.                                                      *)

SetState(t, s) == state' = [state EXCEPT ![t] = s]
Goto(t, p) == pc' = [pc EXCEPT ![t] = p]
FirePush(t, s, by) ==
  outbox' = outbox \cup {[task |-> t, state |-> s, by |-> by]}

\* message/send and message/stream: create the task and register the webhook
\* the caller gave; a refused webhook fails the request, not the task.
MessageSend(t) ==
  /\ pc[t] = "idle"
  /\ SetState(t, "submitted")
  /\ \/ Goto(t, "created") /\ UNCHANGED hook
     \/ Goto(t, "created") /\ hook' = [hook EXCEPT ![t] = "on"]
     \/ Goto(t, "orphaned") /\ UNCHANGED hook
  /\ UNCHANGED <<outbox, received, can, sub, bounds>>

StartWork(t) ==
  /\ pc[t] = "created"
  /\ SetState(t, "working")
  /\ Goto(t, "chat")
  /\ UNCHANGED <<pushVars, can, sub, bounds>>

\* executeViaChat returns or throws.
ChatTurn(t) ==
  /\ pc[t] = "chat"
  /\ Goto(t, "check") \/ Goto(t, "recover")
  /\ UNCHANGED <<state, pushVars, can, sub, bounds>>

\* Mutant of Interrupted: nobody looks whether the task was canceled.
NeverInterrupted(t) == FALSE

\* "If the task reached a terminal state ... don't clobber it": the row is
\* read once, before the result is written.
Interrupted(t) == state[t] \in Terminal

Check(t) ==
  /\ pc[t] = "check"
  /\ Goto(t, IF Interrupted(t) THEN "over" ELSE "complete")
  /\ UNCHANGED <<state, pushVars, can, sub, bounds>>

Complete(t) ==
  /\ pc[t] = "complete"
  /\ SetState(t, "completed")
  /\ Goto(t, "over")
  /\ FirePush(t, "completed", NoTask)
  /\ UNCHANGED <<hook, received, can, sub, bounds>>

\* Mutant of AfterThrow: the catch block only logs.
AfterThrowLogged(t) == "over"

AfterThrow(t) == IF Interrupted(t) THEN "over" ELSE "fail"

\* The catch block: the same check, then the failure.
Recover(t) ==
  /\ pc[t] = "recover"
  /\ Goto(t, AfterThrow(t))
  /\ UNCHANGED <<state, pushVars, can, sub, bounds>>

Fail(t) ==
  /\ pc[t] = "fail"
  /\ SetState(t, "failed")
  /\ Goto(t, "over")
  /\ FirePush(t, "failed", NoTask)
  /\ UNCHANGED <<hook, received, can, sub, bounds>>

\* A statement of the run fails, before or after the database applied it.
\* Inside the try block the catch block runs, elsewhere runTask throws.
RunFault(t) ==
  /\ Fault
  /\ \/ /\ pc[t] = "created"
        /\ Goto(t, "dead")
        /\ UNCHANGED state \/ SetState(t, "working")
     \/ /\ pc[t] = "check"
        /\ Goto(t, "recover")
        /\ UNCHANGED state
     \/ /\ pc[t] = "complete"
        /\ Goto(t, "recover")
        /\ UNCHANGED state \/ SetState(t, "completed")
     \/ /\ pc[t] = "recover"
        /\ Goto(t, "dead")
        /\ UNCHANGED state
     \/ /\ pc[t] = "fail"
        /\ Goto(t, "dead")
        /\ UNCHANGED state \/ SetState(t, "failed")
  /\ UNCHANGED <<pushVars, can, sub, crashes>>

-----------------------------------------------------------------------------
(* tasks/cancel.                                                           *)

\* ownedTask, and the check that the task has not ended.
Cancelable(t, u) ==
  /\ state[t] # "absent"
  /\ u = Owner[t]
  /\ state[t] \notin Terminal

CancelCheck(k) ==
  /\ can[k].pc = "idle"
  /\ \E t \in Tasks, u \in Users :
       can' = [can EXCEPT ![k] =
                 [pc |-> IF Cancelable(t, u) THEN "update" ELSE "refused",
                  task |-> t]]
  /\ UNCHANGED <<state, pc, pushVars, sub, bounds>>

CancelUpdate(k) ==
  /\ can[k].pc = "update"
  /\ SetState(can[k].task, "canceled")
  /\ can' = [can EXCEPT ![k].pc = "reread"]
  /\ UNCHANGED <<pc, pushVars, sub, bounds>>

\* Mutant of CancelPush: the webhook is not told of a cancellation.
CancelPushNothing(k) == UNCHANGED outbox

\* The row is read again; the answer and the push carry what it says now.
CancelPush(k) == FirePush(can[k].task, state[can[k].task], k)

CancelReread(k) ==
  /\ can[k].pc = "reread"
  /\ CancelPush(k)
  /\ can' = [can EXCEPT ![k].pc = "answered"]
  /\ UNCHANGED <<state, pc, hook, received, sub, bounds>>

CancelFault(k) ==
  /\ Fault
  /\ can[k].pc \in {"update", "reread"}
  /\ \/ UNCHANGED state
     \/ can[k].pc = "update" /\ SetState(can[k].task, "canceled")
  /\ can' = [can EXCEPT ![k].pc = "dead"]
  /\ UNCHANGED <<pc, pushVars, sub, crashes>>

-----------------------------------------------------------------------------
(* tasks/resubscribe: poll the row until it is terminal.                   *)

\* Mutant of AfterLoop: the final frame is sent again after the loop.
AfterLoopTwice(finals, s) == IF s \in Terminal THEN finals + 1 ELSE finals

\* "Only emit a final terminal frame if the in-loop detector didn't".
AfterLoop(finals, s) ==
  IF s \in Terminal /\ finals = 0 THEN finals + 1 ELSE finals

\* The subscription has read that the task's state is s.
Observe(k, t, finals, s) ==
  sub' = [sub EXCEPT ![k] =
    IF s \in Terminal
    THEN [pc |-> "done", task |-> t, last |-> s, finals |-> AfterLoop(finals, s)]
    ELSE [pc |-> "poll", task |-> t, last |-> s, finals |-> finals]]

Resubscribe(k) ==
  /\ sub[k].pc = "idle"
  /\ \E t \in Tasks : state[t] # "absent" /\ Observe(k, t, 0, state[t])
  /\ UNCHANGED <<state, pc, pushVars, can, bounds>>

\* A poll that finds a new state emits it, as a final frame if terminal.
Poll(k) ==
  /\ sub[k].pc = "poll"
  /\ LET s == state[sub[k].task]
     IN /\ s # sub[k].last
        /\ Observe(k, sub[k].task, IF s \in Terminal THEN 1 ELSE 0, s)
  /\ UNCHANGED <<state, pc, pushVars, can, bounds>>

\* The ten minutes are over, or the client has gone.
Leave(k) ==
  /\ sub[k].pc = "poll"
  /\ sub' = [sub EXCEPT ![k].pc = "left"]
  /\ UNCHANGED <<state, pc, pushVars, can, bounds>>

-----------------------------------------------------------------------------
(* Push notifications and crashes.                                         *)

\* Replacing a config is a DELETE and an INSERT: PushDelete, then PushSet.
PushSet(t) ==
  /\ state[t] # "absent" /\ hook[t] = "off"
  /\ hook' = [hook EXCEPT ![t] = "late"]
  /\ UNCHANGED <<state, pc, outbox, received, can, sub, bounds>>

PushDelete(t) ==
  /\ hook[t] # "off"
  /\ hook' = [hook EXCEPT ![t] = "off"]
  /\ UNCHANGED <<state, pc, outbox, received, can, sub, bounds>>

\* firePush reads the configs and posts; a failed delivery is only logged.
Deliver(m) ==
  /\ outbox' = outbox \ {m}
  /\ \/ /\ hook[m.task] # "off"
        /\ received' = received \cup {[task |-> m.task, state |-> m.state]}
        /\ UNCHANGED faults
     \/ hook[m.task] = "off" /\ UNCHANGED <<received, faults>>
     \/ Fault /\ UNCHANGED received
  /\ UNCHANGED <<state, pc, hook, can, sub, crashes>>

\* A process dies with a run, a cancel request or a push in it; the row stays.
Crash ==
  /\ crashes < MaxCrashes
  /\ crashes' = crashes + 1
  /\ \/ /\ \E t \in Tasks : pc[t] \in Running /\ Goto(t, "dead")
        /\ UNCHANGED <<can, outbox>>
     \/ /\ \E k \in Cancels : /\ can[k].pc \in {"update", "reread"}
                              /\ can' = [can EXCEPT ![k].pc = "dead"]
        /\ UNCHANGED <<pc, outbox>>
     \/ /\ \E m \in outbox : outbox' = outbox \ {m}
        /\ UNCHANGED <<pc, can>>
  /\ UNCHANGED <<state, hook, received, sub, faults>>

\* The steps of a run but its chat turn.
RunStep(t) ==
  \/ StartWork(t)
  \/ Check(t)
  \/ Complete(t)
  \/ Recover(t)
  \/ Fail(t)

\* What goes on beside the runs: faults, push configurations, cancellations,
\* subscriptions, deliveries and crashes.
Beside ==
  \/ \E t \in Tasks : RunFault(t) \/ PushSet(t) \/ PushDelete(t)
  \/ \E k \in Cancels : \/ CancelCheck(k)
                        \/ CancelUpdate(k)
                        \/ CancelReread(k)
                        \/ CancelFault(k)
  \/ \E k \in Subs : Resubscribe(k) \/ Poll(k) \/ Leave(k)
  \/ \E m \in outbox : Deliver(m)
  \/ Crash

-----------------------------------------------------------------------------
(* Properties.                                                             *)

\* A cancellation stored while the chat turn runs survives the end of the
\* turn for good, whether it succeeds, throws or a statement fails after it
\* (a2a.service.ts:377); and the result of a run is written once: a completed
\* task is never failed afterwards nor the reverse, not even when the write
\* succeeded and its acknowledgement was lost, and it never goes back to work.
FinalStateSticks ==
  /\ \A t \in Tasks :
       [](pc[t] \in {"chat", "check", "recover"} /\ state[t] = "canceled"
            => [](state[t] = "canceled"))
  /\ [][\A t \in Tasks : state[t] \in Results =>
          state'[t] \in {state[t], "canceled"}]_vars

\* Whoever wrote the stored state last, once everything has settled the
\* webhook that came with the task was told that state.
FinalStatePushed ==
  \A t \in Tasks :
    /\ pc[t] = "over"
    /\ hook[t] = "on"
    /\ \A k \in Cancels : can[k].task = t => can[k].pc \in {"answered", "refused"}
    /\ \A m \in outbox : m.task # t
    /\ faults + crashes = 0
    => [task |-> t, state |-> state[t]] \in received

\* A task that is run reaches a terminal state, unless a statement failed or
\* its process died.
TaskEnds ==
  \A t \in Tasks :
    (pc[t] = "created" ~> state[t] \in Terminal \/ faults + crashes > 0)

\* A subscriber that stays is told the end of the task, with exactly one final
\* frame (a2a.service.ts:271), unless a fault or a crash left the task without.
SubscriberIsTold ==
  \A k \in Subs, t \in Tasks :
    sub[k].pc = "poll" /\ sub[k].task = t
      ~> \/ sub[k].pc = "left"
         \/ sub[k].pc = "done" /\ sub[k].finals = 1
         \/ faults + crashes > 0
         \/ pc[t] = "orphaned"
=============================================================================
