----------------------------- MODULE Scheduler -----------------------------
(***************************************************************************)
(* Scheduled chat tasks (schedules/scheduler.service.ts): every replica    *)
(* ticks, reads what is due once, claims each fire in the shared store,    *)
(* advances next_run_at and runs the prompt, one after the other.  Owners  *)
(* create, edit and delete schedules meanwhile.                            *)
(*                                                                         *)
(* The store counts in Redis, and in the memory of the replica whenever    *)
(* Redis does not answer (cluster/shared-store.ts).  A store that loses    *)
(* what it counted starts another life.                                    *)
(*                                                                         *)
(* Time is a counter; a claim lives for ClaimTTL of its units (300 s).     *)
(***************************************************************************)
EXTENDS Naturals

CONSTANTS
  Replicas,
  Shared,      \* Redis
  Schedules,
  PlansOf,     \* PlansOf[s]: the plans the owner may give s, each
               \* [kind |-> "cron", n |-> period] or [kind |-> "once", n |-> runAt]
  ClaimTTL,
  Never,       \* next_run_at IS NULL
  Nobody,      \* no edit under way; no such row
  MaxClock,    \* bound of the clock
  MaxUpsets    \* bound: edits, deletions, failed statements, restarts, and
               \* failures of Redis

Times == 0..MaxClock
\* An occurrence may lie beyond the horizon of the model.
DueTimes == (Nat \ {0}) \cup {Never}

Plans == UNION {PlansOf[s] : s \in Schedules}

Row == [plan : Plans, enabled : BOOLEAN, next : DueTimes,
        status : {"none", "running", "ok", "error"}]
DueRow == [s : Schedules, at : Nat, plan : Plans]

CounterStores == Replicas \cup {Shared}
Counters == [store : CounterStores, life : Nat]

ASSUME SchedulerConstants ==
  /\ Plans \subseteq [kind : {"cron", "once"}, n : Nat \ {0}]
  /\ ClaimTTL \in Nat \ {0}
  /\ Shared \notin Replicas
  /\ Never \notin Nat
  /\ Nobody \notin Row \cup DueRow
  /\ MaxClock \in Nat /\ MaxUpsets \in Nat

VARIABLES
  clock,
  row,         \* row[s]: the chat_schedules row, or Nobody
  claims,      \* the claim counters: [s, at, via, until]
  open,        \* open[r]: the breaker of r keeps it away from Redis
  life,        \* life[x]: how often the store x has lost its counters
  tick,        \* tick[r]: the tick under way on r
  edit,        \* a PUT that has computed its next_run_at, or Nobody
  fires,       \* what was executed: [s, at, claimed, by, via]
  late,        \* somebody used a value the clock had overtaken
  edits, faults, crashes, outages

stores == <<open, life>>
bounds == <<edits, faults, crashes, outages>>
CanUpset == edits + faults + crashes + outages < MaxUpsets
vars == <<clock, row, claims, stores, tick, edit, fires, late, bounds>>

Idle == [pc |-> "idle", now |-> 0, due |-> {}, job |-> Nobody, claimed |-> 0,
         via |-> [store |-> Shared, life |-> 0]]

TickState ==
  [pc : {"idle", "claim", "advance", "execute", "ok", "error"},
   now : Times, due : SUBSET DueRow, job : DueRow \cup {Nobody}, claimed : Times,
   via : Counters]

TypeOK ==
  /\ clock \in Times
  /\ row \in [Schedules -> Row \cup {Nobody}]
  /\ claims \subseteq [s : Schedules, at : Nat, via : Counters, until : Nat]
  /\ open \in [Replicas -> BOOLEAN] /\ life \in [CounterStores -> Nat]
  /\ tick \in [Replicas -> TickState]
  /\ \A r \in Replicas : tick[r].pc \notin {"idle", "claim"} => tick[r].job # Nobody
  /\ edit \in [s : Schedules, plan : Plans, enabled : BOOLEAN, next : DueTimes]
             \cup {Nobody}
  /\ fires \subseteq [s : Schedules, at : Nat, claimed : Times, by : Replicas,
                 via : Counters]
  /\ late \in BOOLEAN
  /\ edits \in Nat /\ faults \in Nat /\ crashes \in Nat /\ outages \in Nat

Init ==
  /\ clock = 0
  /\ row = [s \in Schedules |-> Nobody]
  /\ claims = {}
  /\ open = [r \in Replicas |-> FALSE]
  /\ life = [x \in CounterStores |-> 0]
  /\ tick = [r \in Replicas |-> Idle]
  /\ edit = Nobody
  /\ fires = {}
  /\ late = FALSE
  /\ edits = 0 /\ faults = 0 /\ crashes = 0 /\ outages = 0

\* computeNextRun: the next multiple of the period, or the instant itself
\* while it is in the future.
NextRun(plan, from) ==
  IF plan.kind = "cron" THEN ((from \div plan.n) + 1) * plan.n
  ELSE IF plan.n > from THEN plan.n
  ELSE Never

IsDue(s) ==
  /\ row[s] # Nobody
  /\ row[s].enabled
  /\ row[s].next # Never
  /\ row[s].next <= clock

\* A store in its present life, and those in which r may count a claim.
Via(x) == [store |-> x, life |-> life[x]]
Reach(r) == {Via(Shared), Via(r)}
Counts(x) == \E c \in claims : c.via = Via(x)

-----------------------------------------------------------------------------
(* Time.  It is late when a claim runs out while somebody still has its    *)
(* fire to claim, or has claimed it there and still has to advance the     *)
(* row, and when an edit or an advance is stored only after the run it has *)
(* computed.                                                               *)

Holds(r, c) ==
  \/ c.via \in Reach(r) /\ \E d \in tick[r].due : d.s = c.s /\ d.at = c.at
  \/ /\ tick[r].pc = "advance" /\ tick[r].via = c.via
     /\ tick[r].job.s = c.s /\ tick[r].job.at = c.at

ClockTick ==
  /\ clock < MaxClock
  /\ clock' = clock + 1
  /\ late' = (\/ late
              \/ \E r \in Replicas, c \in claims : c.until <= clock + 1 /\ Holds(r, c)
              \/ edit # Nobody /\ edit.next # Never /\ edit.next <= clock + 1)
  /\ UNCHANGED <<row, claims, stores, tick, edit, fires, bounds>>

-----------------------------------------------------------------------------
(* The tick of a replica.                                                  *)

\* Mutant of DueRows: a fire is due only after its instant.
DueRowsStrict == {[s |-> s, at |-> row[s].next, plan |-> row[s].plan] :
                    s \in {x \in Schedules : IsDue(x) /\ row[x].next < clock}}

DueRows == {[s |-> s, at |-> row[s].next, plan |-> row[s].plan] :
              s \in {x \in Schedules : IsDue(x)}}

StartTick(r) ==
  /\ tick[r].pc = "idle"
  /\ \E s \in Schedules : IsDue(s)
  /\ tick' = [tick EXCEPT ![r] =
       [Idle EXCEPT !.pc = "claim", !.now = clock, !.due = DueRows]]
  /\ UNCHANGED <<clock, row, claims, stores, edit, fires, late, bounds>>

EndTick(r) ==
  /\ tick[r].pc = "claim" /\ tick[r].due = {}
  /\ tick' = [tick EXCEPT ![r] = Idle]
  /\ UNCHANGED <<clock, row, claims, stores, edit, fires, late, bounds>>

\* Mutant of Claimed: nobody finds the counter of another replica.
ClaimedNever(d, via) == FALSE

\* The window of an earlier incr for this fire is still open in the store.
Claimed(d, via) ==
  \E c \in claims : c.s = d.s /\ c.at = d.at /\ c.via = via /\ c.until > clock

\* incr in each of the stores W: it opens a window where none is open.
Incr(d, W) ==
  LET opened == {w \in W : ~Claimed(d, w)}
  IN  {c \in claims : ~(c.s = d.s /\ c.at = d.at /\ c.via \in opened)} \cup
      {[s |-> d.s, at |-> d.at, via |-> w, until |-> clock + ClaimTTL] : w \in opened}

\* The rows are handled in the order of next_run_at.  The incr of r reaches
\* the stores W and is answered from via; who gets 1 runs the fire.
ClaimNext(r, via, W) ==
  /\ tick[r].pc = "claim"
  /\ \E d \in tick[r].due :
       /\ \A e \in tick[r].due : d.at <= e.at
       /\ claims' = Incr(d, W)
       /\ tick' = IF Claimed(d, via) THEN [tick EXCEPT ![r].due = @ \ {d}]
                  ELSE [tick EXCEPT ![r].due = @ \ {d}, ![r].pc = "advance",
                                    ![r].job = d, ![r].claimed = clock, ![r].via = via]
  /\ UNCHANGED <<clock, row, life, edit, fires, late, edits, faults, crashes>>

Claim(r) ==
  /\ LET via == IF open[r] THEN Via(r) ELSE Via(Shared) IN ClaimNext(r, via, {via})
  /\ UNCHANGED <<open, outages>>

\* The command fails or times out, applied or not: the breaker opens, and the
\* memory of r counts instead.
ClaimDegraded(r) ==
  /\ CanUpset
  /\ ~open[r]
  /\ ClaimNext(r, Via(r), {Via(r)}) \/ ClaimNext(r, Via(r), Reach(r))
  /\ open' = [open EXCEPT ![r] = TRUE]
  /\ outages' = outages + 1

\* Mutant of Advanced: next_run_at stays until the run is over.
AdvancedNot(d, now) == [row[d.s] EXCEPT !.status = "running"]

\* The row after repos.advance, from the plan the tick read.
Advanced(d, now) ==
  [row[d.s] EXCEPT !.next = NextRun(d.plan, now), !.status = "running"]

\* The next run, computed from when the tick began, has already come.
Overtaken(r) ==
  /\ NextRun(tick[r].job.plan, tick[r].now) # Never
  /\ NextRun(tick[r].job.plan, tick[r].now) <= clock

AdvanceRow(d, now) ==
  row' = IF row[d.s] = Nobody THEN row ELSE [row EXCEPT ![d.s] = Advanced(d, now)]

Advance(r) ==
  /\ tick[r].pc = "advance"
  /\ AdvanceRow(tick[r].job, tick[r].now)
  /\ tick' = [tick EXCEPT ![r].pc = "execute"]
  /\ late' = (late \/ Overtaken(r))
  /\ UNCHANGED <<clock, claims, stores, edit, fires, bounds>>

\* The chat turn, which takes as long as it takes.
Execute(r) ==
  /\ tick[r].pc = "execute"
  /\ fires' = fires \cup {[s |-> tick[r].job.s, at |-> tick[r].job.at,
                           claimed |-> tick[r].claimed, by |-> r, via |-> tick[r].via]}
  /\ \E outcome \in {"ok", "error"} : tick' = [tick EXCEPT ![r].pc = outcome]
  /\ UNCHANGED <<clock, row, claims, stores, edit, late, bounds>>

Finished(s, outcome) == [row[s] EXCEPT !.status = outcome]

FinishRow(s, outcome) ==
  row' = IF row[s] = Nobody THEN row ELSE [row EXCEPT ![s] = Finished(s, outcome)]

Finish(r) ==
  /\ tick[r].pc \in {"ok", "error"}
  /\ FinishRow(tick[r].job.s, tick[r].pc)
  /\ tick' = [tick EXCEPT ![r] =
       [Idle EXCEPT !.pc = "claim", !.now = tick[r].now, !.due = tick[r].due]]
  /\ UNCHANGED <<clock, claims, stores, edit, fires, late, bounds>>

\* A failed advance, or a failed finish of a failed run, ends the tick with
\* the rest of its list; a failed finish of a good run records an error.
TickFault(r) ==
  /\ CanUpset
  /\ faults' = faults + 1
  /\ \/ /\ tick[r].pc = "advance"
        /\ UNCHANGED row \/ AdvanceRow(tick[r].job, tick[r].now)
        /\ tick' = [tick EXCEPT ![r] = Idle]
        /\ late' = (late \/ Overtaken(r))
     \/ /\ tick[r].pc = "ok"
        /\ UNCHANGED row \/ FinishRow(tick[r].job.s, "ok")
        /\ tick' = [tick EXCEPT ![r].pc = "error"]
        /\ UNCHANGED late
     \/ /\ tick[r].pc = "error"
        /\ UNCHANGED row \/ FinishRow(tick[r].job.s, "error")
        /\ tick' = [tick EXCEPT ![r] = Idle]
        /\ UNCHANGED late
  /\ UNCHANGED <<clock, claims, stores, edit, fires, edits, crashes, outages>>

\* What its memory had counted is gone with the process.
Crash(r) ==
  /\ CanUpset
  /\ tick[r].pc # "idle" \/ open[r] \/ Counts(r)
  /\ crashes' = crashes + 1
  /\ tick' = [tick EXCEPT ![r] = Idle]
  /\ open' = [open EXCEPT ![r] = FALSE]
  /\ life' = [life EXCEPT ![r] = @ + 1]
  /\ UNCHANGED <<clock, row, claims, edit, fires, late, edits, faults, outages>>

-----------------------------------------------------------------------------
(* Redis.                                                                  *)

\* An 'error' of the connection opens the breaker, of one replica or more.
Trip ==
  /\ CanUpset
  /\ \E down \in SUBSET Replicas :
       /\ \E r \in down : ~open[r]
       /\ open' = [r \in Replicas |-> open[r] \/ r \in down]
  /\ outages' = outages + 1
  /\ UNCHANGED <<clock, row, claims, life, tick, edit, fires, late, edits, faults, crashes>>

\* The cooldown is over, or the connection is 'ready' again.
Recover(r) ==
  /\ open[r]
  /\ open' = [open EXCEPT ![r] = FALSE]
  /\ UNCHANGED <<clock, row, claims, life, tick, edit, fires, late, bounds>>

\* Redis restarts without its keys.
Forget ==
  /\ CanUpset
  /\ Counts(Shared)
  /\ life' = [life EXCEPT ![Shared] = @ + 1]
  /\ outages' = outages + 1
  /\ UNCHANGED <<clock, row, claims, open, tick, edit, fires, late, edits, faults, crashes>>

-----------------------------------------------------------------------------
(* The owner's requests (routes/chat.routes.ts).                           *)

NextOf(plan, enabled) == IF enabled THEN NextRun(plan, clock) ELSE Never

Create(s) ==
  /\ row[s] = Nobody
  /\ CanUpset \/ fires = {}
  /\ \E plan \in PlansOf[s], enabled \in BOOLEAN :
       row' = [row EXCEPT ![s] = [plan |-> plan, enabled |-> enabled,
                                  next |-> NextOf(plan, enabled), status |-> "none"]]
  /\ UNCHANGED <<clock, claims, stores, tick, edit, fires, late, bounds>>

\* A PUT reads the row and computes next_run_at, then awaits the update.
EditCompute(s) ==
  /\ CanUpset
  /\ edit = Nobody /\ row[s] # Nobody
  /\ \E plan \in PlansOf[s], enabled \in BOOLEAN :
       edit' = [s |-> s, plan |-> plan, enabled |-> enabled,
                next |-> NextOf(plan, enabled)]
  /\ edits' = edits + 1
  /\ UNCHANGED <<clock, row, claims, stores, tick, fires, late, faults, crashes, outages>>

EditApply ==
  /\ edit # Nobody
  /\ row' = IF row[edit.s] = Nobody THEN row
            ELSE [row EXCEPT ![edit.s] =
                    [@ EXCEPT !.plan = edit.plan, !.enabled = edit.enabled,
                              !.next = edit.next]]
  /\ edit' = Nobody
  /\ UNCHANGED <<clock, claims, stores, tick, fires, late, bounds>>

Delete(s) ==
  /\ CanUpset
  /\ row[s] # Nobody
  /\ row' = [row EXCEPT ![s] = Nobody]
  /\ edits' = edits + 1
  /\ UNCHANGED <<clock, claims, stores, tick, edit, fires, late, faults, crashes, outages>>

-----------------------------------------------------------------------------
TickStep(r) ==
  \/ StartTick(r)
  \/ Claim(r)
  \/ Advance(r)
  \/ Execute(r)
  \/ Finish(r)
  \/ EndTick(r)

Next ==
  \/ ClockTick
  \/ \E r \in Replicas : TickStep(r) \/ TickFault(r) \/ Crash(r)
  \/ \E r \in Replicas : ClaimDegraded(r) \/ Recover(r)
  \/ Trip \/ Forget
  \/ \E s \in Schedules : Create(s) \/ EditCompute(s) \/ Delete(s)
  \/ EditApply

Spec == Init /\ [][Next]_vars

\* setInterval keeps ticking, awaited calls return, the chat turn ends.
Fairness == \A r \in Replicas : WF_vars(TickStep(r))

FairSpec == Spec /\ Fairness

-----------------------------------------------------------------------------
(* Properties.                                                             *)

\* Two executions of one fire that one store has counted are a claim's
\* lifetime apart, whatever replicas, faults, crashes, outages and edits do.
FiresAreSpaced ==
  \A f, g \in fires :
    f.s = g.s /\ f.at = g.at /\ f.via = g.via /\ f # g =>
      f.claimed >= g.claimed + ClaimTTL \/ g.claimed >= f.claimed + ClaimTTL

\* Why: the claim of a fire in a store covers every execution the store has
\* counted, done or under way.
Apart(x, y) == x >= y + ClaimTTL \/ y >= x + ClaimTTL
Under(r) == tick[r].pc \in {"advance", "execute"}
Covered(s, at, via, claimed) ==
  \E c \in claims : c.s = s /\ c.at = at /\ c.via = via /\ c.until >= claimed + ClaimTTL

ClaimsCover ==
  /\ \A c, d \in claims : c.s = d.s /\ c.at = d.at /\ c.via = d.via => c = d
  /\ \A f \in fires : Covered(f.s, f.at, f.via, f.claimed)
  /\ \A r \in Replicas :
       Under(r) => Covered(tick[r].job.s, tick[r].job.at, tick[r].via, tick[r].claimed)

ExecutionsApart ==
  /\ FiresAreSpaced
  /\ \A r \in Replicas, f \in fires :
       Under(r) /\ f.s = tick[r].job.s /\ f.at = tick[r].job.at /\ f.via = tick[r].via =>
         Apart(tick[r].claimed, f.claimed)
  /\ \A r, q \in Replicas :
       Under(r) /\ Under(q) /\ r # q /\ tick[r].via = tick[q].via
         /\ tick[r].job.s = tick[q].job.s /\ tick[r].job.at = tick[q].job.at =>
         Apart(tick[r].claimed, tick[q].claimed)

IndInv == TypeOK /\ ClaimsCover /\ ExecutionsApart

\* A fire is executed once, by one replica, unless its claim ran out while a
\* replica still held it, or an edit or an advance was stored only after the
\* run it had computed.  When Redis has failed, once for each store that
\* counted it, for Redis, and for the memory of a replica cut off from it: the
\* comment on SchedulerService, that incr returns 1 to exactly one replica, is
\* true only while Redis answers.
FiredOnceUnlessLate ==
  ~late => \A f, g \in fires :
    f.s = g.s /\ f.at = g.at => f = g \/ (f.via # g.via /\ outages > 0)

\* The instants at which s may be due.
Runs(s) == {NextRun(plan, from) : plan \in PlansOf[s], from \in Times} \cap Times

\* A due fire is executed, whatever store counts its claim, unless something
\* else failed, its owner edited it or a late replica advanced the row past it.
DueTaskRuns ==
  \A s \in Schedules : \A t \in Runs(s) :
    (IsDue(s) /\ row[s].next = t) ~>
      \/ \E f \in fires : f.s = s /\ f.at = t
      \/ faults + crashes + edits > 0 \/ late

=============================================================================
