------------------------- MODULE Conversations_proof -------------------------
(***************************************************************************)
(* Proofs about the turns of conversations: those a schedule asks for      *)
(* (Scheduler, for any number of replicas and schedules, any plans and any *)
(* lifetime of a claim), and those a user asks for on the chat page        *)
(* (ChatView over ChatTurn, for any conversations, turns and tools, any    *)
(* number of clicks and any failures).                                     *)
(***************************************************************************)
EXTENDS Scheduler, ChatView, FiniteSetTheorems, FunctionTheorems, WellFoundedInduction, TLAPS

-----------------------------------------------------------------------------
(* Scheduled turns.                                                        *)

\* The next run is a later instant or none.
LEMMA NextRunType ==
  ASSUME NEW plan \in Plans, NEW from \in Nat
  PROVE  NextRun(plan, from) \in DueTimes
<1>1. plan.n \in Nat \ {0}
  BY SchedulerConstants
<1>2. ((from \div plan.n) + 1) * plan.n \in Nat \ {0}
  <2>1. from \div plan.n \in Nat
    BY <1>1, SMT
  <2>2. \A x, y \in Nat : y # 0 => (x + 1) * y \in Nat \ {0}
    BY SMT
  <2>. QED BY <1>1, <2>1, <2>2
<1>. QED BY <1>1, <1>2 DEF NextRun, DueTimes

LEMMA InitIndInv == Init => IndInv
<1>. SUFFICES ASSUME Init PROVE IndInv
  OBVIOUS
<1>1. TypeOK
  <2>1. Idle \in TickState /\ Idle.pc = "idle" /\ 0 \in Times
    BY SchedulerConstants DEF Times, TickState, Idle, Counters, CounterStores
  <2>2. tick \in [Replicas -> TickState] /\ \A r \in Replicas : tick[r].pc = "idle"
    BY <2>1 DEF Init
  <2>. QED BY <2>1, <2>2 DEF Init, TypeOK
<1>2. ClaimsCover /\ ExecutionsApart
  BY DEF Init, ClaimsCover, ExecutionsApart, FiresAreSpaced, Under, Idle
<1>. QED BY <1>1, <1>2 DEF IndInv

\* What a row is made of.
LEMMA RowFields ==
  ASSUME TypeOK, NEW s \in Schedules, row[s] # Nobody
  PROVE  /\ row[s] \in Row
         /\ row[s].plan \in Plans
         /\ row[s].next \in DueTimes
BY DEF TypeOK, Row

LEMMA IdleType == /\ Idle \in TickState /\ Idle.pc = "idle"
                  /\ Idle.via = [store |-> Shared, life |-> 0]
BY SchedulerConstants DEF Times, TickState, Idle, Counters, CounterStores

LEMMA ReachType == ASSUME TypeOK, NEW r \in Replicas PROVE Reach(r) \subseteq Counters
BY DEF TypeOK, Reach, Via, Counters, CounterStores

\* What a claim does, healthy or degraded: the incr for d reaches the stores W
\* and is answered from via.
Takes(r, via, W, d) ==
  /\ via \in W /\ claims' = Incr(d, W)
  /\ tick[r].pc = "claim"
  /\ tick' \in [Replicas -> TickState]
  /\ \A q \in Replicas \ {r} : tick'[q] = tick[q]
  /\ tick'[r].due = tick[r].due \ {d}
  /\ Claimed(d, via) => tick'[r].pc = "claim"
  /\ ~Claimed(d, via) => /\ tick'[r].pc = "advance" /\ tick'[r].job = d
                          /\ tick'[r].claimed = clock /\ tick'[r].via = via
  /\ UNCHANGED <<clock, row, life, edit, fires, late, edits, faults, crashes>>

LEMMA ClaimTakes ==
  ASSUME TypeOK, NEW r \in Replicas, Claim(r) \/ ClaimDegraded(r)
  PROVE  \E via \in Reach(r), W \in SUBSET Reach(r), d \in tick[r].due : Takes(r, via, W, d)
<1>1. Via(Shared) \in Reach(r) /\ Via(r) \in Reach(r)
  BY DEF Reach
<1>2. \E via \in Reach(r) : ClaimNext(r, via, {via}) \/ ClaimNext(r, via, Reach(r))
  <2>1. CASE Claim(r)
    <3>1. CASE open[r]
      BY <1>1, <2>1, <3>1, Zenon DEF Claim
    <3>2. CASE ~open[r]
      BY <1>1, <2>1, <3>2, Zenon DEF Claim
    <3>. QED BY <3>1, <3>2
  <2>2. CASE ClaimDegraded(r)
    BY <1>1, <2>2, Zenon DEF ClaimDegraded
  <2>. QED BY <2>1, <2>2
<1>3. PICK via \in Reach(r) : ClaimNext(r, via, {via}) \/ ClaimNext(r, via, Reach(r))
  BY <1>2
<1>4. PICK W \in SUBSET Reach(r) : ClaimNext(r, via, W) /\ via \in W
  <2>1. {via} \in SUBSET Reach(r) /\ via \in {via} /\ Reach(r) \in SUBSET Reach(r)
    BY <1>3
  <2>. QED BY <1>3, <2>1, Zenon
<1>5. PICK d \in tick[r].due :
        /\ claims' = Incr(d, W)
        /\ tick' = IF Claimed(d, via) THEN [tick EXCEPT ![r].due = @ \ {d}]
                   ELSE [tick EXCEPT ![r].due = @ \ {d}, ![r].pc = "advance",
                                     ![r].job = d, ![r].claimed = clock, ![r].via = via]
  BY <1>4, Zenon DEF ClaimNext
<1>6. /\ tick \in [Replicas -> TickState] /\ tick[r] \in TickState /\ tick[r].pc = "claim"
      /\ d \in DueRow /\ via \in Counters /\ clock \in Times
      /\ UNCHANGED <<clock, row, life, edit, fires, late, edits, faults, crashes>>
  BY <1>3, <1>4, <1>5, ReachType DEF TypeOK, TickState, ClaimNext
<1>7. CASE Claimed(d, via)
  BY <1>4, <1>5, <1>6, <1>7 DEF Takes, TickState
<1>8. CASE ~Claimed(d, via)
  <2>1. PICK x : x = [tick[r] EXCEPT !.due = @ \ {d}, !.pc = "advance", !.job = d,
                                     !.claimed = clock, !.via = via]
    OBVIOUS
  <2>2. tick' = [tick EXCEPT ![r] = x]
    BY <1>5, <1>6, <1>8, <2>1
  <2>3. /\ x \in TickState /\ x.due = tick[r].due \ {d} /\ x.pc = "advance" /\ x.job = d
        /\ x.claimed = clock /\ x.via = via
    BY <1>6, <2>1 DEF TickState
  <2>4. /\ tick' \in [Replicas -> TickState] /\ tick'[r] = x
        /\ \A q \in Replicas \ {r} : tick'[q] = tick[q]
    BY <1>6, <2>2, <2>3
  <2>5. Takes(r, via, W, d)
    BY <1>4, <1>5, <1>6, <1>8, <2>3, <2>4, Zenon DEF Takes
  <2>. QED BY <2>5
<1>. QED BY <1>7, <1>8

\* incr opens windows and closes none; what it opens covers the instant of it.
LEMMA IncrOpens ==
  ASSUME TypeOK, NEW d \in DueRow, NEW W \in SUBSET Counters,
         claims' = Incr(d, W), clock' = clock
  PROVE  /\ claims' \subseteq [s : Schedules, at : Nat, via : Counters, until : Nat]
         /\ \A e, via : Claimed(e, via) => Claimed(e, via)'
         /\ \A via \in W : Claimed(d, via)'
         /\ \A s, at, via : \A x \in Nat : Covered(s, at, via, x) => Covered(s, at, via, x)'
         /\ \A via \in W : ~Claimed(d, via) => Covered(d.s, d.at, via, clock)'
         /\ (\A c, e \in claims : c.s = e.s /\ c.at = e.at /\ c.via = e.via => c = e) =>
              \A c, e \in claims' : c.s = e.s /\ c.at = e.at /\ c.via = e.via => c = e
<1>. DEFINE opened == {w \in W : ~Claimed(d, w)}
            new(w) == [s |-> d.s, at |-> d.at, via |-> w, until |-> clock + ClaimTTL]
<1>0. /\ clock \in Nat /\ ClaimTTL \in Nat \ {0} /\ d.s \in Schedules /\ d.at \in Nat
      /\ claims \subseteq [s : Schedules, at : Nat, via : Counters, until : Nat]
      /\ \A c \in claims : c.until \in Nat
  BY SchedulerConstants DEF TypeOK, Times, DueRow
<1>1. claims' = {c \in claims : ~(c.s = d.s /\ c.at = d.at /\ c.via \in opened)}
                 \cup {new(w) : w \in opened}
  BY DEF Incr
<1>2. \A w : /\ new(w).s = d.s /\ new(w).at = d.at /\ new(w).via = w
             /\ new(w).until = clock + ClaimTTL
  OBVIOUS
<1>3. \A w \in opened : new(w) \in [s : Schedules, at : Nat, via : Counters, until : Nat]
  BY <1>0
<1>4. \A c \in claims : c.s = d.s /\ c.at = d.at /\ c.via \in opened => c.until <= clock
  BY <1>0 DEF Claimed
<1>5. \A w \in opened : w \in W /\ ~Claimed(d, w)
  OBVIOUS
<1>5a. \A w \in W : ~Claimed(d, w) => w \in opened
  OBVIOUS
<1>. HIDE DEF new, opened
<1>6. claims' \subseteq [s : Schedules, at : Nat, via : Counters, until : Nat]
  BY <1>0, <1>1, <1>3
<1>7. \A e, via : Claimed(e, via) => Claimed(e, via)'
  <2>1. SUFFICES ASSUME NEW e, NEW via, NEW c \in claims,
                        c.s = e.s, c.at = e.at, c.via = via, c.until > clock
                 PROVE  c \in claims'
    BY DEF Claimed
  <2>. QED BY <1>0, <1>1, <1>4, <2>1
<1>8. \A via \in W : Claimed(d, via)'
  BY <1>0, <1>1, <1>2, <1>5a, <1>7 DEF Claimed
<1>9. \A s, at, via : \A x \in Nat : Covered(s, at, via, x) => Covered(s, at, via, x)'
  <2>1. SUFFICES ASSUME NEW s, NEW at, NEW via, NEW x \in Nat, NEW c \in claims,
                        c.s = s, c.at = at, c.via = via, c.until >= x + ClaimTTL
                 PROVE  \E e \in claims' : /\ e.s = s /\ e.at = at /\ e.via = via
                                          /\ e.until >= x + ClaimTTL
    BY DEF Covered
  <2>2. CASE c \in claims'
    BY <2>1, <2>2
  <2>3. CASE c \notin claims'
    <3>1. c.s = d.s /\ c.at = d.at /\ c.via \in opened /\ c.until <= clock
      BY <1>1, <1>4, <2>3
    <3>2. new(via) \in claims'
      BY <1>1, <2>1, <3>1
    <3>3. clock + ClaimTTL >= x + ClaimTTL
      BY <1>0, <2>1, <3>1
    <3>. QED BY <1>2, <2>1, <3>1, <3>2, <3>3
  <2>. QED BY <2>2, <2>3
<1>10. \A via \in W : ~Claimed(d, via) => Covered(d.s, d.at, via, clock)'
  <2>1. SUFFICES ASSUME NEW via \in W, ~Claimed(d, via)
                 PROVE  \E e \in claims' : /\ e.s = d.s /\ e.at = d.at /\ e.via = via
                                          /\ e.until >= clock + ClaimTTL
    BY DEF Covered
  <2>2. new(via) \in claims'
    BY <1>1, <1>5a, <2>1
  <2>. QED BY <1>0, <1>2, <2>2
<1>11. (\A c, e \in claims : c.s = e.s /\ c.at = e.at /\ c.via = e.via => c = e) =>
         \A c, e \in claims' : c.s = e.s /\ c.at = e.at /\ c.via = e.via => c = e
  BY <1>1, <1>2
<1>. QED BY <1>6, <1>7, <1>8, <1>9, <1>10, <1>11

LEMMA TypeStep == TypeOK /\ [Next]_vars => TypeOK'
<1>. SUFFICES ASSUME TypeOK, [Next]_vars PROVE TypeOK'
  OBVIOUS
<1>. USE SchedulerConstants DEF TypeOK
<1>1. CASE ClockTick
  BY <1>1 DEF ClockTick, Times, stores, bounds
<1>2. ASSUME NEW r \in Replicas, StartTick(r) PROVE TypeOK'
  <2>1. DueRows \subseteq DueRow
    BY RowFields DEF IsDue, DueTimes, DueRow, DueRows
  <2>4. tick' \in [Replicas -> TickState]
    BY <1>2, <2>1, IdleType DEF StartTick, TickState
  <2>5. \A q \in Replicas : tick'[q].pc \notin {"idle", "claim"} => tick'[q].job # Nobody
    BY <1>2, IdleType DEF StartTick
  <2>. QED BY <1>2, <2>4, <2>5 DEF StartTick, stores, bounds
<1>3. ASSUME NEW r \in Replicas, Claim(r) \/ ClaimDegraded(r) PROVE TypeOK'
  <2>1. PICK via \in Reach(r), W \in SUBSET Reach(r), d \in tick[r].due : Takes(r, via, W, d)
    BY <1>3, ClaimTakes, Zenon
  <2>2. d \in DueRow /\ W \in SUBSET Counters
    BY <2>1, ReachType DEF TickState
  <2>3. \A q \in Replicas : tick'[q].pc \notin {"idle", "claim"} => tick'[q].job # Nobody
    BY <2>1, <2>2 DEF Takes
  <2>4. claims' \subseteq [s : Schedules, at : Nat, via : Counters, until : Nat]
    BY <2>1, <2>2, IncrOpens DEF Takes
  <2>5. open' \in [Replicas -> BOOLEAN] /\ outages' \in Nat
    <3>1. CASE Claim(r)
      BY <3>1, Zenon DEF Claim
    <3>2. CASE ClaimDegraded(r)
      <4>1. open' = [open EXCEPT ![r] = TRUE] /\ outages' = outages + 1
        BY <3>2, Zenon DEF ClaimDegraded
      <4>. QED BY <4>1
    <3>. QED BY <1>3, <3>1, <3>2
  <2>. QED BY <2>1, <2>3, <2>4, <2>5 DEF Takes
<1>4. ASSUME NEW r \in Replicas, tick[r].job # Nobody PROVE
        /\ tick[r].job \in DueRow
        /\ AdvanceRow(tick[r].job, tick[r].now) => row' \in [Schedules -> Row \cup {Nobody}]
        /\ \A o \in {"ok", "error"} :
             FinishRow(tick[r].job.s, o) => row' \in [Schedules -> Row \cup {Nobody}]
  <2>1. tick[r].job \in DueRow /\ tick[r].now \in Nat
    BY <1>4 DEF TickState, Times
  <2>2. NextRun(tick[r].job.plan, tick[r].now) \in DueTimes
    BY <2>1, NextRunType DEF DueRow
  <2>3. ASSUME AdvanceRow(tick[r].job, tick[r].now) PROVE row' \in [Schedules -> Row \cup {Nobody}]
    BY <2>1, <2>2, <2>3, ZenonT(40) DEF AdvanceRow, Advanced, DueRow, Row
  <2>4. ASSUME NEW o \in {"ok", "error"}, FinishRow(tick[r].job.s, o)
        PROVE  row' \in [Schedules -> Row \cup {Nobody}]
    BY <2>1, <2>4 DEF FinishRow, Finished, DueRow, Row
  <2>. QED BY <2>1, <2>3, <2>4
<1>5. ASSUME NEW r \in Replicas, Advance(r) PROVE TypeOK'
  BY <1>4, <1>5 DEF Advance, TickState, stores, bounds
<1>6. ASSUME NEW r \in Replicas, Execute(r) PROVE TypeOK'
  <2>1. /\ tick[r].job \in DueRow /\ tick[r].claimed \in Times
        /\ tick[r].via \in Counters
    BY <1>4, <1>6 DEF Execute, TickState
  <2>2. fires' \subseteq [s : Schedules, at : Nat, claimed : Times, by : Replicas,
                         via : Counters]
    BY <1>6, <2>1 DEF Execute, DueRow
  <2>. QED BY <1>6, <2>2 DEF Execute, TickState, stores, bounds
<1>7. ASSUME NEW r \in Replicas, Finish(r) PROVE TypeOK'
  <2>1. row' \in [Schedules -> Row \cup {Nobody}]
    BY <1>4, <1>7 DEF Finish
  <2>2. tick' \in [Replicas -> TickState]
    BY <1>7, IdleType DEF Finish, TickState
  <2>3. \A q \in Replicas : tick'[q].pc \notin {"idle", "claim"} => tick'[q].job # Nobody
    BY <1>7, IdleType DEF Finish
  <2>. QED BY <1>7, <2>1, <2>2, <2>3 DEF Finish, stores, bounds
<1>8. ASSUME NEW r \in Replicas, EndTick(r) PROVE TypeOK'
  BY <1>8, IdleType DEF EndTick, stores, bounds
<1>9. ASSUME NEW r \in Replicas, TickFault(r) PROVE TypeOK'
  <2>1. row' \in [Schedules -> Row \cup {Nobody}]
    BY <1>4, <1>9 DEF TickFault
  <2>2. /\ tick' \in [Replicas -> TickState]
        /\ \A q \in Replicas : tick'[q].pc \notin {"idle", "claim"} => tick'[q].job # Nobody
    BY <1>9, IdleType DEF TickFault, TickState
  <2>3. late' = late \/ late' = (late \/ Overtaken(r))
    BY <1>9 DEF TickFault
  <2>4. late' \in BOOLEAN
    BY <2>3
  <2>5. /\ UNCHANGED <<clock, claims, open, life, edit, fires, edits, crashes, outages>>
        /\ faults' = faults + 1
    BY <1>9 DEF TickFault, stores
  <2>. QED BY <2>1, <2>2, <2>4, <2>5
<1>10. ASSUME NEW r \in Replicas, Crash(r) PROVE TypeOK'
  BY <1>10, IdleType DEF Crash, CounterStores
<1>11. ASSUME NEW plan \in Plans, NEW enabled \in BOOLEAN
       PROVE  NextOf(plan, enabled) \in DueTimes
  BY NextRunType DEF NextOf, DueTimes, Times
<1>12. ASSUME NEW s \in Schedules, Create(s) PROVE TypeOK'
  BY <1>11, <1>12 DEF Create, Row, Plans, stores, bounds
<1>13. ASSUME NEW s \in Schedules, EditCompute(s) PROVE TypeOK'
  BY <1>11, <1>13 DEF EditCompute, Plans, stores
<1>14. CASE EditApply
  <2>1. row' \in [Schedules -> Row \cup {Nobody}]
    <3>1. CASE row[edit.s] = Nobody
      BY <1>14, <3>1 DEF EditApply
    <3>2. CASE row[edit.s] # Nobody
      <4>1. edit.s \in Schedules /\ row[edit.s] \in Row
        BY <1>14, <3>2 DEF EditApply
      <4>2. PICK x : x = [row[edit.s] EXCEPT !.plan = edit.plan, !.enabled = edit.enabled, !.next = edit.next]
        OBVIOUS
      <4>3. row' = [row EXCEPT ![edit.s] = x]
        BY <1>14, <3>2, <4>2, Zenon DEF EditApply
      <4>4. x \in Row
        BY <1>14, <4>1, <4>2 DEF EditApply, Row
      <4>. QED BY <4>1, <4>3, <4>4
    <3>. QED BY <3>1, <3>2
  <2>. QED BY <1>14, <2>1 DEF EditApply, stores, bounds
<1>15. ASSUME NEW s \in Schedules, Delete(s) PROVE TypeOK'
  BY <1>15 DEF Delete, stores
<1>16. CASE UNCHANGED vars
  BY <1>16 DEF vars, stores, bounds
<1>17. CASE Trip
  BY <1>17 DEF Trip
<1>18. ASSUME NEW r \in Replicas, Recover(r) PROVE TypeOK'
  BY <1>18 DEF Recover, bounds
<1>19. CASE Forget
  BY <1>19 DEF Forget, CounterStores
<1>. QED BY <1>1, <1>2, <1>3, <1>5, <1>6, <1>7, <1>8, <1>9, <1>10, <1>12, <1>13, <1>14,
            <1>15, <1>16, <1>17, <1>18, <1>19 DEF Next, TickStep

\* Steps that execute nothing and take up no fire: every job under way was under
\* way before, with the same claim, and the claims cover what they covered.
LEMMA QuietStep ==
  ASSUME TypeOK, ClaimsCover, ExecutionsApart, UNCHANGED fires,
         \A s, at, via : \A x \in Nat : Covered(s, at, via, x) => Covered(s, at, via, x)',
         \A c, e \in claims' : c.s = e.s /\ c.at = e.at /\ c.via = e.via => c = e,
         \A r \in Replicas : Under(r)' => /\ Under(r)
                                         /\ tick'[r].job = tick[r].job
                                         /\ tick'[r].claimed = tick[r].claimed
                                         /\ tick'[r].via = tick[r].via
  PROVE  ClaimsCover' /\ ExecutionsApart'
<1>1. /\ \A f \in fires : f.claimed \in Nat
      /\ \A r \in Replicas : tick[r].claimed \in Nat
  BY DEF TypeOK, TickState, Times
<1>2. \A f \in fires' : Covered(f.s, f.at, f.via, f.claimed)'
  BY <1>1 DEF ClaimsCover
<1>3. ASSUME NEW r \in Replicas, Under(r)'
      PROVE  Covered(tick[r].job.s, tick[r].job.at, tick[r].via, tick[r].claimed)'
  <2>1. /\ Covered(tick[r].job.s, tick[r].job.at, tick[r].via, tick[r].claimed)
        /\ tick'[r].job = tick[r].job /\ tick'[r].claimed = tick[r].claimed
        /\ tick'[r].via = tick[r].via
    BY <1>3 DEF ClaimsCover
  <2>2. \E c \in claims' : /\ c.s = tick[r].job.s /\ c.at = tick[r].job.at /\ c.via = tick[r].via
                           /\ c.until >= tick[r].claimed + ClaimTTL
    BY <1>1, <2>1 DEF Covered
  <2>. QED BY <2>1, <2>2 DEF Covered
<1>4. ClaimsCover'
  BY <1>2, <1>3 DEF ClaimsCover
<1>5. ExecutionsApart'
  BY DEF ExecutionsApart, FiresAreSpaced, Apart
<1>. QED BY <1>4, <1>5

\* The same when the claims stay as they are.
LEMMA StillStep ==
  ASSUME TypeOK, ClaimsCover, ExecutionsApart, UNCHANGED <<claims, fires>>,
         \A r \in Replicas : \/ tick'[r] = tick[r]
                             \/ tick'[r].pc \notin {"advance", "execute"}
                             \/ /\ Under(r)
                                /\ tick'[r].job = tick[r].job
                                /\ tick'[r].claimed = tick[r].claimed
                                /\ tick'[r].via = tick[r].via
  PROVE  ClaimsCover' /\ ExecutionsApart'
<1>1. \A s, at, via : \A x \in Nat : Covered(s, at, via, x) => Covered(s, at, via, x)'
  BY DEF Covered
<1>2. \A c, e \in claims' : c.s = e.s /\ c.at = e.at /\ c.via = e.via => c = e
  BY DEF ClaimsCover
<1>3. \A r \in Replicas : Under(r)' => /\ Under(r)
                                       /\ tick'[r].job = tick[r].job
                                       /\ tick'[r].claimed = tick[r].claimed
                                       /\ tick'[r].via = tick[r].via
  BY DEF Under
<1>. QED BY <1>1, <1>2, <1>3, QuietStep

LEMMA SpacingStep == IndInv /\ [Next]_vars => ClaimsCover' /\ ExecutionsApart'
<1>. SUFFICES ASSUME IndInv, [Next]_vars PROVE ClaimsCover' /\ ExecutionsApart'
  OBVIOUS
<1>. USE DEF IndInv
<1>1. tick \in [Replicas -> TickState] /\ tick' \in [Replicas -> TickState]
  BY TypeStep DEF TypeOK
<1>2. ASSUME NEW r \in Replicas, Claim(r) \/ ClaimDegraded(r)
      PROVE  ClaimsCover' /\ ExecutionsApart'
  <2>1. PICK via \in Reach(r), W \in SUBSET Reach(r), d \in tick[r].due : Takes(r, via, W, d)
    BY <1>2, ClaimTakes, Zenon
  <2>2. d \in DueRow /\ W \in SUBSET Counters /\ via \in W
    BY <1>1, <2>1, ReachType DEF TickState, Takes
  <2>3. /\ \A s, at, v : \A x \in Nat : Covered(s, at, v, x) => Covered(s, at, v, x)'
        /\ ~Claimed(d, via) => Covered(d.s, d.at, via, clock)'
        /\ \A c, e \in claims' : c.s = e.s /\ c.at = e.at /\ c.via = e.via => c = e
    <3>1. claims' = Incr(d, W) /\ clock' = clock
      BY <2>1 DEF Takes
    <3>2. \A c, e \in claims : c.s = e.s /\ c.at = e.at /\ c.via = e.via => c = e
      BY DEF ClaimsCover
    <3>. QED BY <2>2, <3>1, <3>2, IncrOpens
  <2>4. CASE Claimed(d, via)
    <3>1. \A q \in Replicas : Under(q)' => /\ Under(q)
                                          /\ tick'[q].job = tick[q].job
                                          /\ tick'[q].claimed = tick[q].claimed
                                          /\ tick'[q].via = tick[q].via
      BY <2>1, <2>4 DEF Under, Takes
    <3>2. fires' = fires
      BY <2>1 DEF Takes
    <3>. QED BY <2>3, <3>1, <3>2, QuietStep
  <2>5. CASE ~Claimed(d, via)
    <3>1. /\ tick'[r].job = d /\ tick'[r].claimed = clock /\ tick'[r].via = via
          /\ tick'[r].pc = "advance" /\ tick[r].pc = "claim"
          /\ \A q \in Replicas : q # r => tick'[q] = tick[q]
          /\ fires' = fires /\ clock' = clock
      BY <2>1, <2>5 DEF Takes
    <3>2. /\ clock \in Nat /\ ClaimTTL \in Nat
          /\ \A c \in claims : c.until \in Nat
          /\ \A f \in fires : f.claimed \in Nat
          /\ \A q \in Replicas : tick[q].claimed \in Nat
      BY SchedulerConstants DEF TypeOK, Times, TickState
    <3>3. ASSUME NEW x \in Nat, Covered(d.s, d.at, via, x) PROVE clock >= x + ClaimTTL
      BY <2>5, <3>2, <3>3 DEF Covered, Claimed
    <3>4. ClaimsCover'
      <4>1. \A f \in fires' : Covered(f.s, f.at, f.via, f.claimed)'
        BY <2>3, <3>1, <3>2 DEF ClaimsCover
      <4>2. ASSUME NEW q \in Replicas, Under(q)'
            PROVE  Covered(tick[q].job.s, tick[q].job.at, tick[q].via, tick[q].claimed)'
        <5>1. CASE q = r
          BY <2>3, <2>5, <3>1, <5>1 DEF Covered
        <5>2. CASE q # r
          <6>1. Covered(tick[q].job.s, tick[q].job.at, tick[q].via, tick[q].claimed)
            BY <3>1, <4>2, <5>2 DEF ClaimsCover, Under
          <6>2. \E c \in claims' : /\ c.s = tick[q].job.s /\ c.at = tick[q].job.at
                                   /\ c.via = tick[q].via
                                   /\ c.until >= tick[q].claimed + ClaimTTL
            <7>1. \A s, at, v : \A x \in Nat : Covered(s, at, v, x) =>
                    \E c \in claims' : /\ c.s = s /\ c.at = at /\ c.via = v
                                      /\ c.until >= x + ClaimTTL
              BY <2>3 DEF Covered
            <7>. QED BY <3>2, <6>1, <7>1
          <6>. QED BY <3>1, <5>2, <6>2 DEF Covered
        <5>. QED BY <5>1, <5>2
      <4>. QED BY <2>3, <4>1, <4>2 DEF ClaimsCover
    <3>5. ExecutionsApart'
      <4>1. FiresAreSpaced'
        BY <3>1 DEF ExecutionsApart, FiresAreSpaced
      <4>2. ASSUME NEW q \in Replicas, NEW f \in fires, Under(q)',
                   f.s = tick'[q].job.s, f.at = tick'[q].job.at, f.via = tick'[q].via
            PROVE  Apart(tick'[q].claimed, f.claimed)
        <5>1. CASE q = r
          BY <3>1, <3>2, <3>3, <4>2, <5>1 DEF ClaimsCover, Apart
        <5>2. CASE q # r
          BY <3>1, <4>2, <5>2 DEF ExecutionsApart, Under
        <5>. QED BY <5>1, <5>2
      <4>3. ASSUME NEW q \in Replicas, q # r, Under(q), tick[q].via = via,
                   tick[q].job.s = d.s, tick[q].job.at = d.at
            PROVE  clock >= tick[q].claimed + ClaimTTL
        BY <3>2, <3>3, <4>3 DEF ClaimsCover
      <4>4. ASSUME NEW p \in Replicas, NEW q \in Replicas, Under(p)', Under(q)', p # q,
                   tick'[p].via = tick'[q].via,
                   tick'[p].job.s = tick'[q].job.s, tick'[p].job.at = tick'[q].job.at
            PROVE  Apart(tick'[p].claimed, tick'[q].claimed)
        <5>1. CASE p = r
          BY <3>1, <4>3, <4>4, <5>1 DEF Apart, Under
        <5>2. CASE q = r
          BY <3>1, <4>3, <4>4, <5>2 DEF Apart, Under
        <5>3. CASE p # r /\ q # r
          BY <3>1, <4>4, <5>3 DEF ExecutionsApart, Under
        <5>. QED BY <5>1, <5>2, <5>3
      <4>. QED BY <3>1, <4>1, <4>2, <4>4 DEF ExecutionsApart, Apart
    <3>. QED BY <3>4, <3>5
  <2>. QED BY <2>4, <2>5
<1>3. ASSUME NEW r \in Replicas, Execute(r) PROVE ClaimsCover' /\ ExecutionsApart'
  <2>. DEFINE new == [s |-> tick[r].job.s, at |-> tick[r].job.at,
                      claimed |-> tick[r].claimed, by |-> r, via |-> tick[r].via]
  <2>1. /\ claims' = claims
        /\ fires' = fires \cup {new}
        /\ Under(r) /\ ~Under(r)'
        /\ \A q \in Replicas : q # r => tick'[q] = tick[q]
    BY <1>1, <1>3 DEF Execute, Under, TickState
  <2>2. /\ new.s = tick[r].job.s /\ new.at = tick[r].job.at
        /\ new.claimed = tick[r].claimed /\ new.via = tick[r].via
    OBVIOUS
  <2>. HIDE DEF new
  <2>3. \A s, at, via, x : Covered(s, at, via, x)' <=> Covered(s, at, via, x)
    BY <2>1 DEF Covered
  <2>4. ClaimsCover'
    <3>1. \A f \in fires' : Covered(f.s, f.at, f.via, f.claimed)
      BY <2>1, <2>2 DEF ClaimsCover
    <3>2. \A q \in Replicas :
            Under(q)' => Covered(tick'[q].job.s, tick'[q].job.at, tick'[q].via, tick'[q].claimed)
      BY <2>1 DEF ClaimsCover, Under
    <3>. QED BY <2>1, <2>3, <3>1, <3>2 DEF ClaimsCover
  <2>5. \A f \in fires : f.s = new.s /\ f.at = new.at /\ f.via = new.via =>
                          Apart(new.claimed, f.claimed)
    BY <2>1, <2>2 DEF ExecutionsApart
  <2>6. FiresAreSpaced'
    BY <2>1, <2>5 DEF ExecutionsApart, FiresAreSpaced, Apart
  <2>7. ASSUME NEW q \in Replicas, NEW f \in fires', Under(q)',
               f.s = tick'[q].job.s, f.at = tick'[q].job.at, f.via = tick'[q].via
        PROVE  Apart(tick'[q].claimed, f.claimed)
    <3>1. q # r /\ Under(q) /\ tick'[q] = tick[q]
      BY <2>1, <2>7 DEF Under
    <3>2. CASE f \in fires
      BY <2>7, <3>1, <3>2 DEF ExecutionsApart
    <3>3. CASE f = new
      BY <2>1, <2>2, <2>7, <3>1, <3>3 DEF ExecutionsApart
    <3>. QED BY <2>1, <3>2, <3>3
  <2>8. \A p, q \in Replicas :
          Under(p)' /\ Under(q)' /\ p # q /\ tick'[p].via = tick'[q].via
            /\ tick'[p].job.s = tick'[q].job.s /\ tick'[p].job.at = tick'[q].job.at =>
            Apart(tick'[p].claimed, tick'[q].claimed)
    BY <2>1 DEF ExecutionsApart, Under
  <2>. QED BY <2>4, <2>6, <2>7, <2>8 DEF ExecutionsApart, Apart
<1>4. ASSUME NEW r \in Replicas,
             \/ StartTick(r) \/ EndTick(r) \/ Advance(r) \/ Finish(r)
             \/ TickFault(r) \/ Crash(r)
      PROVE  ClaimsCover' /\ ExecutionsApart'
  <2>1. UNCHANGED <<claims, fires>>
    BY <1>4 DEF StartTick, EndTick, Advance, Finish, TickFault, Crash
  <2>2. \A q \in Replicas : q # r => tick'[q] = tick[q]
    BY <1>1, <1>4 DEF StartTick, EndTick, Advance, Finish, TickFault, Crash
  <2>3. \/ tick'[r].pc \notin {"advance", "execute"}
        \/ /\ Under(r)
           /\ tick'[r].job = tick[r].job
           /\ tick'[r].claimed = tick[r].claimed
           /\ tick'[r].via = tick[r].via
    <3>1. CASE StartTick(r) \/ Finish(r)
      <4>1. tick'[r].pc = "claim"
        BY <1>1, <3>1, IdleType DEF StartTick, Finish, TickState
      <4>. QED BY <4>1
    <3>2. CASE Advance(r)
      BY <1>1, <3>2 DEF Advance, Under, TickState
    <3>3. CASE EndTick(r) \/ TickFault(r) \/ Crash(r)
      <4>1. tick'[r].pc \in {"idle", "error"}
        BY <1>1, <3>3, IdleType DEF EndTick, TickFault, Crash, TickState
      <4>. QED BY <4>1
    <3>. QED BY <1>4, <3>1, <3>2, <3>3
  <2>. QED BY <2>1, <2>2, <2>3, StillStep
<1>5. ASSUME \/ ClockTick \/ EditApply \/ Trip \/ Forget \/ UNCHANGED vars
             \/ \E r \in Replicas : Recover(r)
             \/ \E s \in Schedules : Create(s) \/ EditCompute(s) \/ Delete(s)
      PROVE  ClaimsCover' /\ ExecutionsApart'
  <2>1. UNCHANGED <<claims, fires, tick>>
    BY <1>5 DEF ClockTick, EditApply, Trip, Forget, Recover, vars, Create, EditCompute, Delete
  <2>. QED BY <2>1, StillStep
<1>. QED BY <1>2, <1>3, <1>4, <1>5 DEF Next, TickStep

\* Every execution of a fire, done or under way, is covered by its claim in the
\* store that counted it, and the executions a store has counted are a claim's
\* lifetime apart.
THEOREM Invariance == Spec => []IndInv
<1>1. Init => IndInv
  BY InitIndInv
<1>2. IndInv /\ [Next]_vars => IndInv'
  BY TypeStep, SpacingStep DEF IndInv
<1>. QED BY <1>1, <1>2, PTL DEF Spec

\* No two replicas execute the same fire within the lifetime of a claim on the
\* count of the same store, whatever fails, crashes or is edited.
THEOREM Spacing == Spec => []FiresAreSpaced
<1>1. IndInv => FiresAreSpaced
  BY DEF IndInv, ExecutionsApart
<1>. QED BY <1>1, Invariance, PTL

-----------------------------------------------------------------------------
(* Once, unless late.                                                      *)

Later(next, t) == next = Never \/ next > t

\* A fire that has been executed, or is being executed.
Started(s, at) ==
  \/ \E f \in fires : f.s = s /\ f.at = at
  \/ \E r \in Replicas : tick[r].pc = "execute" /\ tick[r].job.s = s /\ tick[r].job.at = at

\* The same, on the count of a certain store.
Ran(s, at, via) ==
  \/ \E f \in fires : f.s = s /\ f.at = at /\ f.via = via
  \/ \E r \in Replicas : /\ tick[r].pc = "execute" /\ tick[r].via = via
                         /\ tick[r].job.s = s /\ tick[r].job.at = at

\* The row has moved past the fire.
Past(s, at) == row[s] = Nobody \/ Later(row[s].next, at)

\* What is held, executed or under way was due.
WasDue ==
  /\ \A r \in Replicas :
       /\ \A d \in tick[r].due : d.at <= clock
       /\ Under(r) => tick[r].job.at <= clock
  /\ \A f \in fires : f.at <= clock

\* What was counted was counted in a life of the store that has begun, and by
\* Redis in its first one as long as Redis has not failed.
Lived(via) == via.life <= life[via.store]
FirstRedis == [store |-> Shared, life |-> 0]

CountedBy ==
  /\ \A f \in fires : Lived(f.via)
  /\ \A r \in Replicas : Under(r) => Lived(tick[r].via)
  /\ outages = 0 =>
       /\ \A r \in Replicas : ~open[r]
       /\ life[Shared] = 0
       /\ \A f \in fires : f.via = FirstRedis
       /\ \A r \in Replicas : Under(r) => tick[r].via = FirstRedis

\* A replica that still lists a fire finds its claim in every store it reaches
\* that has counted an execution of it.
OpenClaims ==
  \A r \in Replicas :
    /\ \A d \in tick[r].due, via \in Reach(r) : Ran(d.s, d.at, via) => Claimed(d, via)
    /\ tick[r].pc = "advance" => Claimed(tick[r].job, tick[r].via)

OneRun ==
  /\ \A f, g \in fires : f.s = g.s /\ f.at = g.at /\ f.via = g.via => f = g
  /\ \A r \in Replicas, f \in fires :
       ~(Under(r) /\ f.s = tick[r].job.s /\ f.at = tick[r].job.at /\ f.via = tick[r].via)
  /\ \A r, q \in Replicas :
       Under(r) /\ Under(q) /\ tick[r].via = tick[q].via
         /\ tick[r].job.s = tick[q].job.s /\ tick[r].job.at = tick[q].job.at => r = q

OnceInv ==
  ~late =>
    /\ edit # Nobody => Later(edit.next, clock)
    /\ \A s \in Schedules, at \in Nat : Started(s, at) => Past(s, at)
    /\ OpenClaims
    /\ OneRun

\* The next run computed from an instant is after it.
LEMMA NextRunLater ==
  ASSUME NEW plan \in Plans, NEW from \in Nat
  PROVE  Later(NextRun(plan, from), from)
<1>1. plan.n \in Nat \ {0}
  BY SchedulerConstants
<1>2. \A x \in Nat, n \in Nat \ {0} : ((x \div n) + 1) * n > x
  BY SMTT(60)
<1>. QED BY <1>1, <1>2 DEF NextRun, Later

LEMMA RanStarted ==
  ASSUME NEW s, NEW at, NEW via, Ran(s, at, via) PROVE Started(s, at)
BY DEF Ran, Started

\* A store that has been counted in still has been, whatever life it is in; Redis
\* fails only where outages are counted.
LEMMA CountedByStep == TypeOK /\ CountedBy /\ [Next]_vars => CountedBy'
<1>. SUFFICES ASSUME TypeOK, CountedBy, [Next]_vars PROVE CountedBy'
  OBVIOUS
<1>1. tick \in [Replicas -> TickState] /\ open \in [Replicas -> BOOLEAN]
      /\ life \in [CounterStores -> Nat] /\ outages \in Nat /\ Replicas \subseteq CounterStores
      /\ Shared \in CounterStores /\ Shared \notin Replicas
  BY SchedulerConstants DEF TypeOK, CounterStores
<1>2. \A f \in fires : f.via \in Counters /\ \A r \in Replicas : tick[r].via \in Counters
  BY <1>1 DEF TypeOK, TickState
<1>3. ASSUME UNCHANGED <<fires, open, life, outages>>,
             \A r \in Replicas : Under(r)' => Under(r) /\ tick'[r].via = tick[r].via
      PROVE  CountedBy'
  BY <1>3 DEF CountedBy, Lived, FirstRedis
<1>4. ASSUME NEW r \in Replicas, Claim(r) \/ ClaimDegraded(r) PROVE CountedBy'
  <2>1. PICK via \in Reach(r), W \in SUBSET Reach(r), d \in tick[r].due : Takes(r, via, W, d)
    BY <1>4, ClaimTakes, Zenon
  <2>2. /\ \A q \in Replicas : Under(q)' => \/ Under(q) /\ tick'[q].via = tick[q].via
                                            \/ tick'[q].via = via
        /\ UNCHANGED <<fires, life>>
    BY <2>1 DEF Takes, Under
  <2>3. Lived(via)
    BY <1>1, <2>1 DEF Reach, Via, Lived
  <2>4. \A f \in fires' : Lived(f.via)'
    BY <2>2 DEF CountedBy, Lived
  <2>5. \A q \in Replicas : Under(q)' => Lived(tick[q].via)'
    BY <2>2, <2>3 DEF CountedBy, Lived
  <2>6. CASE ClaimDegraded(r)
    <3>1. outages' # 0
      BY <1>1, <2>6 DEF ClaimDegraded
    <3>. QED BY <2>4, <2>5, <3>1 DEF CountedBy
  <2>7. CASE Claim(r) /\ outages = 0
    <3>1. ~open[r] /\ UNCHANGED <<open, outages>>
      BY <2>7 DEF Claim, CountedBy
    <3>2. ClaimNext(r, Via(Shared), {Via(Shared)})
      BY <2>7, <3>1 DEF Claim
    <3>3. Via(Shared) = FirstRedis
      BY <2>7 DEF CountedBy, FirstRedis, Via
    <3>4. \A q \in Replicas : Under(q)' => tick'[q].via = FirstRedis
      BY <1>1, <2>7, <3>2, <3>3 DEF ClaimNext, Under, CountedBy, TickState
    <3>. QED BY <2>2, <2>4, <2>5, <2>7, <3>1, <3>4 DEF CountedBy, FirstRedis
  <2>8. CASE Claim(r) /\ outages # 0
    <3>1. outages' # 0
      BY <2>8 DEF Claim
    <3>. QED BY <2>4, <2>5, <3>1 DEF CountedBy
  <2>. QED BY <1>4, <2>6, <2>7, <2>8
<1>5. ASSUME NEW r \in Replicas, Execute(r) PROVE CountedBy'
  <2>1. /\ fires' = fires \cup {[s |-> tick[r].job.s, at |-> tick[r].job.at,
                                 claimed |-> tick[r].claimed, by |-> r, via |-> tick[r].via]}
        /\ UNCHANGED <<open, life, outages>>
        /\ \A q \in Replicas : Under(q)' => Under(q) /\ tick'[q].via = tick[q].via
        /\ Under(r)
    BY <1>1, <1>5 DEF Execute, Under, TickState, stores, bounds
  <2>2. \A f \in fires' : f \in fires \/ f.via = tick[r].via
    BY <2>1
  <2>. QED BY <2>1, <2>2 DEF CountedBy, Lived, FirstRedis
<1>6. ASSUME NEW r \in Replicas, \/ StartTick(r) \/ EndTick(r) \/ Advance(r) \/ Finish(r)
                                 \/ TickFault(r)
      PROVE  CountedBy'
  <2>1. UNCHANGED <<fires, open, life, outages>> /\ \A q \in Replicas \ {r} : tick'[q] = tick[q]
    BY <1>1, <1>6 DEF StartTick, EndTick, Advance, Finish, TickFault, stores, bounds
  <2>2. Under(r)' => Under(r) /\ tick'[r].via = tick[r].via
    <3>1. CASE Advance(r)
      BY <1>1, <3>1 DEF Advance, Under, TickState
    <3>2. CASE ~Advance(r)
      <4>1. CASE StartTick(r) \/ Finish(r)
        <5>1. tick'[r].pc = "claim"
          <6>1. PICK now, due : tick' = [tick EXCEPT ![r] =
                                  [Idle EXCEPT !.pc = "claim", !.now = now, !.due = due]]
            BY <4>1, Zenon DEF StartTick, Finish
          <6>2. [Idle EXCEPT !.pc = "claim", !.now = now, !.due = due].pc = "claim"
            BY IdleType DEF TickState
          <6>. QED BY <1>1, <6>1, <6>2
        <5>. QED BY <5>1 DEF Under
      <4>2. CASE EndTick(r) \/ TickFault(r)
        <5>1. tick'[r].pc \in {"idle", "error"}
          BY <1>1, <4>2, IdleType DEF EndTick, TickFault, TickState
        <5>. QED BY <5>1 DEF Under
      <4>. QED BY <1>6, <3>2, <4>1, <4>2
    <3>. QED BY <3>1, <3>2
  <2>3. \A q \in Replicas : Under(q)' => Under(q) /\ tick'[q].via = tick[q].via
    BY <2>1, <2>2 DEF Under
  <2>. QED BY <1>3, <2>1, <2>3
<1>7. ASSUME NEW r \in Replicas, Crash(r) PROVE CountedBy'
  <2>1. /\ UNCHANGED <<fires, outages>>
        /\ \A q \in Replicas : tick'[q] = tick[q] \/ ~Under(q)'
        /\ open' = [open EXCEPT ![r] = FALSE] /\ life' = [life EXCEPT ![r] = @ + 1]
    BY <1>1, <1>7, IdleType DEF Crash, Under
  <2>2. \A via \in Counters : Lived(via) => Lived(via)'
    BY <1>1, <2>1 DEF Lived, Counters
  <2>3. life'[Shared] = life[Shared] /\ \A q \in Replicas : ~open[q] => ~open'[q]
    BY <1>1, <2>1
  <2>4. \A q \in Replicas : Under(q)' => Under(q) /\ tick'[q] = tick[q]
    BY <2>1 DEF Under
  <2>. QED BY <1>2, <2>1, <2>2, <2>3, <2>4, <1>1 DEF CountedBy, FirstRedis, TickState
<1>8. CASE Trip \/ Forget
  <2>1. UNCHANGED <<fires, tick>> /\ outages' # 0
    BY <1>1, <1>8 DEF Trip, Forget
  <2>2. \A via \in Counters : Lived(via) => Lived(via)'
    BY <1>1, <1>8 DEF Trip, Forget, Lived, Counters
  <2>. QED BY <1>1, <1>2, <2>1, <2>2 DEF CountedBy, Under, TickState
<1>9. ASSUME NEW r \in Replicas, Recover(r) PROVE CountedBy'
  BY <1>1, <1>9 DEF Recover, CountedBy, Lived, Under, FirstRedis, bounds
<1>10. CASE \/ ClockTick \/ EditApply \/ UNCHANGED vars
            \/ \E s \in Schedules : Create(s) \/ EditCompute(s) \/ Delete(s)
  <2>1. UNCHANGED <<fires, open, life, outages, tick>>
    BY <1>10 DEF ClockTick, EditApply, vars, Create, EditCompute, Delete, stores, bounds
  <2>. QED BY <1>3, <2>1 DEF Under
<1>. QED BY <1>4, <1>5, <1>6, <1>7, <1>8, <1>9, <1>10 DEF Next, TickStep

\* Steps that take up no fire: what is held was held before, and every row that
\* had moved past a fire still has.  A store may start another life: nobody has
\* counted in it.
LEMMA HoldsNoMore ==
  ASSUME TypeOK, WasDue, CountedBy, OnceInv, UNCHANGED <<clock, fires>>,
         ~late' => ~late,
         \A d, via : Claimed(d, via) => Claimed(d, via)',
         \A r \in Replicas :
           /\ tick'[r].due \subseteq tick[r].due
           /\ Under(r)' => /\ tick'[r].pc = tick[r].pc /\ tick'[r].job = tick[r].job
                           /\ tick'[r].via = tick[r].via
           /\ \A via \in Reach(r)' : via \in Reach(r) \/ ~Lived(via) \/ tick'[r].due = {},
         ~late' /\ edit' # Nobody => Later(edit'.next, clock),
         \A s \in Schedules, at \in Nat : ~late /\ at <= clock /\ Past(s, at) => Past(s, at)'
  PROVE  WasDue' /\ OnceInv'
<1>1. \A r \in Replicas : Under(r)' => Under(r)
  BY DEF Under
<1>2. WasDue'
  BY <1>1 DEF WasDue
<1>. SUFFICES ASSUME ~late' PROVE OnceInv'
  BY <1>2 DEF OnceInv
<1>3. /\ \A s, at : Started(s, at)' => Started(s, at)
      /\ \A s, at, via : Ran(s, at, via)' => Ran(s, at, via)
  BY DEF Started, Ran, Under
<1>4. \A s, at, via : Ran(s, at, via) => Lived(via)
  BY DEF Ran, CountedBy, Under
<1>5. \A s \in Schedules, at \in Nat : Started(s, at) => at <= clock
  BY DEF Started, WasDue, Under
<1>6. \A s \in Schedules, at \in Nat : Started(s, at)' => Past(s, at)'
  BY <1>3, <1>5 DEF OnceInv
<1>7. OpenClaims'
  <2>1. ASSUME NEW r \in Replicas, NEW d \in tick'[r].due, NEW via \in Reach(r)',
               Ran(d.s, d.at, via)'
        PROVE  Claimed(d, via)'
    <3>1. Ran(d.s, d.at, via) /\ Lived(via)
      BY <1>3, <1>4, <2>1
    <3>2. d \in tick[r].due /\ via \in Reach(r)
      BY <2>1, <3>1
    <3>. QED BY <3>1, <3>2 DEF OnceInv, OpenClaims
  <2>2. ASSUME NEW r \in Replicas, tick'[r].pc = "advance" PROVE Claimed(tick[r].job, tick[r].via)'
    <3>1. /\ tick[r].pc = "advance" /\ tick'[r].job = tick[r].job /\ tick'[r].via = tick[r].via
          /\ Claimed(tick[r].job, tick[r].via)
      BY <2>2 DEF OnceInv, OpenClaims, Under
    <3>2. \A d, via : Claimed(d, via) =>
            \E c \in claims' : c.s = d.s /\ c.at = d.at /\ c.via = via /\ c.until > clock'
      BY DEF Claimed
    <3>. QED BY <3>1, <3>2 DEF Claimed
  <2>3. \A r \in Replicas : \A d \in tick'[r].due, via \in Reach(r)' :
          Ran(d.s, d.at, via)' => Claimed(d, via)'
    BY <2>1
  <2>. QED BY <2>2, <2>3 DEF OpenClaims
<1>8. OneRun'
  BY <1>1 DEF OnceInv, OneRun
<1>. QED BY <1>6, <1>7, <1>8 DEF OnceInv

\* An unchanged list of rows, or one in which one row is new, gone or moved to
\* a later run.
LEMMA RowsMoveOn ==
  ASSUME TypeOK, NEW s \in Schedules,
         \A x \in Schedules \ {s} : row'[x] = row[x],
         \/ row'[s] = row[s] \/ row'[s] = Nobody \/ Later(row'[s].next, clock)
         \/ row[s] # Nobody /\ row'[s].next = row[s].next,
         row' \in [Schedules -> Row \cup {Nobody}]
  PROVE  \A x \in Schedules, at \in Nat : at <= clock /\ Past(x, at) => Past(x, at)'
<1>1. clock \in Nat /\ Never \notin Nat
  BY SchedulerConstants DEF TypeOK, Times
<1>2. \A x \in Schedules : row'[x] # Nobody => row'[x].next \in Nat \cup {Never}
  BY DEF Row, DueTimes
<1>. QED BY <1>1, <1>2 DEF Past, Later

LEMMA ClockOnce ==
  ASSUME TypeOK, WasDue, OnceInv, ClockTick
  PROVE  WasDue' /\ OnceInv'
<1>1. /\ clock \in Nat /\ clock' = clock + 1
      /\ UNCHANGED <<row, claims, open, life, tick, edit, fires>>
  BY DEF ClockTick, TypeOK, Times, stores
<1>2. WasDue'
  <2>1. \A d \in DueRow : d.at \in Nat
    BY DEF DueRow
  <2>2. /\ \A r \in Replicas : tick[r].due \subseteq DueRow
        /\ \A r \in Replicas : Under(r) => tick[r].job.at \in Nat
        /\ \A f \in fires : f.at \in Nat
    BY <2>1 DEF TypeOK, TickState, Under
  <2>. QED BY <1>1, <2>1, <2>2 DEF WasDue, Under
<1>. SUFFICES ASSUME ~late' PROVE OnceInv'
  BY <1>2 DEF OnceInv
<1>3. /\ ~late
      /\ \A r \in Replicas, c \in claims : Holds(r, c) => ~(c.until <= clock')
      /\ ~(edit # Nobody /\ edit.next # Never /\ edit.next <= clock')
  BY <1>1 DEF ClockTick
<1>4. edit' # Nobody => Later(edit'.next, clock')
  <2>1. edit # Nobody => edit.next \in Nat \cup {Never}
    BY DEF TypeOK, DueTimes
  <2>. QED BY <1>1, <1>3, <2>1 DEF Later
<1>5. /\ \A s, at : Started(s, at)' <=> Started(s, at)
      /\ \A s, at, via : Ran(s, at, via)' <=> Ran(s, at, via)
      /\ \A r : Reach(r)' = Reach(r)
  BY <1>1 DEF Started, Ran, Reach, Via
<1>6. ASSUME NEW r \in Replicas, NEW d, NEW via, Claimed(d, via),
             \/ d \in tick[r].due /\ via \in Reach(r)
             \/ tick[r].pc = "advance" /\ tick[r].job = d /\ tick[r].via = via
      PROVE  Claimed(d, via)'
  <2>1. PICK c \in claims : c.s = d.s /\ c.at = d.at /\ c.via = via /\ c.until > clock
    BY <1>6 DEF Claimed
  <2>2. Holds(r, c)
    BY <1>6, <2>1 DEF Holds
  <2>3. c.until \in Nat
    BY <2>1 DEF TypeOK
  <2>4. c.until > clock'
    BY <1>1, <1>3, <2>2, <2>3
  <2>. QED BY <1>1, <2>1, <2>4 DEF Claimed
<1>7. OpenClaims'
  BY <1>1, <1>3, <1>5, <1>6 DEF OnceInv, OpenClaims
<1>8. OneRun' /\ \A s \in Schedules, at \in Nat : Started(s, at)' => Past(s, at)'
  BY <1>1, <1>3, <1>5 DEF OnceInv, OneRun, Under, Past
<1>. QED BY <1>4, <1>7, <1>8 DEF OnceInv

LEMMA StartOnce ==
  ASSUME TypeOK, WasDue, OnceInv, NEW r \in Replicas, StartTick(r)
  PROVE  WasDue' /\ OnceInv'
<1>1. /\ UNCHANGED <<clock, row, claims, open, life, edit, fires, late>>
      /\ tick[r].pc = "idle" /\ tick'[r].pc = "claim" /\ tick'[r].due = DueRows
      /\ \A q \in Replicas \ {r} : tick'[q] = tick[q]
  BY IdleType DEF StartTick, TypeOK, TickState, stores
<1>2. \A q \in Replicas : Under(q)' => Under(q) /\ q # r
  BY <1>1 DEF Under
<1>3. ASSUME NEW d \in DueRows
      PROVE  d.s \in Schedules /\ d.at \in Nat /\ d.at <= clock /\ row[d.s] # Nobody
             /\ row[d.s].next = d.at
  BY RowFields DEF DueRows, IsDue, DueTimes
<1>4. WasDue'
  BY <1>1, <1>2, <1>3 DEF WasDue
<1>. SUFFICES ASSUME ~late PROVE OnceInv'
  BY <1>1, <1>4 DEF OnceInv
<1>5. /\ \A s, at : Started(s, at)' => Started(s, at)
      /\ \A s, at, via : Ran(s, at, via)' => Ran(s, at, via)
      /\ \A q : Reach(q)' = Reach(q)
  BY <1>1 DEF Started, Ran, Reach, Via
<1>6. ASSUME NEW d \in DueRows, NEW via PROVE ~Ran(d.s, d.at, via)
  <2>1. ~Past(d.s, d.at)
    BY <1>3, SchedulerConstants DEF Past, Later
  <2>2. ~Started(d.s, d.at)
    BY <1>3, <2>1 DEF OnceInv
  <2>. QED BY <2>2, RanStarted
<1>7. \A d, via : Claimed(d, via)' <=> Claimed(d, via)
  BY <1>1 DEF Claimed
<1>8. OpenClaims'
  BY <1>1, <1>5, <1>6, <1>7 DEF OnceInv, OpenClaims
<1>9. OneRun'
  BY <1>1, <1>2 DEF OnceInv, OneRun
<1>10. \A s \in Schedules, at \in Nat : Started(s, at)' => Past(s, at)'
  BY <1>1, <1>5 DEF OnceInv, Past
<1>. QED BY <1>1, <1>8, <1>9, <1>10 DEF OnceInv

\* A fire that nobody has run on the count of a store is claimed there: whoever
\* lists it and reaches that store finds the claim.
LEMMA ClaimOnce ==
  ASSUME TypeOK, ClaimsCover, WasDue, CountedBy, OnceInv, NEW r \in Replicas,
         Claim(r) \/ ClaimDegraded(r)
  PROVE  WasDue' /\ OnceInv'
<1>1. PICK via \in Reach(r), W \in SUBSET Reach(r), d \in tick[r].due : Takes(r, via, W, d)
  BY ClaimTakes, Zenon
<1>2. /\ UNCHANGED <<clock, row, life, edit, fires, late>> /\ tick[r].pc = "claim"
      /\ \A q \in Replicas \ {r} : tick'[q] = tick[q]
      /\ tick'[r].due \subseteq tick[r].due
  BY <1>1 DEF Takes
<1>3. d \in DueRow /\ W \in SUBSET Counters /\ via \in W
  BY <1>1, ReachType DEF TypeOK, TickState, Takes
<1>4. /\ \A e, v : Claimed(e, v) => Claimed(e, v)'
      /\ \A v \in W : Claimed(d, v)'
  <2>1. claims' = Incr(d, W) /\ clock' = clock
    BY <1>1 DEF Takes
  <2>. QED BY <1>3, <2>1, IncrOpens
<1>5. \A q : Reach(q)' = Reach(q)
  BY <1>2 DEF Reach, Via
<1>6. CASE Claimed(d, via)
  <2>1. \A q \in Replicas : /\ tick'[q].due \subseteq tick[q].due
                            /\ Under(q)' => tick'[q] = tick[q]
    BY <1>1, <1>2, <1>6 DEF Takes, Under
  <2>2. UNCHANGED <<clock, fires>> /\ (~late' => ~late)
    BY <1>2
  <2>3. ~late' /\ edit' # Nobody => Later(edit'.next, clock)
    BY <1>2 DEF OnceInv
  <2>4. \A s \in Schedules, at \in Nat : ~late /\ at <= clock /\ Past(s, at) => Past(s, at)'
    BY <1>2 DEF Past
  <2>. QED BY <1>4, <1>5, <2>1, <2>2, <2>3, <2>4, HoldsNoMore
<1>7. CASE ~Claimed(d, via)
  <2>1. /\ tick'[r].job = d /\ tick'[r].pc = "advance" /\ tick'[r].via = via
    BY <1>1, <1>7 DEF Takes
  <2>2. WasDue'
    BY <1>2, <2>1 DEF WasDue, Under
  <2>. SUFFICES ASSUME ~late PROVE OnceInv'
    BY <1>2, <2>2 DEF OnceInv
  <2>3. /\ \A s, at : Started(s, at)' => Started(s, at)
        /\ \A s, at, v : Ran(s, at, v)' => Ran(s, at, v)
    BY <1>2, <2>1 DEF Started, Ran
  <2>4. ~Ran(d.s, d.at, via)
    BY <1>1, <1>7 DEF OnceInv, OpenClaims
  <2>5. OpenClaims'
    <3>1. \A q \in Replicas : \A e \in tick'[q].due, v \in Reach(q)' :
            Ran(e.s, e.at, v)' => Claimed(e, v)'
      BY <1>2, <1>4, <1>5, <2>3 DEF OnceInv, OpenClaims
    <3>2. ASSUME NEW q \in Replicas, tick'[q].pc = "advance"
          PROVE  Claimed(tick[q].job, tick[q].via)'
      <4>1. CASE q = r
        <5>1. \E c \in claims' : c.s = d.s /\ c.at = d.at /\ c.via = via /\ c.until > clock'
          BY <1>3, <1>4 DEF Claimed
        <5>. QED BY <2>1, <4>1, <5>1 DEF Claimed
      <4>2. CASE q # r
        <5>1. /\ tick'[q] = tick[q] /\ Claimed(tick[q].job, tick[q].via)
          BY <1>2, <3>2, <4>2 DEF OnceInv, OpenClaims
        <5>2. \A e, v : Claimed(e, v) => \E c \in claims' : /\ c.s = e.s /\ c.at = e.at /\ c.via = v
                                                          /\ c.until > clock'
          BY <1>4 DEF Claimed
        <5>. QED BY <5>1, <5>2 DEF Claimed
      <4>. QED BY <4>1, <4>2
    <3>. QED BY <3>1, <3>2 DEF OpenClaims
  <2>6. ASSUME NEW q \in Replicas \ {r}, Under(q), tick[q].via = via,
               tick[q].job.s = d.s, tick[q].job.at = d.at
        PROVE  FALSE
    <3>1. CASE tick[q].pc = "advance"
      BY <1>7, <2>6, <3>1 DEF OnceInv, OpenClaims, Claimed
    <3>2. CASE tick[q].pc = "execute"
      BY <2>4, <2>6, <3>2 DEF Ran
    <3>. QED BY <2>6, <3>1, <3>2 DEF Under
  <2>7. OneRun'
    BY <1>2, <2>1, <2>4, <2>6 DEF OnceInv, OneRun, Under, Ran
  <2>8. \A s \in Schedules, at \in Nat : Started(s, at)' => Past(s, at)'
    BY <1>2, <2>3 DEF OnceInv, Past
  <2>. QED BY <1>2, <2>5, <2>7, <2>8 DEF OnceInv
<1>. QED BY <1>6, <1>7

LEMMA AdvanceOnce ==
  ASSUME TypeOK, WasDue, OnceInv, NEW r \in Replicas, Advance(r)
  PROVE  WasDue' /\ OnceInv'
<1>. DEFINE d == tick[r].job
<1>1. /\ UNCHANGED <<clock, claims, open, life, edit, fires>> /\ tick[r].pc = "advance"
      /\ tick'[r].pc = "execute" /\ tick'[r].job = d /\ tick'[r].due = tick[r].due
      /\ tick'[r].via = tick[r].via
      /\ \A q \in Replicas \ {r} : tick'[q] = tick[q]
      /\ AdvanceRow(d, tick[r].now)
  BY DEF Advance, TypeOK, TickState, stores
<1>2. d \in DueRow /\ d.s \in Schedules /\ d.at \in Nat
  BY <1>1 DEF TypeOK, TickState, DueRow
<1>3. WasDue'
  BY <1>1 DEF WasDue, Under
<1>. SUFFICES ASSUME ~late' PROVE OnceInv'
  BY <1>3 DEF OnceInv
<1>4. ~late /\ ~Overtaken(r)
  BY DEF Advance
<1>5. \A q \in Replicas : Under(q)' => Under(q) /\ tick'[q].job = tick[q].job
                                       /\ tick'[q].via = tick[q].via
  BY <1>1 DEF Under
<1>6. /\ \A s, at : Started(s, at)' => Started(s, at) \/ (s = d.s /\ at = d.at)
      /\ \A s, at, via : Ran(s, at, via)' => \/ Ran(s, at, via)
                                             \/ s = d.s /\ at = d.at /\ via = tick[r].via
      /\ \A q : Reach(q)' = Reach(q)
  BY <1>1 DEF Started, Ran, Reach, Via
<1>7. \A s \in Schedules, at \in Nat : Started(s, at)' => at <= clock
  <2>1. \A s \in Schedules, at \in Nat : Started(s, at) => at <= clock
    BY DEF Started, WasDue, Under
  <2>2. d.at <= clock
    BY <1>1 DEF WasDue, Under
  <2>. QED BY <1>6, <2>1, <2>2
<1>8. row'[d.s] = Nobody \/ Later(row'[d.s].next, clock)
  <2>1. CASE row[d.s] = Nobody
    BY <1>1, <2>1 DEF AdvanceRow
  <2>2. CASE row[d.s] # Nobody
    <3>1. row[d.s] \in Row /\ row \in [Schedules -> Row \cup {Nobody}]
      BY <1>2, <2>2 DEF TypeOK
    <3>2. row'[d.s].next = NextRun(d.plan, tick[r].now)
      BY <1>1, <1>2, <2>2, <3>1 DEF AdvanceRow, Advanced, Row
    <3>3. NextRun(d.plan, tick[r].now) \in Nat \cup {Never} /\ clock \in Nat
      BY <1>2, NextRunType DEF TypeOK, TickState, Times, DueRow, DueTimes
    <3>. QED BY <1>4, <3>2, <3>3 DEF Overtaken, Later
  <2>. QED BY <2>1, <2>2
<1>9. \A s \in Schedules \ {d.s} : row'[s] = row[s]
  BY <1>1, <1>2 DEF AdvanceRow, TypeOK
<1>10. \A s \in Schedules, at \in Nat : Started(s, at)' => Past(s, at)'
  <2>1. SUFFICES ASSUME NEW s \in Schedules, NEW at \in Nat, Started(s, at)' PROVE Past(s, at)'
    OBVIOUS
  <2>2. CASE s = d.s
    <3>1. row'[s] # Nobody => row'[s].next \in Nat \cup {Never}
      BY TypeStep DEF Next, TickStep, TypeOK, Row, DueTimes
    <3>2. clock \in Nat
      BY DEF TypeOK, Times
    <3>. QED BY <1>7, <1>8, <2>1, <2>2, <3>1, <3>2 DEF Past, Later
  <2>3. CASE s # d.s
    BY <1>4, <1>6, <1>9, <2>1, <2>3 DEF OnceInv, Past
  <2>. QED BY <2>2, <2>3
<1>11. OpenClaims'
  <2>1. Claimed(d, tick[r].via)
    BY <1>1, <1>4 DEF OnceInv, OpenClaims
  <2>2. \A e, via : Claimed(e, via)' <=> Claimed(e, via)
    BY <1>1 DEF Claimed
  <2>3. \A e : e.s = d.s /\ e.at = d.at => Claimed(e, tick[r].via)
    BY <2>1 DEF Claimed
  <2>. QED BY <1>1, <1>4, <1>6, <2>2, <2>3 DEF OnceInv, OpenClaims
<1>12. OneRun'
  BY <1>1, <1>4, <1>5 DEF OnceInv, OneRun
<1>. QED BY <1>1, <1>4, <1>10, <1>11, <1>12 DEF OnceInv

LEMMA ExecuteOnce ==
  ASSUME TypeOK, WasDue, OnceInv, NEW r \in Replicas, Execute(r)
  PROVE  WasDue' /\ OnceInv'
<1>. DEFINE new == [s |-> tick[r].job.s, at |-> tick[r].job.at,
                    claimed |-> tick[r].claimed, by |-> r, via |-> tick[r].via]
<1>1. /\ UNCHANGED <<clock, row, claims, open, life, edit, late>> /\ fires' = fires \cup {new}
      /\ tick[r].pc = "execute" /\ tick'[r].pc \in {"ok", "error"}
      /\ tick'[r].due = tick[r].due
      /\ \A q \in Replicas \ {r} : tick'[q] = tick[q]
  BY DEF Execute, TypeOK, TickState, stores
<1>2. new.s = tick[r].job.s /\ new.at = tick[r].job.at /\ new.via = tick[r].via
  OBVIOUS
<1>. HIDE DEF new
<1>3. Under(r) /\ \A q \in Replicas : Under(q)' => Under(q) /\ q # r
  BY <1>1 DEF Under
<1>4. WasDue'
  BY <1>1, <1>2, <1>3 DEF WasDue
<1>. SUFFICES ASSUME ~late PROVE OnceInv'
  BY <1>1, <1>4 DEF OnceInv
<1>5. /\ \A s, at : Started(s, at)' => Started(s, at)
      /\ \A s, at, via : Ran(s, at, via)' => Ran(s, at, via)
      /\ \A q : Reach(q)' = Reach(q)
  BY <1>1, <1>2 DEF Started, Ran, Reach, Via
<1>6. \A e, via : Claimed(e, via)' <=> Claimed(e, via)
  BY <1>1 DEF Claimed
<1>7. OpenClaims'
  BY <1>1, <1>5, <1>6 DEF OnceInv, OpenClaims
<1>8. OneRun'
  <2>1. \A f \in fires : ~(f.s = new.s /\ f.at = new.at /\ f.via = new.via)
    BY <1>2, <1>3 DEF OnceInv, OneRun
  <2>2. \A q \in Replicas : ~(/\ Under(q)' /\ new.via = tick[q].via
                              /\ new.s = tick[q].job.s /\ new.at = tick[q].job.at)
    BY <1>2, <1>3 DEF OnceInv, OneRun
  <2>. QED BY <1>1, <1>3, <2>1, <2>2 DEF OnceInv, OneRun
<1>9. \A s \in Schedules, at \in Nat : Started(s, at)' => Past(s, at)'
  BY <1>1, <1>5 DEF OnceInv, Past
<1>. QED BY <1>1, <1>7, <1>8, <1>9 DEF OnceInv

\* A late advance makes it late; a stored run, edited or new, is still ahead.
LEMMA OthersOnce ==
  ASSUME TypeOK, WasDue, CountedBy, OnceInv,
         \/ EditApply \/ Trip \/ Forget \/ UNCHANGED vars
         \/ \E r \in Replicas : EndTick(r) \/ Finish(r) \/ TickFault(r) \/ Crash(r) \/ Recover(r)
         \/ \E s \in Schedules : Create(s) \/ EditCompute(s) \/ Delete(s)
  PROVE  WasDue' /\ OnceInv'
<1>. DEFINE Lasting == \A s \in Schedules, at \in Nat :
                      ~late /\ at <= clock /\ Past(s, at) => Past(s, at)'
<1>0. /\ row \in [Schedules -> Row \cup {Nobody}] /\ row' \in [Schedules -> Row \cup {Nobody}]
      /\ clock \in Nat /\ life \in [CounterStores -> Nat] /\ Replicas \subseteq CounterStores
      /\ Shared \in CounterStores /\ Shared \notin Replicas
  BY TypeStep, SchedulerConstants DEF Next, TickStep, TypeOK, Times, CounterStores
<1>1. ASSUME NEW r \in Replicas, EndTick(r) \/ Finish(r) \/ TickFault(r) \/ Crash(r)
      PROVE  WasDue' /\ OnceInv'
  <2>0. Idle.due = {}
    BY DEF Idle
  <2>1. /\ UNCHANGED <<clock, claims, fires, edit>>
        /\ \A q \in Replicas \ {r} : tick'[q] = tick[q]
        /\ tick'[r].due \subseteq tick[r].due
        /\ ~Under(r)'
    <3>1. tick \in [Replicas -> TickState]
      BY DEF TypeOK
    <3>2. CASE EndTick(r) \/ Crash(r)
      BY <2>0, <3>1, <3>2, IdleType DEF EndTick, Crash, Under
    <3>3. CASE Finish(r)
      <4>1. PICK x : x = [Idle EXCEPT !.pc = "claim", !.now = tick[r].now, !.due = tick[r].due]
        OBVIOUS
      <4>2. tick' = [tick EXCEPT ![r] = x]
        BY <3>3, <4>1 DEF Finish
      <4>3. x.due = tick[r].due /\ x.pc = "claim"
        BY <4>1, IdleType DEF TickState
      <4>. QED BY <3>1, <3>3, <4>2, <4>3 DEF Finish, Under
    <3>4. CASE TickFault(r)
      <4>1. tick'[r].pc \in {"idle", "error"} /\ tick'[r].due \subseteq tick[r].due
        BY <2>0, <3>1, <3>4, IdleType DEF TickFault, TickState
      <4>. QED BY <3>1, <3>4, <4>1 DEF TickFault, Under
    <3>. QED BY <1>1, <3>2, <3>3, <3>4
  <2>11. \A q \in Replicas : \/ Reach(q)' = Reach(q)
                             \/ tick'[q].due = {}
    <3>1. CASE Crash(r)
      <4>1. life' = [life EXCEPT ![r] = @ + 1] /\ tick' = [tick EXCEPT ![r] = Idle]
        BY <3>1 DEF Crash
      <4>. QED BY <1>0, <2>0, <4>1 DEF Reach, Via, TypeOK
    <3>2. CASE ~Crash(r)
      BY <1>1, <3>2 DEF EndTick, Finish, TickFault, Reach, Via, stores
    <3>. QED BY <3>1, <3>2
  <2>2. ~late' => ~late
    BY <1>1 DEF EndTick, Finish, TickFault, Crash
  <2>3. ASSUME NEW o \in {"ok", "error"}, FinishRow(tick[r].job.s, o), tick[r].job # Nobody
        PROVE  Lasting
    <3>1. tick[r].job.s \in Schedules
      BY <2>3 DEF TypeOK, TickState, DueRow
    <3>2. \A x \in Schedules \ {tick[r].job.s} : row'[x] = row[x]
      BY <1>0, <2>3, <3>1 DEF FinishRow
    <3>3. \/ row'[tick[r].job.s] = row[tick[r].job.s]
          \/ row[tick[r].job.s] # Nobody
             /\ row'[tick[r].job.s].next = row[tick[r].job.s].next
      BY <1>0, <2>3, <3>1 DEF FinishRow, Finished, Row
    <3>. QED BY <1>0, <3>1, <3>2, <3>3, RowsMoveOn
  <2>4. ASSUME tick[r].pc = "advance", AdvanceRow(tick[r].job, tick[r].now), ~Overtaken(r)
        PROVE  Lasting
    <3>. DEFINE d == tick[r].job
    <3>1. d \in DueRow /\ d.s \in Schedules /\ tick[r].now \in Nat
      BY <2>4 DEF TypeOK, TickState, DueRow, Times
    <3>2. \A x \in Schedules \ {d.s} : row'[x] = row[x]
      BY <1>0, <2>4, <3>1 DEF AdvanceRow
    <3>3. CASE row[d.s] = Nobody
      BY <1>0, <2>4, <3>1, <3>2, <3>3, RowsMoveOn DEF AdvanceRow
    <3>4. CASE row[d.s] # Nobody
      <4>1. row'[d.s].next = NextRun(d.plan, tick[r].now)
        BY <1>0, <2>4, <3>1, <3>4 DEF AdvanceRow, Advanced, Row
      <4>2. NextRun(d.plan, tick[r].now) \in Nat \cup {Never}
        BY <3>1, NextRunType DEF DueRow, DueTimes
      <4>3. Later(row'[d.s].next, clock)
        BY <1>0, <2>4, <4>1, <4>2 DEF Overtaken, Later
      <4>. QED BY <1>0, <3>1, <3>2, <4>3, RowsMoveOn
    <3>. QED BY <3>3, <3>4
  <2>5. late' \/ Lasting
    <3>1. CASE UNCHANGED row
      BY <3>1 DEF Past
    <3>2. CASE Finish(r)
      BY <2>3, <3>2 DEF Finish, TypeOK
    <3>3. CASE TickFault(r) /\ tick[r].pc = "advance"
      BY <2>4, <3>1, <3>3 DEF TickFault
    <3>4. CASE TickFault(r) /\ tick[r].pc # "advance"
      BY <2>3, <3>1, <3>4 DEF TickFault, TypeOK
    <3>. QED BY <1>1, <3>1, <3>2, <3>3, <3>4 DEF EndTick, Crash
  <2>6. CASE late'
    BY <2>1, <2>6 DEF OnceInv, WasDue, Under
  <2>7. CASE ~late'
    <3>1. edit' # Nobody => Later(edit'.next, clock)
      BY <2>1, <2>2, <2>7 DEF OnceInv
    <3>2. \A q \in Replicas : /\ tick'[q].due \subseteq tick[q].due
                              /\ Under(q)' => tick'[q] = tick[q]
      BY <2>1
    <3>3. \A d, via : Claimed(d, via) => Claimed(d, via)'
      BY <2>1 DEF Claimed
    <3>. QED BY <2>1, <2>11, <2>2, <2>5, <2>7, <3>1, <3>2, <3>3, HoldsNoMore
  <2>. QED BY <2>6, <2>7
<1>2. ASSUME UNCHANGED <<clock, claims, tick, fires, late>>, Lasting,
             life' = life \/ life' = [life EXCEPT ![Shared] = @ + 1],
             ~late /\ edit' # Nobody => Later(edit'.next, clock)
      PROVE  WasDue' /\ OnceInv'
  <2>1. \A r \in Replicas : \A via \in Reach(r)' : via \in Reach(r) \/ ~Lived(via)
    <3>1. CASE life' = life
      BY <3>1 DEF Reach, Via
    <3>2. CASE life' = [life EXCEPT ![Shared] = @ + 1]
      <4>1. /\ life'[Shared] = life[Shared] + 1 /\ life[Shared] \in Nat
            /\ \A r \in Replicas : life'[r] = life[r]
        BY <1>0, <3>2
      <4>2. \A r \in Replicas : Via(r)' = Via(r) /\ Reach(r)' = {Via(Shared)', Via(r)}
        BY <4>1 DEF Reach, Via
      <4>3. ~([store |-> Shared, life |-> life'[Shared]].life <= life[Shared])
        BY <4>1
      <4>4. ~Lived([store |-> Shared, life |-> life'[Shared]])
        BY <4>3 DEF Lived
      <4>5. Via(Shared)' = [store |-> Shared, life |-> life'[Shared]]
        BY DEF Via
      <4>6. \A r \in Replicas : Via(r) \in Reach(r)
        BY DEF Reach
      <4>. QED BY <4>2, <4>4, <4>5, <4>6
    <3>. QED BY <1>2, <3>1, <3>2
  <2>2. \A d, via : Claimed(d, via) => Claimed(d, via)'
    BY <1>2 DEF Claimed
  <2>. QED BY <1>2, <2>1, <2>2, HoldsNoMore
<1>3. ASSUME NEW plan \in Plans, NEW enabled \in BOOLEAN
      PROVE  Later(NextOf(plan, enabled), clock)
  BY <1>0, NextRunLater DEF NextOf, Later
<1>4. ASSUME NEW s \in Schedules, Create(s) PROVE WasDue' /\ OnceInv'
  <2>1. PICK plan \in PlansOf[s], enabled \in BOOLEAN :
          row' = [row EXCEPT ![s] = [plan |-> plan, enabled |-> enabled,
                                     next |-> NextOf(plan, enabled), status |-> "none"]]
    BY <1>4 DEF Create
  <2>2. plan \in Plans
    BY DEF Plans
  <2>3. Later(row'[s].next, clock) /\ \A x \in Schedules \ {s} : row'[x] = row[x]
    BY <1>0, <1>3, <2>1, <2>2
  <2>4. Lasting
    BY <1>0, <2>3, RowsMoveOn
  <2>. QED BY <1>2, <1>4, <2>4 DEF Create, OnceInv, stores
<1>5. ASSUME NEW s \in Schedules, EditCompute(s) PROVE WasDue' /\ OnceInv'
  <2>1. PICK plan \in PlansOf[s], enabled \in BOOLEAN :
          edit' = [s |-> s, plan |-> plan, enabled |-> enabled,
                   next |-> NextOf(plan, enabled)]
    BY <1>5 DEF EditCompute
  <2>2. Later(edit'.next, clock)
    BY <1>3, <2>1 DEF Plans
  <2>3. Lasting
    BY <1>5 DEF EditCompute, Past
  <2>. QED BY <1>2, <1>5, <2>2, <2>3 DEF EditCompute, stores
<1>6. ASSUME NEW s \in Schedules, Delete(s) PROVE WasDue' /\ OnceInv'
  <2>1. Lasting
    BY <1>0, <1>6, RowsMoveOn DEF Delete
  <2>. QED BY <1>2, <1>6, <2>1 DEF Delete, OnceInv, stores
<1>7. CASE EditApply
  <2>1. edit.s \in Schedules /\ \A x \in Schedules \ {edit.s} : row'[x] = row[x]
    BY <1>0, <1>7 DEF EditApply, TypeOK
  <2>2. CASE row[edit.s] = Nobody
    <3>1. Lasting
      BY <1>7, <2>2 DEF EditApply, Past
    <3>. QED BY <1>2, <1>7, <3>1 DEF EditApply, stores
  <2>3. CASE row[edit.s] # Nobody
    <3>1. row'[edit.s].next = edit.next
      BY <1>0, <1>7, <2>1, <2>3 DEF EditApply, Row
    <3>2. ~late => Lasting
      BY <1>0, <1>7, <2>1, <3>1, RowsMoveOn DEF EditApply, OnceInv
    <3>. QED BY <1>2, <1>7, <3>2 DEF EditApply, stores
  <2>. QED BY <2>2, <2>3
<1>8. CASE UNCHANGED vars
  BY <1>2, <1>8 DEF vars, stores, OnceInv, Past
<1>9. ASSUME Trip \/ Forget \/ \E r \in Replicas : Recover(r) PROVE WasDue' /\ OnceInv'
  BY <1>2, <1>9 DEF Trip, Forget, Recover, OnceInv, Past
<1>. QED BY <1>1, <1>4, <1>5, <1>6, <1>7, <1>8, <1>9

\* A fire is executed by one replica, once, unless a claim ran out, an edit or
\* an advance was stored, after the clock had overtaken it; and after a failure
\* of Redis once for each store that has counted it.
THEOREM FiredOnce == Spec => []FiredOnceUnlessLate
<1>1. Init => WasDue /\ CountedBy /\ OnceInv
  <2>1. SUFFICES ASSUME Init PROVE WasDue /\ CountedBy /\ OnceInv
    OBVIOUS
  <2>2. /\ \A r \in Replicas : tick[r] = Idle /\ ~Under(r) /\ ~open[r]
        /\ fires = {} /\ edit = Nobody /\ life[Shared] = 0
    BY <2>1, IdleType DEF Init, Under, CounterStores
  <2>3. Idle.due = {} /\ Idle.pc = "idle"
    BY DEF Idle
  <2>4. WasDue /\ CountedBy
    BY <2>2, <2>3 DEF WasDue, CountedBy
  <2>5. OnceInv
    BY <2>2, <2>3 DEF OnceInv, OpenClaims, OneRun, Started, Ran
  <2>. QED BY <2>4, <2>5
<1>2. IndInv /\ WasDue /\ CountedBy /\ OnceInv /\ [Next]_vars => WasDue' /\ CountedBy' /\ OnceInv'
  BY ClockOnce, StartOnce, ClaimOnce, AdvanceOnce, ExecuteOnce, OthersOnce, CountedByStep
     DEF IndInv, Next, TickStep
<1>3. CountedBy /\ OnceInv /\ TypeOK => FiredOnceUnlessLate
  BY DEF CountedBy, OnceInv, OneRun, FiredOnceUnlessLate, TypeOK
<1>4. IndInv => TypeOK
  BY DEF IndInv
<1>. QED BY <1>1, <1>2, <1>3, <1>4, Invariance, PTL DEF Spec

-----------------------------------------------------------------------------
(* The chat page and the gateway's turns: what the state consists of.      *)

(* A file is known by the conversation it was uploaded to; of the messages of a *)
(* thread only the two sides of the conversation are stored.                   *)
Files == [chat : Chats, name : Turns \cup {0}]
StoredMessages == [role : {"user", "assistant"}, turn : Turns \cup {0}, calls : Nat]
PromptMessages == [role : {"system", "user", "assistant", "call", "tool"}, turn : Turns \cup {0}, calls : Nat]
Links == [file : Files, chat : Chats, turn : Turns, role : {"user", "assistant"}]
Checks == {"check", "model allowed", "budget", "tools", "dlp"}
TurnPcs == Checks \cup Ended \cup
           {"idle", "question", "attach", "title", "prompt", "model", "tool", "reply", "produced", "announce"}
TurnRecords == [at : TurnPcs, chat : Chats \cup {NoChat}, uploads : SUBSET Files,
                prompt : Seq(PromptMessages), round : Nat, trims : Nat, produced : Nat,
                event : {"none", "done", "failed"}]
(* A turn that was posted has a conversation.                                  *)
TurnsTyped ==
  /\ turn \in [Turns -> TurnRecords]
  /\ \A t \in Turns : turn[t].at # "idle" => turn[t].chat \in Chats
ServerTypes ==
  /\ chats \in [Chats -> {"unborn", "live", "deleted"}]
  /\ stored \in [Chats -> Seq(StoredMessages)]
  /\ titled \subseteq Chats /\ links \subseteq Links
  /\ failures \in Nat
  /\ TurnsTyped

(* What the page shows, has asked for and is sending.                           *)
Items == [kind : {"question", "reply", "notice"}, turn : Turns \cup {0}, chat : Chats \cup {NoChat}]
Threads == [chat : Chats \cup {NoChat}, n : Nat, extra : Seq(Items)]
Gets == [id : Int, kind : {"click", "route", "reconcile"}, chat : Chats,
         at : {"asked", "answered", "error"}, n : Nat, last : {"none", "user", "assistant"}]
Sendings == [turn : Turns \cup {0}, stream : {"none", "open", "closed", "reconcile"},
             settled : BOOLEAN, left : BOOLEAN]
ViewTypes ==
  /\ {current, url, upload} \subseteq Chats \cup {NoChat}
  /\ routed \in BOOLEAN /\ ops \in Nat
  /\ shown \in Threads /\ gets \subseteq Gets /\ sending \in Sendings
  /\ pending \subseteq Files

(* What a step of the gateway leaves alone *)
OnlyAppended ==
  \A c \in Chats : /\ Len(stored'[c]) >= Len(stored[c])
                   /\ \A i \in 1..Len(stored[c]) : stored'[c][i] = stored[c][i]
TurnsGoOn ==
  \A t \in Turns : turn[t].at # "idle" => turn'[t].at # "idle" /\ turn'[t].chat = turn[t].chat

-------------------------------------------------------------------------------
(* A set of numbers has a least one: the induction that the proofs below need.  *)
LEMMA LeastOf ==
  ASSUME NEW S, S \subseteq Nat, S # {}
  PROVE  \E n \in S : \A m \in S : n <= m
<1> DEFINE R == {ss \in Nat \X Nat : ss[1] < ss[2]}
<1>1. IsWellFoundedOn(R, Nat)
  BY NatLessThanWellFounded DEF OpToRel
<1>2. \A x, y \in Nat : <<x, y>> \notin R => y <= x
  OBVIOUS
<1> HIDE DEF R
<1>3. PICK n \in S : \A m \in S : <<m, n>> \notin R
  BY <1>1, WFMin
<1> QED
  BY <1>2, <1>3

(* Sequences put together.                                                      *)
LEMMA Joined ==
  ASSUME NEW M, NEW s \in Seq(M), NEW r \in Seq(M)
  PROVE  /\ s \o r \in Seq(M)
         /\ Len(s \o r) = Len(s) + Len(r)
         /\ \A i \in 1..Len(s) : (s \o r)[i] = s[i]
         /\ \A i \in 1..Len(r) : (s \o r)[Len(s) + i] = r[i]
OBVIOUS

LEMMA JoinedAppend ==
  ASSUME NEW M, NEW s \in Seq(M), NEW r \in Seq(M), NEW x \in M
  PROVE  Append(s \o r, x) = s \o Append(r, x)
OBVIOUS

LEMMA SameSeq ==
  ASSUME NEW M, NEW s \in Seq(M), NEW r \in Seq(M), Len(s) = Len(r), \A i \in 1..Len(s) : s[i] = r[i]
  PROVE  s = r
OBVIOUS

LEMMA LastSet ==
  ASSUME NEW M, NEW s \in Seq(M), Len(s) # 0, NEW x \in M
  PROVE  /\ [s EXCEPT ![Len(s)] = x] \in Seq(M) /\ Len([s EXCEPT ![Len(s)] = x]) = Len(s)
         /\ \A i \in 1..Len(s) : [s EXCEPT ![Len(s)] = x][i] = IF i = Len(s) THEN x ELSE s[i]
OBVIOUS

LEMMA JoinedLast ==
  ASSUME NEW M, NEW s \in Seq(M), NEW r \in Seq(M), Len(r) # 0, NEW x \in M
  PROVE  [s \o r EXCEPT ![Len(s \o r)] = x] = s \o [r EXCEPT ![Len(r)] = x]
<1>1. PICK v \in Seq(M) : v = s \o r
  BY Joined
<1>2. /\ Len(v) = Len(s) + Len(r) /\ Len(s) \in Nat /\ Len(r) \in Nat
      /\ \A i \in 1..Len(s) : v[i] = s[i]
      /\ \A i \in 1..Len(r) : v[Len(s) + i] = r[i]
  BY <1>1, Joined
<1>a. Len(v) # 0
  BY <1>2
<1>3. PICK y \in Seq(M) : y = [v EXCEPT ![Len(v)] = x]
  BY <1>a, LastSet
<1>4. PICK z \in Seq(M) : z = [r EXCEPT ![Len(r)] = x]
  BY LastSet
<1>5. Len(y) = Len(v) /\ \A i \in 1..Len(v) : y[i] = IF i = Len(v) THEN x ELSE v[i]
  BY <1>a, <1>3, LastSet
<1>6. Len(z) = Len(r) /\ \A i \in 1..Len(r) : z[i] = IF i = Len(r) THEN x ELSE r[i]
  BY <1>4, LastSet
<1>7. PICK u \in Seq(M) : u = s \o z
  BY Joined
<1>8. /\ Len(u) = Len(s) + Len(r) /\ \A i \in 1..Len(s) : u[i] = s[i]
      /\ \A i \in 1..Len(r) : u[Len(s) + i] = z[i]
  <2>1. Len(z) = Len(r)
    BY <1>6
  <2>2. /\ Len(u) = Len(s) + Len(z) /\ \A i \in 1..Len(s) : u[i] = s[i]
        /\ \A i \in 1..Len(z) : u[Len(s) + i] = z[i]
    BY <1>7, Joined
  <2> QED
    BY <2>1, <2>2
<1>9. \A i \in 1..Len(y) : y[i] = u[i]
  <2> SUFFICES ASSUME NEW i \in 1..Len(y) PROVE y[i] = u[i]
    OBVIOUS
  <2>1. CASE i <= Len(s)
    BY <1>2, <1>5, <1>8, <2>1
  <2>2. CASE i > Len(s)
    <3>1. PICK j \in 1..Len(r) : i = Len(s) + j
      <4>1. i - Len(s) \in 1..Len(r) /\ i = Len(s) + (i - Len(s))
        BY <1>2, <1>5, <2>2
      <4> QED
        BY <4>1
    <3>2. v[i] = r[j] /\ u[i] = z[j]
      <4>1. v[Len(s) + j] = r[j] /\ u[Len(s) + j] = z[j]
        BY <1>2, <1>8, Zenon
      <4> QED
        BY <3>1, <4>1
    <3>3. i = Len(v) <=> j = Len(r)
      <4>1. PICK a \in Nat, c \in Nat : a = Len(s) /\ c = Len(r)
        OBVIOUS
      <4>2. a + j = a + c <=> j = c
        OBVIOUS
      <4> QED
        BY <1>2, <3>1, <4>1, <4>2, Zenon
    <3> QED
      <4>1. y[i] = IF i = Len(v) THEN x ELSE v[i]
        BY <1>5
      <4>2. z[j] = IF j = Len(r) THEN x ELSE r[j]
        BY <1>6, <3>1
      <4> QED
        BY <3>2, <3>3, <4>1, <4>2
  <2> QED
    BY <1>2, <1>5, <2>1, <2>2
<1>10. Len(y) = Len(u)
  BY <1>2, <1>5, <1>8
<1>11. y = u
  BY <1>9, <1>10, SameSeq
<1> QED
  BY <1>1, <1>3, <1>4, <1>7, <1>11

\* A set of numbers moved along has as many elements.
LEMMA MovedAlong ==
  ASSUME NEW A \in SUBSET Int, NEW B \in SUBSET Int, NEW d \in Int, IsFiniteSet(A),
         \A i \in A : d + i \in B, \A j \in B : j - d \in A
  PROVE  Cardinality(A) = Cardinality(B)
<1> DEFINE h == [i \in A |-> d + i]
<1>1. h \in [A -> B] /\ \A i \in A : h[i] = d + i
  OBVIOUS
<1>2. \A i, j \in A : h[i] = h[j] => i = j
  <2>1. \A i, j \in Int : d + i = d + j => i = j
    OBVIOUS
  <2> QED
    BY <1>1, <2>1
<1>3. \A j \in B : \E i \in A : h[i] = j
  <2>1. \A j \in Int : d + (j - d) = j
    OBVIOUS
  <2> QED
    BY <1>1, <2>1
<1> HIDE DEF h
<1>4. h \in Bijection(A, B)
  BY <1>1, <1>2, <1>3, Fun_IsBij
<1> QED
  BY <1>4, FS_Bijection DEF ExistsBijection

\* The function that FoldLeft stands for, and that there is one.
Folding(f, p, n) ==
  f = [s \in SUBSET (1..n) |-> IF s = {} THEN <<>> ELSE OntoWire(f[s \ {Max(s)}], p[Max(s)])]

LEMMA WireIsFold == ASSUME NEW p PROVE Wire(p) = (CHOOSE f : f = [s \in SUBSET DOMAIN p |-> IF s = {} THEN <<>> ELSE OntoWire(f[s \ {Max(s)}], p[Max(s)])])[DOMAIN p]
BY DEF Wire, FoldLeft, MapThenFoldSet

LEMMA MaxOf ==
  ASSUME NEW n \in Nat, NEW s \in SUBSET (1..n), n \in s
  PROVE  Max(s) = n
<1>1. \A y \in s : n >= y
  OBVIOUS
<1>2. PICK m : m = CHOOSE x \in s : \A y \in s : x >= y
  OBVIOUS
<1>3. m \in s /\ \A y \in s : m >= y
  BY <1>1, <1>2
<1> QED
  BY <1>1, <1>2, <1>3 DEF Max

LEMMA FoldingExists ==
  ASSUME NEW p, NEW n \in Nat
  PROVE  \E f : Folding(f, p, n)
<1> DEFINE S == {k \in Nat : ~ \E f : Folding(f, p, k)}
<1>1. 0 \notin S
  <2>1. 1..0 = {} /\ SUBSET {} = {{}}
    OBVIOUS
  <2> DEFINE f == [s \in SUBSET (1..0) |-> <<>>]
  <2>2. Folding(f, p, 0)
    BY <2>1 DEF Folding
  <2> QED
    BY <2>2
<1>2. ASSUME NEW k \in Nat, k \notin S
      PROVE  k + 1 \notin S
  <2>1. PICK f : Folding(f, p, k)
    BY <1>2
  <2> DEFINE g == [s \in SUBSET (1..(k + 1)) |->
                     IF k + 1 \in s THEN OntoWire(f[s \ {k + 1}], p[k + 1]) ELSE f[s]]
  <2>2. ASSUME NEW s \in SUBSET (1..(k + 1))
        PROVE  g[s] = IF s = {} THEN <<>> ELSE OntoWire(g[s \ {Max(s)}], p[Max(s)])
    <3>1. CASE k + 1 \in s
      <4>1. Max(s) = k + 1
        BY <3>1, MaxOf
      <4>2. s \ {k + 1} \in SUBSET (1..k) /\ s \ {k + 1} \in SUBSET (1..(k + 1)) /\ s # {} /\ k + 1 \notin s \ {k + 1}
        BY <3>1
      <4>3. g[s] = OntoWire(f[s \ {k + 1}], p[k + 1]) /\ g[s \ {k + 1}] = f[s \ {k + 1}]
        BY <3>1, <4>2, Zenon
      <4> HIDE DEF g
      <4>4. g[s] = OntoWire(g[s \ {Max(s)}], p[Max(s)])
        BY <4>1, <4>3, Zenon
      <4> QED
        BY <4>2, <4>4, Zenon
    <3>2. CASE k + 1 \notin s
      <4>1. s \in SUBSET (1..k) /\ \A x : s \ {x} \in SUBSET (1..k) /\ s \ {x} \in SUBSET (1..(k + 1)) /\ k + 1 \notin s \ {x}
        <5>1. \A y \in s : y \in 1..k
          BY <3>2
        <5>2. 1..k \subseteq 1..(k + 1)
          OBVIOUS
        <5> QED
          BY <3>2, <5>1, <5>2, Zenon
      <4>2. f[s] = IF s = {} THEN <<>> ELSE OntoWire(f[s \ {Max(s)}], p[Max(s)])
        BY <2>1, <4>1, Zenon DEF Folding
      <4>3. g[s] = f[s] /\ g[s \ {Max(s)}] = f[s \ {Max(s)}]
        BY <3>2, <4>1, Zenon
      <4> QED
        BY <4>2, <4>3
    <3> QED
      BY <3>1, <3>2
  <2> DEFINE h == [s \in SUBSET (1..(k + 1)) |->
                     IF s = {} THEN <<>> ELSE OntoWire(g[s \ {Max(s)}], p[Max(s)])]
  <2>3. g = h
    <3>1. \A s \in SUBSET (1..(k + 1)) : h[s] = IF s = {} THEN <<>> ELSE OntoWire(g[s \ {Max(s)}], p[Max(s)])
      BY Zenon
    <3>2. \A s \in SUBSET (1..(k + 1)) : g[s] = h[s]
      BY <2>2, <3>1, Zenon
    <3>3. g = [s \in SUBSET (1..(k + 1)) |-> g[s]] /\ h = [s \in SUBSET (1..(k + 1)) |-> h[s]]
      BY Zenon
    <3> HIDE DEF g, h
    <3> QED
      BY <3>2, <3>3
  <2>4. Folding(g, p, k + 1)
    BY <2>3, Zenon DEF Folding
  <2> HIDE DEF g
  <2> QED
    BY <2>4
<1>3. S = {}
  <2>1. SUFFICES ASSUME S # {} PROVE FALSE
    OBVIOUS
  <2>2. S \subseteq Nat
    OBVIOUS
  <2>3. PICK k \in S : \A m \in S : k <= m
    BY <2>1, <2>2, LeastOf
  <2> HIDE DEF S
  <2>4. k \in Nat /\ k # 0
    BY <1>1, <2>2, <2>3
  <2>5. k - 1 \in Nat /\ k - 1 \notin S /\ (k - 1) + 1 = k
    BY <2>2, <2>3, <2>4
  <2> QED
    BY <1>2, <2>3, <2>5
<1> QED
  BY <1>3

LEMMA FoldingStep ==
  ASSUME NEW f, NEW p, NEW n \in Nat, Folding(f, p, n)
  PROVE  /\ f[1..0] = <<>>
         /\ \A k \in 1..n : f[1..k] = OntoWire(f[1..(k - 1)], p[k])
<1>1. f[1..0] = <<>>
  <2>1. 1..0 = {} /\ {} \in SUBSET (1..n)
    OBVIOUS
  <2>2. f[{}] = <<>>
    BY <2>1, Zenon DEF Folding
  <2> QED
    BY <2>1, <2>2
<1>2. ASSUME NEW k \in 1..n
      PROVE  f[1..k] = OntoWire(f[1..(k - 1)], p[k])
  <2>1. 1..k \in SUBSET (1..n) /\ 1..k # {} /\ (1..k) \ {k} = 1..(k - 1)
    OBVIOUS
  <2>2. Max(1..k) = k
    BY MaxOf
  <2>3. f[1..k] = OntoWire(f[(1..k) \ {Max(1..k)}], p[Max(1..k)])
    BY <2>1, Zenon DEF Folding
  <2> QED
    BY <2>1, <2>2, <2>3
<1> QED
  BY <1>1, <1>2

(* The prompt's messages, and what they become on the wire.                    *)
Good == {m \in PromptMessages : m.role = "call" => m.calls >= 1}
Blocks == {b \in Seq({"text", "use", "result"}) : b # <<>>}
OnWire == [role : {"user", "assistant"}, blocks : Blocks]

LEMMA WireEmpty == Wire(<<>>) = <<>>
<1> DEFINE f == CHOOSE f : Folding(f, <<>>, 0)
<1>1. DOMAIN <<>> = 1..0
  OBVIOUS
<1>2. Wire(<<>>) = f[1..0]
  BY <1>1, WireIsFold DEF Folding
<1>3. Folding(f, <<>>, 0)
  BY FoldingExists, Zenon
<1> HIDE DEF f
<1> QED
  BY <1>2, <1>3, FoldingStep

\* A message more on the prompt is one step more of the translation.
LEMMA WireAppend ==
  ASSUME NEW M, NEW p \in Seq(M), NEW m \in M
  PROVE  Wire(Append(p, m)) = OntoWire(Wire(p), m)
<1> DEFINE n == Len(p)
           q == Append(p, m)
           f == CHOOSE f : Folding(f, p, n)
           g == CHOOSE g : Folding(g, q, n + 1)
<1>1. n \in Nat /\ DOMAIN p = 1..n /\ DOMAIN q = 1..(n + 1) /\ q[n + 1] = m /\ \A i \in 1..n : q[i] = p[i]
  OBVIOUS
<1> HIDE DEF q
<1>2. Wire(p) = f[1..n] /\ Wire(q) = g[1..(n + 1)]
  <2>1. Wire(p) = f[1..n]
    BY <1>1, WireIsFold DEF Folding
  <2>2. Wire(q) = g[1..(n + 1)]
    BY <1>1, WireIsFold DEF Folding
  <2> QED
    BY <2>1, <2>2
<1>3. Folding(f, p, n) /\ Folding(g, q, n + 1)
  <2>1. \E h : Folding(h, p, n)
    BY <1>1, FoldingExists
  <2>2. \E h : Folding(h, q, n + 1)
    BY <1>1, FoldingExists
  <2> QED
    BY <2>1, <2>2, Zenon
<1> HIDE DEF f, g, n
<1>4. f[1..n] = g[1..n]
  <2> DEFINE S == {k \in 0..n : f[1..k] # g[1..k]}
  <2>1. SUFFICES ASSUME S # {} PROVE FALSE
    BY <1>1
  <2>2. S \subseteq Nat
    BY <1>1
  <2>3. PICK k \in S : \A j \in S : k <= j
    BY <2>1, <2>2, LeastOf
  <2>4. k # 0
    BY <1>1, <1>3, FoldingStep
  <2>5. k \in 1..n /\ k - 1 \in 0..n /\ k - 1 \notin S
    BY <1>1, <2>3, <2>4
  <2>6. f[1..(k - 1)] = g[1..(k - 1)]
    BY <2>5
  <2>7. f[1..k] = OntoWire(f[1..(k - 1)], p[k])
    <3>1. \A j \in 1..n : f[1..j] = OntoWire(f[1..(j - 1)], p[j])
      BY <1>1, <1>3, FoldingStep
    <3> QED
      BY <2>5, <3>1
  <2>8. g[1..k] = OntoWire(g[1..(k - 1)], q[k])
    <3>1. k \in 1..(n + 1) /\ n + 1 \in Nat
      BY <1>1, <2>5
    <3> QED
      BY <1>3, <3>1, FoldingStep
  <2>9. f[1..k] = g[1..k]
    BY <1>1, <2>5, <2>6, <2>7, <2>8
  <2> QED
    BY <2>3, <2>9
<1>5. g[1..(n + 1)] = OntoWire(g[1..n], q[n + 1])
  <2>1. n + 1 \in Nat /\ n + 1 \in 1..(n + 1) /\ (n + 1) - 1 = n
    BY <1>1
  <2> QED
    BY <1>3, <2>1, FoldingStep
<1> QED
  BY <1>1, <1>2, <1>4, <1>5 DEF q

LEMMA WireSuffix ==
  ASSUME NEW M, NEW p \in Seq(M), NEW n \in 0..(Len(p) - 1)
  PROVE  Wire(SubSeq(p, 1, n + 1)) = OntoWire(Wire(SubSeq(p, 1, n)), p[n + 1])
<1>1. SubSeq(p, 1, n) \in Seq(M) /\ p[n + 1] \in M
  OBVIOUS
<1>2. SubSeq(p, 1, n + 1) = Append(SubSeq(p, 1, n), p[n + 1])
  OBVIOUS
<1> QED
  BY <1>1, <1>2, WireAppend

\* One result more in the last turn.
Grow(w) == [w EXCEPT ![Len(w)] = WireTurn(w[Len(w)].role, Append(w[Len(w)].blocks, "result"))]

\* What one message does to the wire, case by case.
LEMMA Onto ==
  ASSUME NEW w \in Seq(OnWire), NEW m \in Good
  PROVE  /\ OntoWire(w, m) \in Seq(OnWire)
         /\ m.role = "system" => OntoWire(w, m) = w
         /\ m.role \in {"user", "assistant"} => OntoWire(w, m) = Append(w, WireTurn(m.role, <<"text">>))
         /\ m.role = "call" => OntoWire(w, m) = Append(w, WireTurn("assistant", [i \in 1..m.calls |-> "use"]))
         /\ m.role = "tool" /\ ~ EndsInResults(w) => OntoWire(w, m) = Append(w, WireTurn("user", <<"result">>))
         /\ m.role = "tool" /\ EndsInResults(w) =>
              OntoWire(w, m) = Grow(w)
<1>0. m.role \in {"system", "user", "assistant", "call", "tool"} /\ (m.role = "call" => m.calls \in Nat /\ m.calls >= 1)
  BY DEF Good, PromptMessages
<1>1. \A b \in Blocks, r \in {"user", "assistant"} : Append(w, WireTurn(r, b)) \in Seq(OnWire)
  BY DEF OnWire, WireTurn
<1>2. <<"text">> \in Blocks /\ <<"result">> \in Blocks
  BY DEF Blocks
<1>3. CASE m.role = "system"
  BY <1>3 DEF OntoWire
<1>4. CASE m.role \in {"user", "assistant"}
  <2>1. OntoWire(w, m) = Append(w, WireTurn(m.role, <<"text">>))
    BY <1>4, Zenon DEF OntoWire
  <2> QED
    BY <1>1, <1>2, <1>4, <2>1
<1>5. CASE m.role = "call"
  <2> DEFINE b == [i \in 1..m.calls |-> "use"]
  <2>1. OntoWire(w, m) = Append(w, WireTurn("assistant", b))
    BY <1>5, Zenon DEF OntoWire
  <2>2. b \in Seq({"text", "use", "result"}) /\ Len(b) >= 1
    BY <1>0, <1>5
  <2> HIDE DEF b
  <2>3. b \in Blocks
    BY <2>2 DEF Blocks
  <2>4. Append(w, WireTurn("assistant", b)) \in Seq(OnWire)
    BY <1>1, <2>3
  <2> QED
    BY <1>5, <2>1, <2>4 DEF b
<1>6. CASE m.role = "tool" /\ ~ EndsInResults(w)
  <2>1. OntoWire(w, m) = Append(w, WireTurn("user", <<"result">>))
    BY <1>6, Zenon DEF OntoWire
  <2> QED
    BY <1>1, <1>2, <1>6, <2>1
<1>7. CASE m.role = "tool" /\ EndsInResults(w)
  <2> DEFINE n == Len(w)
             v == WireTurn(w[n].role, Append(w[n].blocks, "result"))
  <2>1. OntoWire(w, m) = [w EXCEPT ![n].blocks = Append(@, "result")]
    BY <1>7, Zenon DEF OntoWire
  <2>2. n \in 1..Len(w) /\ w[n] \in OnWire
    BY <1>7 DEF EndsInResults
  <2>3. v \in OnWire
    <3>1. Append(w[n].blocks, "result") \in Seq({"text", "use", "result"}) /\ Len(Append(w[n].blocks, "result")) >= 1
      BY <2>2 DEF OnWire, Blocks
    <3>2. Append(w[n].blocks, "result") \in Blocks
      BY <3>1 DEF Blocks
    <3> QED
      BY <2>2, <3>2 DEF OnWire, WireTurn
  <2>4. [w[n] EXCEPT !.blocks = Append(@, "result")] = v
    <3>1. \A x \in OnWire : \A b : [x EXCEPT !.blocks = b] = WireTurn(x.role, b)
      BY DEF OnWire, WireTurn
    <3> QED
      BY <2>2, <3>1
  <2>5. OntoWire(w, m) = [w EXCEPT ![n] = v] /\ Grow(w) = [w EXCEPT ![n] = v]
    BY <2>1, <2>2, <2>4 DEF Grow
  <2>6. [w EXCEPT ![n] = v] \in Seq(OnWire)
    <3> HIDE DEF v, n
    <3> QED
      BY <2>2, <2>3
  <2> QED
    BY <1>7, <2>5, <2>6
<1> QED
  BY <1>0, <1>3, <1>4, <1>5, <1>6, <1>7

(* Every turn that uses tools has its results; or the last one, u, has r so far.  *)
Answered(w) == /\ Results(w) = {i + 1 : i \in Uses(w)}
               /\ \A i \in Uses(w) : Len(w[i + 1].blocks) = Len(w[i].blocks)
Waiting(w, u, r) ==
  /\ u \in Uses(w)
  /\ Results(w) \ {u + 1} = {i + 1 : i \in Uses(w) \ {u}}
  /\ \A i \in Uses(w) \ {u} : Len(w[i + 1].blocks) = Len(w[i].blocks)
  /\ IF r = 0 THEN Len(w) = u
     ELSE Len(w) = u + 1 /\ u + 1 \in Results(w) /\ Len(w[u + 1].blocks) = r

LEMMA Appended ==
  ASSUME NEW w \in Seq(OnWire), NEW x \in OnWire
  PROVE  /\ Len(Append(w, x)) = Len(w) + 1
         /\ \A i \in 1..Len(w) : Append(w, x)[i] = w[i]
         /\ Append(w, x)[Len(w) + 1] = x
         /\ Uses(Append(w, x)) = IF x.blocks[1] = "use" THEN Uses(w) \cup {Len(w) + 1} ELSE Uses(w)
         /\ Results(Append(w, x)) = IF x.blocks[1] = "result" THEN Results(w) \cup {Len(w) + 1} ELSE Results(w)
<1>1. /\ Len(w) \in Nat /\ Len(Append(w, x)) = Len(w) + 1
      /\ \A i \in 1..Len(w) : Append(w, x)[i] = w[i]
      /\ Append(w, x)[Len(w) + 1] = x
  OBVIOUS
<1>2. PICK v : v = Append(w, x)
  OBVIOUS
<1>3. PICK n \in Nat : n = Len(w)
  BY <1>1
<1>4. 1..(n + 1) = (1..n) \cup {n + 1}
  OBVIOUS
<1>5. /\ Len(v) = n + 1 /\ \A i \in 1..n : v[i] = w[i]
      /\ v[n + 1] = x
  BY <1>1, <1>2, <1>3
<1>6. Uses(v) = IF x.blocks[1] = "use" THEN Uses(w) \cup {n + 1} ELSE Uses(w)
  BY <1>3, <1>4, <1>5 DEF Uses
<1>7. Results(v) = IF x.blocks[1] = "result" THEN Results(w) \cup {n + 1} ELSE Results(w)
  BY <1>3, <1>4, <1>5 DEF Results
<1> QED
  BY <1>1, <1>2, <1>3, <1>6, <1>7

LEMMA Grown ==
  ASSUME NEW w \in Seq(OnWire), EndsInResults(w)
  PROVE  LET v == Grow(w) IN
         /\ Len(w) \in 1..Len(w) /\ Len(v) = Len(w) /\ \A i \in 1..(Len(w) - 1) : v[i] = w[i]
         /\ Len(v[Len(w)].blocks) = Len(w[Len(w)].blocks) + 1
         /\ Uses(v) = Uses(w) /\ Results(v) = Results(w)
         /\ Len(w) \in Results(w)
<1> DEFINE n == Len(w)
           b == Append(w[n].blocks, "result")
<1>1. n \in Nat \ {0} /\ w[n] \in OnWire /\ w[n].blocks[1] = "result"
  BY DEF EndsInResults, Last
<1>2. Len(b) = Len(w[n].blocks) + 1 /\ b[1] = w[n].blocks[1]
  BY <1>1 DEF OnWire, Blocks
<1> HIDE DEF b
<1>a. PICK v : v = Grow(w)
  OBVIOUS
<1>3. Len(v) = n /\ (\A i \in 1..n : v[i] = IF i = n THEN WireTurn(w[n].role, b) ELSE w[i])
  BY <1>1, <1>a DEF b, Grow
<1>4. v[n].blocks = b
  BY <1>1, <1>3 DEF WireTurn
<1>5. \A i \in 1..n : v[i].blocks[1] = w[i].blocks[1]
  BY <1>1, <1>2, <1>3, <1>4
<1>6. Uses(v) = Uses(w) /\ Results(v) = Results(w)
  BY <1>3, <1>5 DEF Uses, Results
<1> QED
  BY <1>1, <1>2, <1>3, <1>4, <1>6, <1>a DEF Results

LEMMA CallOnto ==
  ASSUME NEW w \in Seq(OnWire), Answered(w), NEW m \in Good, m.role = "call"
  PROVE  LET v == OntoWire(w, m)
         IN /\ Waiting(v, Len(w) + 1, 0) /\ Len(v[Len(w) + 1].blocks) = m.calls
            /\ Uses(v) = Uses(w) \cup {Len(w) + 1} /\ Len(w) + 1 \notin Uses(w)
<1> DEFINE x == WireTurn("assistant", [i \in 1..m.calls |-> "use"])
           n == Len(w)
<1>1. PICK v \in Seq(OnWire) : v = OntoWire(w, m)
  BY Onto
<1>2. v = Append(w, x)
  BY <1>1, Onto
<1>3. x \in OnWire /\ x.blocks[1] = "use" /\ Len(x.blocks) = m.calls
  <2> DEFINE b == [i \in 1..m.calls |-> "use"]
  <2>1. m.calls \in Nat /\ m.calls >= 1
    BY DEF Good, PromptMessages
  <2>2. b \in Seq({"text", "use", "result"}) /\ Len(b) = m.calls /\ b[1] = "use"
    BY <2>1
  <2> HIDE DEF b
  <2>3. b \in Blocks
    BY <2>1, <2>2 DEF Blocks
  <2>4. WireTurn("assistant", b) \in OnWire /\ WireTurn("assistant", b).blocks = b
    BY <2>3 DEF OnWire, WireTurn
  <2> QED
    BY <2>2, <2>4 DEF b
<1> HIDE DEF x
<1>4. /\ Len(v) = n + 1 /\ \A i \in 1..n : v[i] = w[i]
      /\ v[n + 1] = x
      /\ Uses(v) = Uses(w) \cup {n + 1} /\ Results(v) = Results(w)
  BY <1>2, <1>3, Appended
<1>5. n \in Nat /\ n + 1 \notin Uses(w) /\ n + 2 \notin Results(w)
  BY DEF Uses, Results
<1>6. \A i \in Uses(w) : i \in 1..n /\ i + 1 \in 1..n
  <2>1. \A i \in Uses(w) : i + 1 \in Results(w)
    BY DEF Answered
  <2> QED
    BY <2>1 DEF Uses, Results
<1>7. Waiting(v, n + 1, 0)
  <2>1. Uses(v) \ {n + 1} = Uses(w) /\ Results(v) \ {(n + 1) + 1} = Results(w)
    BY <1>4, <1>5
  <2> QED
    BY <1>4, <1>5, <1>6, <2>1 DEF Waiting, Answered
<1> QED
  BY <1>1, <1>3, <1>4, <1>5, <1>7

LEMMA ToolOnto ==
  ASSUME NEW w \in Seq(OnWire), NEW u, NEW r \in Nat, Waiting(w, u, r), NEW m \in Good, m.role = "tool"
  PROVE  LET v == OntoWire(w, m)
         IN Waiting(v, u, r + 1) /\ v[u] = w[u] /\ Uses(v) = Uses(w)
<1>1. PICK v \in Seq(OnWire) : v = OntoWire(w, m)
  BY Onto
<1>2. u \in 1..Len(w) /\ w[u].blocks[1] = "use" /\ Len(w) \in Nat
  BY DEF Waiting, Uses
<1>3. CASE r = 0
  <2>1. Len(w) = u /\ ~ EndsInResults(w)
    BY <1>2, <1>3 DEF Waiting, EndsInResults, Last
  <2> DEFINE x == WireTurn("user", <<"result">>)
  <2>2. v = Append(w, x)
    BY <1>1, <2>1, Onto
  <2>3. x \in OnWire /\ x.blocks[1] = "result" /\ Len(x.blocks) = 1
    BY DEF OnWire, WireTurn, Blocks
  <2> HIDE DEF x
  <2>4. /\ Len(v) = u + 1 /\ \A i \in 1..u : v[i] = w[i]
        /\ v[u + 1] = x
        /\ Uses(v) = Uses(w) /\ Results(v) = Results(w) \cup {u + 1}
    BY <2>1, <2>2, <2>3, Appended
  <2>5. \A i \in Uses(w) \ {u} : i \in 1..u /\ i + 1 \in 1..u
    BY <2>1 DEF Uses
  <2>6. Results(v) \ {u + 1} = Results(w) \ {u + 1}
    BY <2>4
  <2>7. Waiting(v, u, r + 1)
    BY <1>2, <1>3, <2>3, <2>4, <2>5, <2>6 DEF Waiting
  <2> QED
    BY <1>1, <1>2, <2>4, <2>7
<1>4. CASE r # 0
  <2>1. Len(w) = u + 1 /\ u + 1 \in Results(w) /\ Len(w[u + 1].blocks) = r
    BY <1>4 DEF Waiting
  <2>2. EndsInResults(w)
    BY <1>2, <2>1 DEF EndsInResults, Last, Results
  <2>3. v = Grow(w)
    BY <1>1, <2>2, Onto
  <2>4. /\ Len(v) = u + 1 /\ \A i \in 1..u : v[i] = w[i]
        /\ Len(v[u + 1].blocks) = r + 1
        /\ Uses(v) = Uses(w) /\ Results(v) = Results(w)
    <3>1. /\ Len(v) = Len(w) /\ \A i \in 1..(Len(w) - 1) : v[i] = w[i]
          /\ Len(v[Len(w)].blocks) = Len(w[Len(w)].blocks) + 1
          /\ Uses(v) = Uses(w) /\ Results(v) = Results(w)
      BY <2>2, <2>3, Grown
    <3>2. u \in Nat /\ Len(w) - 1 = u
      BY <1>2, <2>1
    <3> QED
      BY <2>1, <3>1, <3>2
  <2>5. \A i \in Uses(w) \ {u} : i \in 1..u /\ i + 1 \in 1..u
    <3>1. \A i \in Uses(w) : i \in 1..(u + 1) /\ i # u + 1
      BY <2>1 DEF Uses, Results
    <3>2. u \in Nat
      BY <1>2
    <3>3. \A i \in 1..(u + 1) : i # u + 1 /\ i # u => i \in 1..u /\ i + 1 \in 1..u
      BY <3>2
    <3> QED
      BY <3>1, <3>3, Zenon
  <2>6. Waiting(v, u, r + 1)
    <3>1. u \in Uses(v) /\ Results(v) \ {u + 1} = {i + 1 : i \in Uses(v) \ {u}}
      BY <2>4 DEF Waiting
    <3>2. ASSUME NEW i \in Uses(v) \ {u} PROVE Len(v[i + 1].blocks) = Len(v[i].blocks)
      <4>1. i \in Uses(w) \ {u} /\ v[i] = w[i] /\ v[i + 1] = w[i + 1]
        BY <2>4, <2>5, <3>2
      <4> QED
        BY <4>1 DEF Waiting
    <3>3. r + 1 # 0 /\ u + 1 \in Results(v)
      BY <2>1, <2>4
    <3> QED
      BY <2>4, <3>1, <3>2, <3>3 DEF Waiting
  <2> QED
    BY <1>1, <1>2, <2>4, <2>6
<1> QED
  BY <1>3, <1>4

LEMMA LastResult ==
  ASSUME NEW w, NEW u, NEW r \in Nat \ {0}, Waiting(w, u, r), Len(w[u].blocks) = r
  PROVE  Answered(w)
<1>1. u + 1 \in Results(w) /\ Len(w[u + 1].blocks) = r /\ u \in Uses(w)
  BY DEF Waiting
<1>2. Results(w) = {i + 1 : i \in Uses(w)}
  <2>1. Results(w) = (Results(w) \ {u + 1}) \cup {u + 1}
    BY <1>1
  <2>2. {i + 1 : i \in Uses(w)} = {i + 1 : i \in Uses(w) \ {u}} \cup {u + 1}
    <3>1. \A y : (\E i \in Uses(w) : y = i + 1) <=> (\E i \in Uses(w) \ {u} : y = i + 1) \/ y = u + 1
      BY <1>1, Zenon
    <3> QED
      BY <3>1
  <2> QED
    BY <2>1, <2>2 DEF Waiting
<1> QED
  BY <1>1, <1>2 DEF Waiting, Answered

(* What the prompts of a turn are made of: the system message, the thread from a *)
(* question on, and the rounds of tools.                                         *)
Said(m) == m.role \in {"user", "assistant"}
WellBuilt(p) ==
  /\ p \in Seq(Good) /\ Len(p) >= 2
  /\ p[1].role = "system" /\ p[2].role = "user"
  /\ \A i \in 2..Len(p) : p[i].role # "system"
  /\ \A i, j \in 2..Len(p) : i < j /\ Said(p[j]) => Said(p[i])

LEMMA WireTyped ==
  ASSUME NEW p \in Seq(Good)
  PROVE  \A n \in 0..Len(p) : Wire(SubSeq(p, 1, n)) \in Seq(OnWire)
<1> DEFINE S == {n \in 0..Len(p) : Wire(SubSeq(p, 1, n)) \notin Seq(OnWire)}
<1>1. SUFFICES ASSUME S # {} PROVE FALSE
  OBVIOUS
<1>a. S \subseteq Nat
  OBVIOUS
<1> HIDE DEF S
<1>2. PICK n \in S : \A m \in S : n <= m
  BY <1>1, <1>a, LeastOf
<1> USE DEF S
<1>3. n # 0
  <2>1. SubSeq(p, 1, 0) = <<>> /\ <<>> \in Seq(OnWire)
    OBVIOUS
  <2> QED
    BY <1>2, <2>1, WireEmpty
<1>4. n - 1 \in 0..(Len(p) - 1) /\ n - 1 \notin S /\ (n - 1) + 1 = n
  BY <1>2, <1>3
<1>5. Wire(SubSeq(p, 1, n)) = OntoWire(Wire(SubSeq(p, 1, n - 1)), p[n])
  BY <1>4, WireSuffix
<1>6. Wire(SubSeq(p, 1, n - 1)) \in Seq(OnWire) /\ p[n] \in Good
  BY <1>2, <1>4
<1>7. Wire(SubSeq(p, 1, n)) \in Seq(OnWire)
  BY <1>5, <1>6, Onto
<1> QED
  BY <1>2, <1>7

LEMMA WireOf ==
  ASSUME NEW p \in Seq(Good)
  PROVE  Wire(p) \in Seq(OnWire)
<1>1. SubSeq(p, 1, Len(p)) = p /\ Len(p) \in 0..Len(p)
  OBVIOUS
<1> QED
  BY <1>1, WireTyped

\* What was only said is one text after the other.
LEMMA WireOfTexts ==
  ASSUME NEW p \in Seq(Good), NEW k \in 0..Len(p), \A i \in 1..k : p[i].role = "system" \/ Said(p[i])
  PROVE  \A n \in 0..k : \A i \in 1..Len(Wire(SubSeq(p, 1, n))) : Wire(SubSeq(p, 1, n))[i].blocks = <<"text">>
<1> DEFINE Texts(w) == \A i \in 1..Len(w) : w[i].blocks = <<"text">>
           S == {n \in 0..k : ~ Texts(Wire(SubSeq(p, 1, n)))}
<1>1. SUFFICES ASSUME S # {} PROVE FALSE
  OBVIOUS
<1>a. S \subseteq Nat
  OBVIOUS
<1> HIDE DEF S
<1>2. PICK n \in S : \A m \in S : n <= m
  BY <1>1, <1>a, LeastOf
<1> USE DEF S
<1>3. n # 0
  <2>1. SubSeq(p, 1, 0) = <<>>
    OBVIOUS
  <2>2. Texts(<<>>)
    OBVIOUS
  <2> QED
    BY <1>2, <2>1, <2>2, WireEmpty
<1>4. n - 1 \in 0..(Len(p) - 1) /\ n - 1 \in 0..k /\ n - 1 \notin S /\ (n - 1) + 1 = n /\ n \in 1..k
  BY <1>2, <1>3
<1>5. PICK w \in Seq(OnWire) : w = Wire(SubSeq(p, 1, n - 1))
  BY <1>4, WireTyped
<1>6. Wire(SubSeq(p, 1, n)) = OntoWire(w, p[n])
  BY <1>4, <1>5, WireSuffix
<1>7. Texts(w) /\ p[n] \in Good
  BY <1>4, <1>5
<1>8. Texts(OntoWire(w, p[n]))
  <2>1. CASE p[n].role = "system"
    BY <1>7, <2>1, Onto
  <2>2. CASE Said(p[n])
    <3> DEFINE x == WireTurn(p[n].role, <<"text">>)
    <3>1. OntoWire(w, p[n]) = Append(w, x)
      BY <1>7, <2>2, Onto DEF Said
    <3>2. x \in OnWire /\ x.blocks = <<"text">>
      BY <2>2 DEF OnWire, WireTurn, Blocks, Said
    <3> HIDE DEF x
    <3>3. PICK v : v = Append(w, x)
      OBVIOUS
    <3>4. Len(v) = Len(w) + 1 /\ (\A i \in 1..Len(w) : v[i] = w[i]) /\ v[Len(w) + 1] = x
      BY <3>2, <3>3, Appended
    <3>5. \A i \in 1..Len(v) : i \in 1..Len(w) \/ i = Len(w) + 1
      BY <3>4
    <3>6. Texts(v)
      BY <1>7, <3>2, <3>4, <3>5
    <3> QED
      BY <3>1, <3>3, <3>6
  <2> QED
    BY <1>4, <2>1, <2>2
<1> HIDE DEF Texts
<1> QED
  BY <1>2, <1>6, <1>8

\* The request starts with the question the prompt starts with.
LEMMA WireStarts ==
  ASSUME NEW p, WellBuilt(p)
  PROVE  Wire(p) # <<>> /\ Wire(p)[1].role = "user"
<1> DEFINE Starts(w) == Len(w) >= 1 /\ w[1] = WireTurn("user", <<"text">>)
           S == {n \in 2..Len(p) : ~ Starts(Wire(SubSeq(p, 1, n)))}
<1>0. p \in Seq(Good) /\ Len(p) \in Nat /\ Len(p) >= 2 /\ p[1] \in Good /\ p[2] \in Good
  BY DEF WellBuilt
<1>1. Starts(Wire(SubSeq(p, 1, 2)))
  <2>1. Wire(SubSeq(p, 1, 0)) = <<>>
    <3>1. SubSeq(p, 1, 0) = <<>>
      BY <1>0
    <3> QED
      BY <3>1, WireEmpty
  <2>2. Wire(SubSeq(p, 1, 1)) = <<>>
    <3>1. 0 \in 0..(Len(p) - 1) /\ <<>> \in Seq(OnWire)
      BY <1>0
    <3>2. Wire(SubSeq(p, 1, 0 + 1)) = OntoWire(<<>>, p[0 + 1])
      BY <1>0, <2>1, <3>1, WireSuffix
    <3>3. OntoWire(<<>>, p[1]) = <<>>
      BY <1>0, <3>1, Onto DEF WellBuilt
    <3> QED
      BY <3>2, <3>3
  <2>3. Wire(SubSeq(p, 1, 2)) = Append(<<>>, WireTurn("user", <<"text">>))
    <3>1. 1 \in 0..(Len(p) - 1) /\ <<>> \in Seq(OnWire)
      BY <1>0
    <3>2. Wire(SubSeq(p, 1, 1 + 1)) = OntoWire(<<>>, p[1 + 1])
      BY <1>0, <2>2, <3>1, WireSuffix
    <3>3. OntoWire(<<>>, p[2]) = Append(<<>>, WireTurn("user", <<"text">>))
      BY <1>0, <3>1, Onto DEF WellBuilt
    <3> QED
      BY <3>2, <3>3
  <2> QED
    BY <2>3
<1>2. SUFFICES ASSUME S # {} PROVE FALSE
  <2>1. SubSeq(p, 1, Len(p)) = p /\ Len(p) \in 2..Len(p)
    BY <1>0
  <2>2. Starts(Wire(p)) => Wire(p) # <<>> /\ Wire(p)[1].role = "user"
    BY DEF WireTurn
  <2> HIDE DEF Starts
  <2> QED
    BY <2>1, <2>2
<1>a. S \subseteq Nat
  BY <1>0
<1> HIDE DEF S
<1>3. PICK n \in S : \A m \in S : n <= m
  BY <1>0, <1>2, <1>a, LeastOf
<1> USE DEF S
<1>4. n # 2
  BY <1>1, <1>3
<1>5. n - 1 \in 0..(Len(p) - 1) /\ n - 1 \in 2..Len(p) /\ n - 1 \notin S /\ (n - 1) + 1 = n /\ n \in 2..Len(p)
  BY <1>0, <1>3, <1>4
<1>6. n - 1 \in 0..Len(p)
  BY <1>0, <1>5
<1>7. PICK w \in Seq(OnWire) : w = Wire(SubSeq(p, 1, n - 1))
  BY <1>0, <1>6, WireTyped
<1>8. Wire(SubSeq(p, 1, n)) = OntoWire(w, p[n])
  BY <1>0, <1>5, <1>7, WireSuffix
<1>9. Starts(w)
  BY <1>5, <1>7
<1>10. PICK m \in Good : m = p[n] /\ m.role # "system"
  BY <1>0, <1>5 DEF WellBuilt
<1>11. Starts(OntoWire(w, m))
  <2>1. CASE m.role = "tool" /\ EndsInResults(w)
    <3>1. PICK v : v = OntoWire(w, m)
      OBVIOUS
    <3>2. v = Grow(w)
      BY <2>1, <3>1, Onto
    <3>3. Len(v) = Len(w) /\ Len(w) \in Results(w) /\ \A i \in 1..(Len(w) - 1) : v[i] = w[i]
      BY <2>1, <3>2, Grown
    <3>4. Len(w) # 1
      BY <1>9, <3>3 DEF Results, WireTurn
    <3> QED
      BY <1>9, <3>1, <3>3, <3>4
  <2>2. ASSUME NEW x, OntoWire(w, m) = Append(w, x)
        PROVE  Starts(OntoWire(w, m))
    BY <1>9, <2>2
  <2>3. \/ m.role = "tool" /\ EndsInResults(w)
        \/ \E x : OntoWire(w, m) = Append(w, x)
    <3>1. m.role \in {"user", "assistant", "call", "tool"}
      BY <1>10 DEF Good, PromptMessages
    <3> QED
      BY <3>1, Onto
  <2> HIDE DEF Starts
  <2> QED
    BY <2>1, <2>2, <2>3
<1> HIDE DEF Starts
<1> QED
  BY <1>3, <1>8, <1>10, <1>11

(* What trimming leaves: there is a question further on, so there is a first message *)
(* that is not the assistant's                                                       *)
LEMMA Trimmed ==
  ASSUME NEW M, NEW p \in Seq(M), CanTrim(p)
  PROVE  \E f \in 3..Len(p) : /\ TrimOldest(p) = <<p[1]>> \o SubSeq(p, f, Len(p))
                              /\ ~ Assistant(p[f])
                              /\ \E i \in f..Len(p) : p[i].role = "user"
<1> DEFINE users == {i \in 2..Len(p) : p[i].role = "user"}
           others == {i \in 3..Len(p) : ~ Assistant(p[i])}
<1>1. Len(p) \in Nat
  OBVIOUS
<1>2. \E i \in users : i > 2
  <2>1. users # {} /\ LastQuestion(p) = CHOOSE i \in users : \A j \in users : j <= i
    <3>1. LastQuestion(p) = IF users = {} THEN 1 ELSE CHOOSE i \in users : \A j \in users : j <= i
      BY Zenon DEF LastQuestion
    <3>2. LastQuestion(p) > 2
      BY DEF CanTrim
    <3>3. users = {} => LastQuestion(p) = 1
      BY <3>1, Zenon
    <3>4. users # {} => LastQuestion(p) = CHOOSE i \in users : \A j \in users : j <= i
      BY <3>1, Zenon
    <3>5. users # {}
      BY <3>2, <3>3
    <3> QED
      BY <3>4, <3>5, Zenon
  <2>2. \E i \in users : \A j \in users : j <= i
    <3> DEFINE gaps == {Len(p) - i : i \in users}
    <3>1. gaps \subseteq Nat /\ gaps # {}
      <4>1. \A i \in users : Len(p) - i \in Nat
        BY <1>1
      <4>2. users # {}
        BY <2>1
      <4> QED
        BY <4>1, <4>2
    <3>2. PICK n \in gaps : \A m \in gaps : n <= m
      BY <3>1, LeastOf
    <3>3. PICK i \in users : n = Len(p) - i
      BY <3>2
    <3>4. \A j \in users : Len(p) - j \in gaps /\ Len(p) - i <= Len(p) - j
      BY <3>2, <3>3
    <3>5. \A j \in users : j <= i
      BY <1>1, <3>3, <3>4
    <3> QED
      BY <3>3, <3>5
  <2>3. LastQuestion(p) \in users
    BY <2>1, <2>2
  <2> QED
    BY <2>3 DEF CanTrim
<1>3. others # {} /\ others \subseteq Nat
  BY <1>1, <1>2 DEF Assistant
<1>4. PICK first \in others : \A j \in others : first <= j
  BY <1>3, LeastOf
<1> DEFINE Leads(i) == /\ ~ Assistant(p[i])
                       /\ \A j \in 3..(i - 1) : Assistant(p[j])
<1>5. first \in 3..Len(p) /\ Leads(first)
  BY <1>1, <1>4
<1>6. PICK f : f = CHOOSE i \in 3..Len(p) : Leads(i)
  OBVIOUS
<1>7. f \in 3..Len(p) /\ Leads(f)
  BY <1>5, <1>6
<1>8. TrimOldest(p) = <<p[1]>> \o SubSeq(p, f, Len(p))
  BY <1>6 DEF TrimOldest
<1>9. \E i \in f..Len(p) : p[i].role = "user"
  <2>1. PICK i \in users : i > 2
    BY <1>2
  <2>2. ~ (i < f)
    BY <1>1, <1>7, <2>1 DEF Assistant
  <2> QED
    BY <1>1, <1>7, <2>1, <2>2
<1> QED
  BY <1>7, <1>8, <1>9

LEMMA TrimmedPrompt ==
  ASSUME NEW p \in Seq(PromptMessages), CanTrim(p)
  PROVE  TrimOldest(p) \in Seq(PromptMessages)
<1>1. PICK f \in 3..Len(p) : TrimOldest(p) = <<p[1]>> \o SubSeq(p, f, Len(p))
  BY Trimmed
<1>2. <<p[1]>> \in Seq(PromptMessages) /\ SubSeq(p, f, Len(p)) \in Seq(PromptMessages)
  OBVIOUS
<1> QED
  BY <1>1, <1>2

(* What was said may go from the front: the rest becomes on the wire what it was.  *)
LEMMA OntoLater ==
  ASSUME NEW T \in Seq(OnWire), \A i \in 1..Len(T) : T[i].blocks = <<"text">>,
         NEW w \in Seq(OnWire), NEW m \in Good
  PROVE  OntoWire(T \o w, m) = T \o OntoWire(w, m)
<1>1. PICK v \in Seq(OnWire) : v = T \o w
  BY Joined
<1>2. /\ Len(v) = Len(T) + Len(w)
      /\ \A i \in 1..Len(T) : v[i] = T[i]
      /\ \A i \in 1..Len(w) : v[Len(T) + i] = w[i]
  BY <1>1, Joined
<1>3. EndsInResults(v) <=> EndsInResults(w)
  <2>1. CASE Len(w) = 0
    <3>1. ~ EndsInResults(w)
      BY <2>1 DEF EndsInResults
    <3>2. EndsInResults(v) => Len(T) \in 1..Len(T) /\ v[Len(T)] = T[Len(T)]
      BY <1>2, <2>1 DEF EndsInResults
    <3>3. ~ EndsInResults(v)
      BY <1>2, <2>1, <3>2 DEF EndsInResults, Last
    <3> QED
      BY <3>1, <3>3
  <2>2. CASE Len(w) # 0
    <3>1. Len(w) \in 1..Len(w) /\ v # <<>> /\ w # <<>>
      BY <1>2, <2>2
    <3> QED
      BY <1>2, <3>1 DEF EndsInResults, Last
  <2> QED
    BY <2>1, <2>2
<1>4. \A x \in OnWire : Append(v, x) = T \o Append(w, x)
  BY <1>1, JoinedAppend
<1>5. EndsInResults(w) => Grow(v) = T \o Grow(w)
  <2> SUFFICES ASSUME EndsInResults(w) PROVE Grow(v) = T \o Grow(w)
    OBVIOUS
  <2>1. Len(w) # 0 /\ w[Len(w)] \in OnWire /\ v[Len(v)] = w[Len(w)]
    BY <1>2 DEF EndsInResults
  <2>2. PICK b : b = Append(w[Len(w)].blocks, "result")
    OBVIOUS
  <2>3. WireTurn(w[Len(w)].role, b) \in OnWire
    <3>1. b \in Seq({"text", "use", "result"}) /\ Len(b) >= 1
      BY <2>1, <2>2 DEF OnWire, Blocks
    <3>2. b \in Blocks
      BY <3>1 DEF Blocks
    <3> QED
      BY <2>1, <3>2 DEF OnWire, WireTurn
  <2>4. PICK x \in OnWire : x = WireTurn(w[Len(w)].role, b)
    BY <2>3
  <2>5. Grow(v) = [v EXCEPT ![Len(v)] = x] /\ Grow(w) = [w EXCEPT ![Len(w)] = x]
    BY <2>1, <2>2, <2>4 DEF Grow
  <2>6. [T \o w EXCEPT ![Len(T \o w)] = x] = T \o [w EXCEPT ![Len(w)] = x]
    BY <2>1, JoinedLast
  <2> QED
    BY <1>1, <2>5, <2>6
<1>7. CASE m.role = "system"
  BY <1>1, <1>7, Onto
<1>8. CASE m.role = "tool"
  <2>1. WireTurn("user", <<"result">>) \in OnWire
    BY DEF OnWire, WireTurn, Blocks
  <2>2. CASE EndsInResults(w)
    BY <1>1, <1>3, <1>5, <1>8, <2>2, Onto
  <2>3. CASE ~ EndsInResults(w)
    BY <1>1, <1>3, <1>4, <1>8, <2>1, <2>3, Onto
  <2> QED
    BY <2>2, <2>3
<1>9. CASE m.role \in {"user", "assistant"}
  <2>1. WireTurn(m.role, <<"text">>) \in OnWire
    BY <1>9 DEF OnWire, WireTurn, Blocks
  <2> QED
    BY <1>1, <1>4, <1>9, <2>1, Onto
<1>10. CASE m.role = "call"
  <2> DEFINE b == [i \in 1..m.calls |-> "use"]
  <2>1. m.calls \in Nat /\ m.calls >= 1
    BY <1>10 DEF Good, PromptMessages
  <2>2. b \in Seq({"text", "use", "result"}) /\ Len(b) = m.calls
    BY <2>1
  <2>a. OntoWire(v, m) = Append(v, WireTurn("assistant", b)) /\ OntoWire(w, m) = Append(w, WireTurn("assistant", b))
    BY <1>10, Onto
  <2> HIDE DEF b
  <2>3. b \in Blocks
    BY <2>1, <2>2 DEF Blocks
  <2>4. WireTurn("assistant", b) \in OnWire
    BY <2>3 DEF OnWire, WireTurn
  <2> QED
    BY <1>1, <1>4, <2>a, <2>4
<1> QED
  BY <1>7, <1>8, <1>9, <1>10 DEF Good, PromptMessages

LEMMA AnsweredLater ==
  ASSUME NEW T \in Seq(OnWire), \A i \in 1..Len(T) : T[i].blocks = <<"text">>,
         NEW w \in Seq(OnWire), Answered(T \o w)
  PROVE  Answered(w) /\ Cardinality(Uses(w)) = Cardinality(Uses(T \o w))
<1>1. PICK v \in Seq(OnWire) : v = T \o w
  BY Joined
<1>2. PICK d \in Nat, n \in Nat : d = Len(T) /\ n = Len(w)
  OBVIOUS
<1>3. /\ Len(v) = d + n
      /\ \A i \in 1..d : v[i].blocks[1] = "text"
      /\ \A i \in 1..n : v[d + i] = w[i]
  <2>1. /\ Len(v) = d + n
        /\ \A i \in 1..d : v[i] = T[i]
        /\ \A i \in 1..n : v[d + i] = w[i]
    BY <1>1, <1>2, Joined
  <2> QED
    BY <1>2, <2>1
<1>4. ASSUME NEW i \in 1..n
      PROVE  /\ i \in Uses(w) <=> d + i \in Uses(v)
             /\ i \in Results(w) <=> d + i \in Results(v)
  <2>1. v[d + i] = w[i] /\ d + i \in 1..(d + n)
    BY <1>3
  <2> QED
    BY <1>2, <1>3, <2>1 DEF Uses, Results
<1>5. \A j \in Uses(v) \cup Results(v) : j \in Int /\ j - d \in 1..n /\ d + (j - d) = j
  <2>1. \A j \in Uses(v) \cup Results(v) : j \in 1..(d + n) /\ j \notin 1..d
    BY <1>3 DEF Uses, Results
  <2> QED
    BY <2>1
<1>6. Uses(w) \subseteq 1..n /\ Results(w) \subseteq 1..n
  BY <1>2 DEF Uses, Results
<1>7. \A i \in Uses(w) : i + 1 \in Results(w) /\ Len(w[i + 1].blocks) = Len(w[i].blocks)
  <2> SUFFICES ASSUME NEW i \in Uses(w)
               PROVE  i + 1 \in Results(w) /\ Len(w[i + 1].blocks) = Len(w[i].blocks)
    OBVIOUS
  <2>1. i \in 1..n /\ d + i \in Uses(v) /\ d + (i + 1) = (d + i) + 1
    BY <1>4, <1>6
  <2>2. d + (i + 1) \in Results(v) /\ Len(v[d + (i + 1)].blocks) = Len(v[d + i].blocks)
    BY <1>1, <2>1 DEF Answered
  <2>3. (d + (i + 1)) - d = i + 1
    BY <2>1
  <2>4. i + 1 \in 1..n
    BY <1>5, <2>2, <2>3
  <2>5. v[d + (i + 1)] = w[i + 1] /\ v[d + i] = w[i]
    BY <1>3, <2>1, <2>4, Zenon
  <2> QED
    BY <1>4, <2>2, <2>4, <2>5
<1>8. \A i \in Results(w) : \E k \in Uses(w) : i = k + 1
  <2> SUFFICES ASSUME NEW i \in Results(w) PROVE \E k \in Uses(w) : i = k + 1
    OBVIOUS
  <2>1. i \in 1..n /\ d + i \in Results(v)
    BY <1>4, <1>6
  <2>2. PICK j \in Uses(v) : d + i = j + 1
    BY <1>1, <2>1 DEF Answered
  <2>3. PICK k \in 1..n : k = j - d /\ d + k = j
    BY <1>5
  <2>4. k \in Uses(w)
    BY <1>4, <2>3
  <2>5. i = k + 1
    BY <2>1, <2>2, <2>3
  <2> QED
    BY <2>4, <2>5
<1>9. Answered(w)
  BY <1>7, <1>8 DEF Answered
<1>10. Cardinality(Uses(w)) = Cardinality(Uses(v))
  <2>1. IsFiniteSet(Uses(w))
    <3>1. 1 \in Int /\ n \in Int
      OBVIOUS
    <3>2. IsFiniteSet(1..n)
      BY <3>1, FS_Interval, Zenon
    <3> QED
      BY <1>6, <3>2, FS_Subset
  <2>2. Uses(w) \in SUBSET Int /\ Uses(v) \in SUBSET Int /\ d \in Int
    BY <1>5, <1>6
  <2>3. \A i \in Uses(w) : d + i \in Uses(v)
    BY <1>4, <1>6
  <2>4. ASSUME NEW j \in Uses(v) PROVE j - d \in Uses(w)
    <3>1. PICK k \in 1..n : k = j - d /\ d + k = j
      BY <1>5
    <3> QED
      BY <1>4, <3>1
  <2> QED
    BY <2>1, <2>2, <2>3, <2>4, MovedAlong
<1> QED
  BY <1>1, <1>9, <1>10

LEMMA TrimKeepsRounds ==
  ASSUME NEW p, WellBuilt(p), CanTrim(p), Answered(Wire(p))
  PROVE  /\ WellBuilt(TrimOldest(p)) /\ Answered(Wire(TrimOldest(p)))
         /\ Cardinality(Uses(Wire(TrimOldest(p)))) = Cardinality(Uses(Wire(p)))
<1>1. p \in Seq(Good) /\ Len(p) \in Nat /\ Len(p) >= 2 /\ p[1] \in Good /\ p[1].role = "system"
  BY DEF WellBuilt
<1>2. PICK f \in 3..Len(p) : /\ TrimOldest(p) = <<p[1]>> \o SubSeq(p, f, Len(p))
                            /\ ~ Assistant(p[f])
                            /\ \E i \in f..Len(p) : p[i].role = "user"
  BY <1>1, Trimmed
<1>3. PICK i \in f..Len(p) : p[i].role = "user"
  BY <1>2
<1>4. Said(p[f])
  <2>1. CASE i = f
    BY <1>3, <2>1 DEF Said
  <2>2. CASE i # f
    <3>1. f \in 2..Len(p) /\ i \in 2..Len(p) /\ f < i
      BY <1>1, <2>2
    <3> QED
      BY <1>3, <3>1 DEF WellBuilt, Said
  <2> QED
    BY <2>1, <2>2
<1>5. p[f].role = "user"
  BY <1>2, <1>4 DEF Said, Assistant
<1>6. PICK d \in Nat, n \in Nat : f = d + 2 /\ Len(p) = d + n /\ n >= 2 /\ d >= 1
  <2>1. f - 2 \in Nat /\ Len(p) - (f - 2) \in Nat /\ f = (f - 2) + 2 /\ Len(p) = (f - 2) + (Len(p) - (f - 2))
        /\ Len(p) - (f - 2) >= 2 /\ f - 2 >= 1
    BY <1>1
  <2> QED
    BY <2>1
<1>7. PICK q : q = TrimOldest(p)
  OBVIOUS
<1>8. /\ q \in Seq(Good) /\ Len(q) = n /\ q[1] = p[1]
      /\ \A j \in 2..n : q[j] = p[d + j]
  <2>1. PICK r \in Seq(Good) : r = SubSeq(p, d + 2, Len(p)) /\ Len(r) = n - 1
                               /\ \A j \in 1..(n - 1) : r[j] = p[d + (j + 1)]
    <3>1. SubSeq(p, d + 2, Len(p)) \in Seq(Good)
      BY <1>1, <1>6
    <3>2. Len(SubSeq(p, d + 2, Len(p))) = n - 1
      BY <1>1, <1>6
    <3>3. \A j \in 1..(n - 1) : SubSeq(p, d + 2, Len(p))[j] = p[d + (j + 1)]
      BY <1>1, <1>6
    <3> QED
      BY <3>1, <3>2, <3>3
  <2>2. PICK s \in Seq(Good) : s = <<p[1]>> /\ Len(s) = 1 /\ s[1] = p[1]
    <3>1. \A x \in Good : <<x>> \in Seq(Good) /\ Len(<<x>>) = 1 /\ <<x>>[1] = x
      OBVIOUS
    <3> QED
      BY <1>1, <3>1, Zenon
  <2>3. q = s \o r
    BY <1>2, <1>6, <1>7, <2>1, <2>2
  <2>4. /\ q \in Seq(Good) /\ Len(q) = 1 + (n - 1)
        /\ \A j \in 1..1 : q[j] = s[j]
        /\ \A j \in 1..(n - 1) : q[1 + j] = r[j]
    BY <2>1, <2>2, <2>3, Joined
  <2>5. \A j \in 2..n : j - 1 \in 1..(n - 1) /\ 1 + (j - 1) = j /\ (j - 1) + 1 = j
    BY <1>6
  <2>6. \A j \in 2..n : q[j] = p[d + j]
    <3> SUFFICES ASSUME NEW j \in 2..n PROVE q[j] = p[d + j]
      OBVIOUS
    <3>1. q[1 + (j - 1)] = r[j - 1] /\ r[j - 1] = p[d + ((j - 1) + 1)]
      BY <2>1, <2>4, <2>5
    <3> QED
      BY <2>5, <3>1
  <2> QED
    BY <1>6, <2>2, <2>4, <2>6
<1>9. WellBuilt(q)
  <2>1. q[2] = p[f]
    BY <1>6, <1>8
  <2>2. ASSUME NEW j \in 2..n PROVE d + j \in 2..Len(p) /\ q[j] = p[d + j]
    BY <1>6, <1>8
  <2>3. \A j \in 2..n : q[j].role # "system"
    BY <2>2 DEF WellBuilt
  <2>4. ASSUME NEW j \in 2..n, NEW k \in 2..n, j < k, Said(q[k]) PROVE Said(q[j])
    <3>1. d + j \in 2..Len(p) /\ d + k \in 2..Len(p) /\ d + j < d + k
      BY <2>2, <2>4
    <3>2. Said(p[d + k])
      BY <2>2, <2>4
    <3>3. Said(p[d + j])
      BY <3>1, <3>2 DEF WellBuilt
    <3> QED
      BY <2>2, <3>3
  <2> QED
    BY <1>1, <1>5, <1>6, <1>8, <2>1, <2>3, <2>4 DEF WellBuilt
<1>10. \A j \in 1..(d + 1) : p[j].role = "system" \/ Said(p[j])
  <2>1. ASSUME NEW j \in 2..(d + 1) PROVE Said(p[j])
    <3>1. j \in 2..Len(p) /\ f \in 2..Len(p) /\ j < f
      BY <1>1, <1>6
    <3> QED
      BY <1>4, <3>1 DEF WellBuilt
  <2> QED
    BY <1>1, <2>1
<1>11. d + 1 \in 0..Len(p)
  BY <1>1, <1>6
<1>12. PICK T \in Seq(OnWire) : T = Wire(SubSeq(p, 1, d + 1))
  BY <1>1, <1>11, WireTyped
<1>13. \A j \in 1..Len(T) : T[j].blocks = <<"text">>
  BY <1>1, <1>10, <1>11, <1>12, WireOfTexts
<1>14. \A k \in 1..n : Wire(SubSeq(p, 1, d + k)) = T \o Wire(SubSeq(q, 1, k))
  <2> DEFINE S == {k \in 1..n : Wire(SubSeq(p, 1, d + k)) # T \o Wire(SubSeq(q, 1, k))}
  <2>1. SUFFICES ASSUME S # {} PROVE FALSE
    OBVIOUS
  <2>2. S \subseteq Nat
    OBVIOUS
  <2> HIDE DEF S
  <2>3. PICK k \in S : \A j \in S : k <= j
    BY <2>1, <2>2, LeastOf
  <2> USE DEF S
  <2>4. k # 1
    <3>1. Wire(SubSeq(q, 1, 0)) = <<>>
      <4>1. SubSeq(q, 1, 0) = <<>>
        BY <1>8
      <4> QED
        BY <4>1, WireEmpty
    <3>2. <<>> \in Seq(OnWire) /\ 0 \in 0..(Len(q) - 1)
      BY <1>6, <1>8
    <3>3. Wire(SubSeq(q, 1, 0 + 1)) = OntoWire(<<>>, q[0 + 1])
      BY <1>8, <3>1, <3>2, WireSuffix
    <3>4. OntoWire(<<>>, q[1]) = <<>>
      BY <1>1, <1>8, <3>2, Onto
    <3>5. T \o <<>> = T
      OBVIOUS
    <3> QED
      BY <1>12, <2>3, <3>3, <3>4, <3>5
  <2>5. PICK j \in 1..n : k = j + 1
    <3>1. k - 1 \in 1..n /\ k = (k - 1) + 1
      BY <2>3, <2>4
    <3> QED
      BY <3>1
  <2>6. j \notin S
    <3>1. ~ (k <= j)
      BY <2>5
    <3> HIDE DEF S
    <3> QED
      BY <2>3, <3>1, Zenon
  <2>7. Wire(SubSeq(p, 1, d + j)) = T \o Wire(SubSeq(q, 1, j))
    BY <2>6
  <2>8. /\ j \in 0..(Len(q) - 1) /\ d + j \in 0..(Len(p) - 1) /\ (d + j) + 1 = d + k /\ k \in 2..n
        /\ j \in 0..Len(q)
    BY <1>6, <1>8, <2>3, <2>5
  <2>9. Wire(SubSeq(p, 1, d + k)) = OntoWire(Wire(SubSeq(p, 1, d + j)), p[d + k])
    BY <1>1, <2>8, WireSuffix
  <2>10. Wire(SubSeq(q, 1, k)) = OntoWire(Wire(SubSeq(q, 1, j)), q[k])
    BY <1>8, <2>5, <2>8, WireSuffix
  <2>11. PICK w \in Seq(OnWire) : w = Wire(SubSeq(q, 1, j))
    BY <1>8, <2>8, WireTyped
  <2>12. q[k] = p[d + k] /\ q[k] \in Good
    BY <1>8, <2>8
  <2>13. OntoWire(T \o w, q[k]) = T \o OntoWire(w, q[k])
    BY <1>13, <2>12, OntoLater
  <2> QED
    BY <2>3, <2>7, <2>9, <2>10, <2>11, <2>12, <2>13
<1>15. Wire(p) = T \o Wire(q)
  <2>1. SubSeq(p, 1, Len(p)) = p /\ SubSeq(q, 1, Len(q)) = q
    BY <1>1, <1>8
  <2>2. n \in 1..n
    BY <1>6
  <2> QED
    BY <1>6, <1>8, <1>14, <2>1, <2>2
<1>16. PICK w \in Seq(OnWire) : w = Wire(q)
  BY <1>8, WireOf
<1> QED
  BY <1>7, <1>9, <1>13, <1>15, <1>16, AnsweredLater

USE ChatTurnAssumption, ChatViewAssumption DEF NoChat

(* How the turns move.                                                         *)
LEMMA TurnUpdates ==
  ASSUME NEW r \in TurnRecords
  PROVE  /\ \A a \in TurnPcs : [r EXCEPT !.at = a] \in TurnRecords
         /\ \A a \in TurnPcs, e \in {"none", "done", "failed"} : Over(r, a, e) \in TurnRecords
         /\ IdleTurn \in TurnRecords
         /\ \A a \in TurnPcs, p \in Seq(PromptMessages) : [r EXCEPT !.at = a, !.prompt = p] \in TurnRecords
         /\ \A p \in Seq(PromptMessages), n \in Nat : [r EXCEPT !.prompt = p, !.trims = n] \in TurnRecords
<1>1. IdleTurn \in TurnRecords
  BY DEF IdleTurn, TurnRecords, TurnPcs
<1>2. \A a \in TurnPcs : [r EXCEPT !.at = a] \in TurnRecords
  BY DEF TurnRecords
<1>3. \A a \in TurnPcs, e \in {"none", "done", "failed"} : Over(r, a, e) \in TurnRecords
  BY <1>1 DEF TurnRecords, Over
<1>4. \A a \in TurnPcs, p \in Seq(PromptMessages) : [r EXCEPT !.at = a, !.prompt = p] \in TurnRecords
  BY DEF TurnRecords
<1>5. \A p \in Seq(PromptMessages), n \in Nat : [r EXCEPT !.prompt = p, !.trims = n] \in TurnRecords
  BY DEF TurnRecords
<1> QED
  BY <1>1, <1>2, <1>3, <1>4, <1>5

\* One turn moves and stays in its conversation.
Moves(t) == /\ turn[t].at # "idle"
            /\ turn' = [turn EXCEPT ![t] = turn'[t]]
            /\ turn'[t] \in TurnRecords
            /\ turn'[t].at # "idle" /\ turn'[t].chat = turn[t].chat

LEMMA TurnMoves ==
  ASSUME TurnsTyped, NEW t \in Turns, Moves(t)
  PROVE  TurnsTyped' /\ TurnsGoOn
<1>1. \A u \in Turns : u # t => turn'[u] = turn[u]
  BY DEF TurnsTyped, Moves
<1>2. DOMAIN turn' = Turns /\ turn' \in [Turns -> TurnRecords]
  BY DEF TurnsTyped, Moves
<1> QED
  BY <1>1, <1>2 DEF TurnsTyped, Moves, TurnsGoOn

LEMMA GotoMoves ==
  ASSUME TurnsTyped, NEW t \in Turns, NEW at \in TurnPcs, at # "idle", turn[t].at # "idle", Goto(t, at)
  PROVE  Moves(t)
<1>1. turn[t] \in TurnRecords
  BY DEF TurnsTyped
<1>2. turn' = [turn EXCEPT ![t] = [turn[t] EXCEPT !.at = at]] /\ turn'[t] = [turn[t] EXCEPT !.at = at]
  BY DEF Goto, TurnsTyped
<1>3. [turn[t] EXCEPT !.at = at].at = at /\ [turn[t] EXCEPT !.at = at].chat = turn[t].chat
  BY <1>1 DEF TurnRecords
<1> QED
  BY <1>1, <1>2, <1>3, TurnUpdates DEF Moves

LEMMA ThrowMoves ==
  ASSUME TurnsTyped, NEW t \in Turns, turn[t].at # "idle", Throw(t)
  PROVE  Moves(t)
<1>1. turn[t] \in TurnRecords
  BY DEF TurnsTyped
<1>2. turn' = [turn EXCEPT ![t] = Over(turn[t], "failed", "failed")] /\ turn'[t] = Over(turn[t], "failed", "failed")
  BY DEF Throw, TurnsTyped
<1>3. Over(turn[t], "failed", "failed") \in TurnRecords
  BY <1>1, TurnUpdates DEF TurnPcs, Ended
<1>4. Over(turn[t], "failed", "failed").at = "failed" /\ Over(turn[t], "failed", "failed").chat = turn[t].chat
  BY DEF Over, IdleTurn
<1> QED
  BY <1>2, <1>3, <1>4 DEF Moves

LEMMA PassMoves ==
  ASSUME TurnsTyped, NEW t \in Turns, NEW from \in TurnPcs \ {"idle"}, NEW to \in TurnPcs \ {"idle"}, Pass(t, from, to)
  PROVE  Moves(t)
  BY GotoMoves, ThrowMoves DEF Pass

LEMMA ServerInitTypes == ServerInit => ServerTypes /\ AttachedWhereUploaded
<1> SUFFICES ASSUME ServerInit PROVE ServerTypes /\ AttachedWhereUploaded
  OBVIOUS
<1>1. stored \in [Chats -> Seq(StoredMessages)]
  <2>1. Message("user", 0) \in StoredMessages /\ Message("assistant", 0) \in StoredMessages
    BY DEF Message, StoredMessages
  <2>2. <<Message("user", 0), Message("assistant", 0)>> \in Seq(StoredMessages) /\ <<>> \in Seq(StoredMessages)
    BY <2>1
  <2> QED
    BY <2>2 DEF ServerInit
<1>2. TurnsTyped
  BY DEF ServerInit, TurnsTyped, IdleTurn, TurnRecords, TurnPcs
<1>3. links = {} /\ failures = 0 /\ titled = FirstChats /\ chats \in [Chats -> {"unborn", "live", "deleted"}]
  BY DEF ServerInit
<1> QED
  BY <1>1, <1>2, <1>3 DEF ServerTypes, AttachedWhereUploaded

\* What a step of one turn does besides moving it: a message of it is stored or its
\* files are linked.
LEMMA StepTypes ==
  ASSUME ServerTypes, AttachedWhereUploaded, NEW t \in Turns, Moves(t),
         chats' = chats, titled' \subseteq Chats, failures' \in Nat,
         \/ stored' = stored
         \/ \E role \in {"user", "assistant"} : AddMessage(turn[t].chat, role, t),
         \A l \in links' : l \in links \/ (l \in Links /\ l.file.chat = l.chat)
  PROVE  ServerTypes' /\ AttachedWhereUploaded' /\ OnlyAppended /\ TurnsGoOn
<1>1. TurnsTyped' /\ TurnsGoOn
  BY TurnMoves DEF ServerTypes
<1>2. stored' \in [Chats -> Seq(StoredMessages)] /\ OnlyAppended
  <2>1. CASE stored' = stored
    BY <2>1 DEF ServerTypes, OnlyAppended
  <2>2. ASSUME NEW role \in {"user", "assistant"}, AddMessage(turn[t].chat, role, t)
        PROVE  stored' \in [Chats -> Seq(StoredMessages)] /\ OnlyAppended
    <3> DEFINE c == turn[t].chat
               m == Message(role, t)
    <3>1. c \in Chats /\ m \in StoredMessages
      BY DEF ServerTypes, TurnsTyped, Moves, Message, StoredMessages
    <3>2. stored \in [Chats -> Seq(StoredMessages)] /\ stored' = [stored EXCEPT ![c] = Append(stored[c], m)]
      BY <2>2 DEF AddMessage, ServerTypes
    <3> HIDE DEF c, m
    <3>3. \A d \in Chats : stored'[d] = IF d = c THEN Append(stored[d], m) ELSE stored[d]
      BY <3>1, <3>2
    <3>4. stored[c] \in Seq(StoredMessages)
      BY <3>1, <3>2
    <3>5. /\ Append(stored[c], m) \in Seq(StoredMessages)
          /\ Len(Append(stored[c], m)) = Len(stored[c]) + 1
          /\ \A i \in 1..Len(stored[c]) : Append(stored[c], m)[i] = stored[c][i]
      BY <3>1, <3>4
    <3>6. stored' \in [Chats -> Seq(StoredMessages)]
      BY <3>1, <3>2, <3>5
    <3>7. \A d \in Chats : Len(stored[d]) \in Nat
      BY <3>2
    <3>8. OnlyAppended
      <4>1. ASSUME NEW d \in Chats
            PROVE  /\ Len(stored'[d]) >= Len(stored[d])
                   /\ \A i \in 1..Len(stored[d]) : stored'[d][i] = stored[d][i]
        <5>1. CASE d = c
          <6>1. stored'[d] = Append(stored[c], m) /\ stored[d] = stored[c] /\ Len(stored[c]) \in Nat
            BY <3>3, <3>7, <5>1
          <6>2. Len(stored'[d]) >= Len(stored[d])
            BY <3>5, <6>1
          <6>3. \A i \in 1..Len(stored[d]) : stored'[d][i] = stored[d][i]
            BY <3>5, <6>1, Zenon
          <6> QED
            BY <6>2, <6>3
        <5>2. CASE d # c
          BY <3>3, <3>7, <5>2
        <5> QED
          BY <5>1, <5>2
      <4> QED
        BY <4>1 DEF OnlyAppended
    <3> QED
      BY <3>6, <3>8
  <2> QED
    BY <2>1, <2>2
<1>3. links' \subseteq Links /\ AttachedWhereUploaded'
  BY DEF ServerTypes, AttachedWhereUploaded
<1> QED
  BY <1>1, <1>2, <1>3 DEF ServerTypes

\* A turn's own steps keep the types, link files to where they were uploaded and only
\* append to threads.
LEMMA TurnStepTypes ==
  ASSUME ServerTypes, AttachedWhereUploaded, NEW t \in Turns, TurnStep(t) \/ TurnFault(t)
  PROVE  ServerTypes' /\ AttachedWhereUploaded' /\ OnlyAppended /\ TurnsGoOn /\ chats' = chats
<1>0. /\ TurnsTyped /\ titled \subseteq Chats /\ failures \in Nat
      /\ turn[t] \in TurnRecords /\ (turn[t].at # "idle" => turn[t].chat \in Chats)
      /\ stored \in [Chats -> Seq(StoredMessages)]
  BY DEF ServerTypes, TurnsTyped
<1>1. ASSUME NEW from \in TurnPcs \ {"idle"}, NEW to \in TurnPcs \ {"idle"}, Pass(t, from, to)
      PROVE  ServerTypes' /\ AttachedWhereUploaded' /\ OnlyAppended /\ TurnsGoOn /\ chats' = chats
  <2>1. Moves(t)
    BY <1>0, <1>1, PassMoves
  <2> QED
    BY <1>0, <1>1, <2>1, StepTypes DEF Pass
<1>2. CASE FindChat(t) \/ AssertModelAllowed(t) \/ AssertTokenBudget(t) \/ ResolveTools(t) \/ DlpChatInput(t)
  BY <1>1, <1>2 DEF FindChat, AssertModelAllowed, AssertTokenBudget, ResolveTools, DlpChatInput, TurnPcs, Checks
<1>3. CASE AddQuestion(t) \/ StoreReply(t)
  <2>1. Moves(t)
    BY <1>0, <1>3, GotoMoves DEF AddQuestion, StoreReply, TurnPcs
  <2>2. UNCHANGED <<chats, titled, links, failures>>
    BY <1>3, Zenon DEF AddQuestion, StoreReply
  <2>3. \E role \in {"user", "assistant"} : AddMessage(turn[t].chat, role, t)
    BY <1>3, Zenon DEF AddQuestion, StoreReply
  <2> QED
    BY <1>0, <2>1, <2>2, <2>3, StepTypes
<1>4. CASE LinkFiles(t)
  <2>1. Moves(t)
    BY <1>0, <1>4, GotoMoves DEF LinkFiles, TurnPcs
  <2>2. turn[t].chat \in Chats /\ turn[t].uploads \subseteq Files
    BY <1>0, <1>4 DEF LinkFiles, TurnRecords
  <2>3. ASSUME NEW l \in links', l \notin links
        PROVE  l \in Links /\ l.file.chat = l.chat
    <3>1. PICK f \in turn[t].uploads : /\ Linkable(f, turn[t].chat)
                                       /\ l = [file |-> f, chat |-> turn[t].chat, turn |-> t, role |-> "user"]
      BY <1>4, <2>3 DEF LinkFiles
    <3> QED
      BY <2>2, <3>1 DEF Links, Linkable
  <2>4. UNCHANGED <<chats, stored, titled, failures>>
    BY <1>4, Zenon DEF LinkFiles
  <2> QED
    BY <1>0, <2>1, <2>3, <2>4, StepTypes
<1>5. CASE SetTitle(t)
  <2>1. Moves(t)
    BY <1>0, <1>5, GotoMoves DEF SetTitle, TurnPcs
  <2>2. titled' \subseteq Chats /\ UNCHANGED <<chats, stored, links, failures>>
    BY <1>0, <1>5 DEF SetTitle
  <2> QED
    BY <1>0, <2>1, <2>2, StepTypes
<1>6. CASE LinkProduced(t)
  <2>1. Moves(t)
    BY <1>0, <1>6, GotoMoves DEF LinkProduced, TurnPcs
  <2>2. turn[t].chat \in Chats
    BY <1>0, <1>6 DEF LinkProduced
  <2>3. \A l \in links' : l \in links \/ (l \in Links /\ l.file.chat = l.chat)
    BY <1>6, <2>2 DEF LinkProduced, Links, Files
  <2>4. UNCHANGED <<chats, stored, titled, failures>>
    BY <1>6, Zenon DEF LinkProduced
  <2> QED
    BY <1>0, <2>1, <2>3, <2>4, StepTypes
<1>7. CASE ModelFails(t) \/ TurnFault(t)
  <2>1. Moves(t)
    BY <1>0, <1>7, ThrowMoves DEF ModelFails, TurnFault
  <2>2. UNCHANGED <<chats, stored, titled, links>> /\ failures' \in Nat
    BY <1>0, <1>7 DEF ModelFails, TurnFault
  <2> QED
    BY <1>0, <2>1, <2>2, StepTypes
<1>8. CASE BuildPrompt(t) \/ Overflow(t) \/ Answer(t) \/ AskTool(t) \/ RunTool(t) \/ Announce(t)
  <2>1. UNCHANGED <<chats, stored, titled, links, failures>>
    BY <1>8, Zenon DEF BuildPrompt, Overflow, Answer, AskTool, RunTool, Announce
  <2>2. DOMAIN turn = Turns
    BY <1>0 DEF TurnsTyped
  <2>3. Moves(t)
    <3>1. CASE BuildPrompt(t)
      <4> DEFINE p == <<SystemPrompt(t)>> \o stored[turn[t].chat]
      <4>1. p \in Seq(PromptMessages)
        <5>1. <<SystemPrompt(t)>> \in Seq(PromptMessages)
          BY DEF SystemPrompt, Message, PromptMessages
        <5>2. stored[turn[t].chat] \in Seq(PromptMessages)
          <6>1. StoredMessages \subseteq PromptMessages
            BY DEF StoredMessages, PromptMessages
          <6>2. stored[turn[t].chat] \in Seq(StoredMessages)
            BY <1>0, <3>1 DEF BuildPrompt
          <6> QED
            BY <6>1, <6>2
        <5> QED
          BY <5>1, <5>2
      <4>2. turn[t].at = "prompt" /\ turn' = [turn EXCEPT ![t].at = "model", ![t].prompt = p]
        BY <3>1, Zenon DEF BuildPrompt
      <4> HIDE DEF p
      <4> QED
        BY <1>0, <2>2, <4>1, <4>2 DEF Moves, TurnRecords, TurnPcs
    <3>2. CASE Overflow(t)
      <4>1. turn[t].at = "model"
        BY <3>2 DEF Overflow
      <4>2. CASE Throw(t)
        BY <1>0, <4>1, <4>2, ThrowMoves
      <4>3. CASE ~Throw(t)
        <5>1. CanTrim(turn[t].prompt) /\ turn' = [turn EXCEPT ![t].prompt = TrimOldest(@), ![t].trims = @ + 1]
          BY <3>2, <4>3, Zenon DEF Overflow
        <5>2. PICK p \in Seq(PromptMessages) : p = TrimOldest(turn[t].prompt)
          BY <1>0, <5>1, TrimmedPrompt DEF TurnRecords
        <5>3. turn' = [turn EXCEPT ![t] = [turn[t] EXCEPT !.prompt = p, !.trims = turn[t].trims + 1]]
          BY <1>0, <2>2, <5>1, <5>2 DEF TurnRecords
        <5>4. PICK n \in Nat : n = turn[t].trims + 1
          BY <1>0 DEF TurnRecords
        <5>5. PICK r : r = [turn[t] EXCEPT !.prompt = p, !.trims = n]
          OBVIOUS
        <5>6. r \in TurnRecords /\ r.at = turn[t].at /\ r.chat = turn[t].chat
          BY <1>0, <5>5 DEF TurnRecords
        <5> QED
          BY <2>2, <4>1, <5>3, <5>4, <5>5, <5>6 DEF Moves
      <4> QED
        BY <4>2, <4>3
    <3>3. CASE ToReply(t) /\ turn[t].at = "model"
      <4>1. <<>> \in Seq(PromptMessages)
        OBVIOUS
      <4> QED
        BY <1>0, <2>2, <3>3, <4>1 DEF ToReply, Moves, TurnRecords, TurnPcs
    <3>4. CASE AskTool(t) /\ ~ToReply(t)
      <4>1. PICK calls \in 1..MaxCalls :
              turn' = [turn EXCEPT ![t].at = "tool", ![t].prompt = Append(@, Call(t, calls))]
        BY <3>4 DEF AskTool
      <4>2. Call(t, calls) \in PromptMessages
        BY DEF Call, PromptMessages
      <4>3. PICK p \in Seq(PromptMessages) : p = Append(turn[t].prompt, Call(t, calls))
        <5>1. turn[t].prompt \in Seq(PromptMessages)
          BY <1>0 DEF TurnRecords
        <5>2. Append(turn[t].prompt, Call(t, calls)) \in Seq(PromptMessages)
          BY <4>2, <5>1
        <5> QED
          BY <5>2, Zenon
      <4>4. turn' = [turn EXCEPT ![t].at = "tool", ![t].prompt = p] /\ turn[t].at = "model"
        BY <1>0, <2>2, <3>4, <4>1, <4>3 DEF TurnRecords, AskTool
      <4> QED
        BY <1>0, <2>2, <4>4 DEF Moves, TurnRecords, TurnPcs
    <3>5. CASE RunTool(t)
      <4> DEFINE last == Owed(turn[t].prompt) = 1
      <4>1. turn[t].at = "tool"
        BY <3>5 DEF RunTool
      <4>2. PICK files \in {0, 1} :
              turn' = [turn EXCEPT ![t].prompt = Append(@, Message("tool", t)),
                                   ![t].produced = Kept(@, files),
                                   ![t].at = IF last THEN "model" ELSE "tool",
                                   ![t].round = IF last THEN @ + 1 ELSE @,
                                   ![t].trims = 0]
        BY <3>5 DEF RunTool
      <4> HIDE DEF last
      <4>3. PICK p \in Seq(PromptMessages) : p = Append(turn[t].prompt, Message("tool", t))
        <5>1. turn[t].prompt \in Seq(PromptMessages) /\ Message("tool", t) \in PromptMessages
          BY <1>0 DEF TurnRecords, Message, PromptMessages
        <5>2. Append(turn[t].prompt, Message("tool", t)) \in Seq(PromptMessages)
          BY <5>1
        <5> QED
          BY <5>2, Zenon
      <4>4. PICK n \in Nat : n = Kept(turn[t].produced, files)
        BY <1>0 DEF TurnRecords, Kept
      <4>5. PICK r \in Nat : r = IF last THEN turn[t].round + 1 ELSE turn[t].round
        BY <1>0 DEF TurnRecords
      <4>6. PICK a \in {"model", "tool"} : a = IF last THEN "model" ELSE "tool"
        OBVIOUS
      <4>7. turn'[t] = [turn[t] EXCEPT !.prompt = p, !.produced = n, !.at = a, !.round = r, !.trims = 0]
        BY <1>0, <2>2, <4>2, <4>3, <4>4, <4>5, <4>6 DEF TurnRecords
      <4>8. turn' = [turn EXCEPT ![t] = turn'[t]]
        <5>1. \A u \in Turns : u # t => turn'[u] = turn[u]
          BY <2>2, <4>2
        <5>2. DOMAIN turn' = Turns /\ turn' = [u \in Turns |-> turn'[u]]
          BY <2>2, <4>2
        <5> QED
          BY <2>2, <5>1, <5>2
      <4>9. PICK s : s = [turn[t] EXCEPT !.prompt = p, !.produced = n, !.at = a, !.round = r, !.trims = 0]
        OBVIOUS
      <4>10. s \in TurnRecords /\ s.at = a /\ s.chat = turn[t].chat
        BY <1>0, <4>9 DEF TurnRecords, TurnPcs
      <4> QED
        BY <4>1, <4>7, <4>8, <4>9, <4>10 DEF Moves
    <3>6. CASE Announce(t)
      <4>1. turn' = [turn EXCEPT ![t] = Over(turn[t], "done", "done")] /\ turn'[t] = Over(turn[t], "done", "done")
        BY <2>2, <3>6 DEF Announce
      <4>2. Over(turn[t], "done", "done").at = "done" /\ Over(turn[t], "done", "done").chat = turn[t].chat
        BY DEF Over, IdleTurn
      <4>3. Over(turn[t], "done", "done") \in TurnRecords /\ turn[t].at # "idle"
        BY <1>0, <3>6, TurnUpdates DEF TurnPcs, Ended, Announce
      <4> QED
        BY <4>1, <4>2, <4>3 DEF Moves
    <3> QED
      BY <1>8, <3>1, <3>2, <3>3, <3>4, <3>5, <3>6 DEF Answer, AskTool
  <2> QED
    BY <1>0, <2>1, <2>3, StepTypes
<1> QED
  BY <1>2, <1>3, <1>4, <1>5, <1>6, <1>7, <1>8 DEF TurnStep

\* So does the death of the process.
LEMMA GatewayTypes ==
  ASSUME ServerTypes, AttachedWhereUploaded, Server
  PROVE  ServerTypes' /\ AttachedWhereUploaded' /\ OnlyAppended /\ TurnsGoOn /\ chats' = chats
<1>1. CASE ProcessDies
  <2>1. turn' = [t \in Turns |-> IF Running(t) THEN Over(turn[t], "dead", "none") ELSE turn[t]]
    BY <1>1, Zenon DEF ProcessDies
  <2>2. ASSUME NEW t \in Turns
        PROVE  /\ turn'[t] \in TurnRecords
               /\ turn[t].at # "idle" => turn'[t].at # "idle" /\ turn'[t].chat = turn[t].chat
               /\ turn'[t].at # "idle" => turn'[t].chat \in Chats
    <3>1. turn[t] \in TurnRecords /\ (turn[t].at # "idle" => turn[t].chat \in Chats)
      BY DEF ServerTypes, TurnsTyped
    <3>2. CASE Running(t)
      BY <2>1, <3>1, <3>2, TurnUpdates DEF Over, IdleTurn, TurnPcs, Ended, Running
    <3>3. CASE ~Running(t)
      BY <2>1, <3>1, <3>3
    <3> QED
      BY <3>2, <3>3
  <2>3. TurnsTyped' /\ TurnsGoOn
    BY <2>1, <2>2 DEF ServerTypes, TurnsTyped, TurnsGoOn
  <2>4. UNCHANGED <<chats, stored, titled, links>> /\ failures' \in Nat
    BY <1>1 DEF ProcessDies, ServerTypes
  <2> QED
    BY <2>3, <2>4 DEF ServerTypes, AttachedWhereUploaded, OnlyAppended
<1> QED
  BY <1>1, TurnStepTypes DEF Server

(* The turn that is being sent has begun.                                  *)
Sends ==
  /\ sending.turn = 0 => sending = NotSending
  /\ sending.turn # 0 => turn[sending.turn].at # "idle"

(* At most one request looks for a reply, and it is the sent turn's.       *)
Reconciling ==
  /\ \A g \in gets : g.kind = "reconcile" =>
       sending.turn # 0 /\ sending.stream = "reconcile" /\ g.chat = Sender.chat
  /\ \A g, h \in gets : g.kind = "reconcile" /\ h.kind = "reconcile" => g = h

(* What the page has to do with exists, or did.                            *)
Born ==
  /\ current # NoChat => chats[current] # "unborn"
  /\ sending.turn # 0 => chats[Sender.chat] # "unborn"
  /\ \A g \in gets : g.at = "answered" => chats[g.chat] # "unborn"

OneThread ==
  current # NoChat =>
    /\ shown.chat = current
    /\ \A i \in 1..Len(shown.extra) : shown.extra[i].kind # "notice" => shown.extra[i].chat = current
(* Where the URL names another conversation, its request is under way.     *)
UrlFollows == ~ routed /\ url # current => \E g \in gets : g.kind = "route"

(* An answer that waits is still a beginning of the thread.                *)
AnswersTrue ==
  \A g \in gets : g.at = "answered" /\ chats[g.chat] = "live" =>
    /\ g.n <= Len(stored[g.chat])
    /\ g.last = IF g.n = 0 THEN "none" ELSE stored[g.chat][g.n].role

Replied == shown.extra # <<>> /\ shown.extra[Len(shown.extra)].kind # "question"
(* A turn that is settled has said so, to a user who has stayed.           *)
Settled ==
  sending.turn # 0 /\ sending.settled => sending.stream = "closed" /\ (AtHome /\ ~ sending.left => Replied)

ViewInv == ViewTypes /\ Sends /\ Reconciling /\ Born /\ OneThread /\ UrlFollows /\ AnswersTrue /\ Settled
ChatInv == ServerTypes /\ AttachedWhereUploaded /\ ViewInv

(* What every step leaves of the gateway's state for the page to rely on.  *)
ServerGoesOn ==
  /\ TurnsGoOn
  /\ \A c \in Chats :
       chats[c] # "unborn" =>
         /\ chats'[c] # "unborn"
         /\ chats'[c] = "live" =>
              /\ chats[c] = "live" /\ Len(stored'[c]) >= Len(stored[c])
              /\ \A i \in 1..Len(stored[c]) : stored'[c][i] = stored[c][i]

\* The gateway's own steps, and steps that leave it alone, do.
LEMMA GatewayGoesOn ==
  ASSUME ServerTypes, AttachedWhereUploaded, Server
  PROVE  ServerTypes' /\ AttachedWhereUploaded' /\ ServerGoesOn
<1>1. ServerTypes' /\ AttachedWhereUploaded' /\ OnlyAppended /\ TurnsGoOn /\ chats' = chats
  BY GatewayTypes
<1> QED
  BY <1>1 DEF ServerGoesOn, OnlyAppended

LEMMA Steady ==
  ASSUME ServerTypes, AttachedWhereUploaded, UNCHANGED <<chats, stored, titled, links, turn>>, failures' \in Nat
  PROVE  ServerTypes' /\ AttachedWhereUploaded' /\ ServerGoesOn
<1>1. \A c \in Chats : Len(stored[c]) \in Nat
  BY DEF ServerTypes
<1>2. ServerTypes' /\ AttachedWhereUploaded'
  BY DEF ServerTypes, TurnsTyped, AttachedWhereUploaded
<1> QED
  BY <1>1, <1>2 DEF ServerGoesOn, TurnsGoOn

\* What follows for the turn that is being sent, as long as it is the same.
LEMMA SenderStays ==
  ASSUME ServerTypes, ViewTypes, Sends, ServerGoesOn, sending'.turn = sending.turn, sending.turn # 0
  PROVE  /\ Sends' /\ Sender'.chat = Sender.chat /\ Sender.chat \in Chats
         /\ chats[Sender.chat] # "unborn" => chats'[Sender'.chat] # "unborn"
<1>1. sending.turn \in Turns
  BY DEF ViewTypes, Sendings
<1>2. Sender.at # "idle" /\ Sender.chat \in Chats
  BY <1>1 DEF Sends, Sender, ServerTypes, TurnsTyped
<1>3. Sender'.at # "idle" /\ Sender'.chat = Sender.chat
  BY <1>1, <1>2 DEF ServerGoesOn, TurnsGoOn, Sender
<1> QED
  BY <1>2, <1>3 DEF Sends, Sender, ServerGoesOn

\* Answers stay true while threads grow.
LEMMA AnswersStay ==
  ASSUME ServerTypes, ViewTypes, Born, AnswersTrue, ServerGoesOn,
         NEW g \in gets, g.at = "answered"
  PROVE  /\ chats'[g.chat] # "unborn"
         /\ chats'[g.chat] = "live" =>
              /\ g.n <= Len(stored'[g.chat])
              /\ g.last = IF g.n = 0 THEN "none" ELSE stored'[g.chat][g.n].role
<1> DEFINE c == g.chat
<1>1. c \in Chats /\ g.n \in Nat
  BY DEF ViewTypes, Gets
<1>2. chats[c] # "unborn"
  BY DEF Born
<1>3. chats'[c] # "unborn"
  BY <1>1, <1>2 DEF ServerGoesOn
<1>4. ASSUME chats'[c] = "live"
      PROVE  /\ g.n <= Len(stored'[c])
             /\ g.last = IF g.n = 0 THEN "none" ELSE stored'[c][g.n].role
  <2>1. /\ chats[c] = "live" /\ Len(stored'[c]) >= Len(stored[c])
        /\ \A i \in 1..Len(stored[c]) : stored'[c][i] = stored[c][i]
    BY <1>1, <1>2, <1>4 DEF ServerGoesOn
  <2>2. /\ g.n <= Len(stored[c])
        /\ g.last = IF g.n = 0 THEN "none" ELSE stored[c][g.n].role
    BY <2>1 DEF AnswersTrue
  <2>3. Len(stored[c]) \in Nat /\ Len(stored'[c]) \in Int
    BY <1>1, <2>1 DEF ServerTypes
  <2>4. g.n # 0 => stored'[c][g.n] = stored[c][g.n]
    BY <1>1, <2>1, <2>2, <2>3
  <2> QED
    BY <1>1, <2>1, <2>2, <2>3, <2>4
<1> QED
  BY <1>3, <1>4

\* Of a step that leaves the send and its stream alone.
LEMMA SendingRests ==
  ASSUME ServerTypes, ViewTypes, Sends, ServerGoesOn, UNCHANGED sending
  PROVE  /\ Sends'
         /\ sending.turn # 0 => Sender'.chat = Sender.chat /\ Sender.chat \in Chats
         /\ sending.turn # 0 /\ chats[Sender.chat] # "unborn" => chats'[Sender'.chat] # "unborn"
<1>1. CASE sending.turn = 0
  BY <1>1 DEF Sends
<1>2. CASE sending.turn # 0
  BY <1>2, SenderStays
<1> QED
  BY <1>1, <1>2

\* Requests: each is an old one, or one that has just been asked.
Asking == \A g \in gets' : g \in gets \/ (g.at = "asked" /\ g.kind # "reconcile")

LEMMA GetsAsked ==
  ASSUME ServerTypes, ViewInv, ServerGoesOn, UNCHANGED sending, Asking
  PROVE  /\ Reconciling' /\ AnswersTrue'
         /\ \A g \in gets' : g.at = "answered" => chats'[g.chat] # "unborn"
<1>1. \A g \in gets' : g.kind = "reconcile" \/ g.at = "answered" => g \in gets
  BY DEF Asking
<1>2. Reconciling'
  <2>1. sending.turn # 0 => Sender'.chat = Sender.chat
    BY SendingRests DEF ViewInv
  <2> QED
    BY <1>1, <2>1 DEF ViewInv, Reconciling
<1>3. \A g \in gets' : g.at = "answered" =>
        /\ chats'[g.chat] # "unborn"
        /\ chats'[g.chat] = "live" =>
             /\ g.n <= Len(stored'[g.chat])
             /\ g.last = IF g.n = 0 THEN "none" ELSE stored'[g.chat][g.n].role
  BY <1>1, AnswersStay DEF ViewInv
<1>4. AnswersTrue'
  BY <1>3 DEF AnswersTrue
<1> QED
  BY <1>2, <1>3, <1>4

\* A step of the gateway, and every step of the page that does not touch the send,
\* the thread and the open conversation.
LEMMA PageRests ==
  ASSUME ServerTypes, ViewInv, ViewTypes', UrlFollows', ServerGoesOn,
         UNCHANGED <<current, shown, sending>>, Asking
  PROVE  ViewInv'
<1>1. /\ Sends' /\ (sending.turn # 0 => Sender'.chat = Sender.chat)
      /\ sending.turn # 0 /\ chats[Sender.chat] # "unborn" => chats'[Sender'.chat] # "unborn"
  BY SendingRests DEF ViewInv
<1>2. /\ Reconciling' /\ AnswersTrue'
      /\ \A g \in gets' : g.at = "answered" => chats'[g.chat] # "unborn"
  BY GetsAsked
<1>3. Born'
  <2>1. current # NoChat => chats'[current] # "unborn"
    BY DEF ViewInv, Born, ViewTypes, ServerGoesOn
  <2> QED
    BY <1>1, <1>2, <2>1 DEF ViewInv, Born
<1>4. OneThread'
  BY DEF ViewInv, OneThread
<1>5. Settled'
  <2>1. sending.turn # 0 => (AtHome' <=> AtHome)
    BY <1>1 DEF AtHome
  <2>2. Replied' <=> Replied
    BY DEF Replied
  <2> QED
    BY <2>1, <2>2 DEF ViewInv, Settled
<1> QED
  BY <1>1, <1>2, <1>3, <1>4, <1>5 DEF ViewInv

LEMMA GatewayKeeps ==
  ASSUME ChatInv, Gateway
  PROVE  ChatInv'
<1>1. ServerTypes' /\ AttachedWhereUploaded' /\ ServerGoesOn
  BY GatewayGoesOn DEF ChatInv, Gateway
<1>2. UNCHANGED <<current, url, routed, shown, gets, sending, pending, upload, ops>>
  BY Zenon DEF Gateway, viewVars
<1>3. ViewTypes' /\ UrlFollows' /\ Asking
  BY <1>2 DEF ChatInv, ViewInv, ViewTypes, UrlFollows, Asking
<1>4. ViewInv'
  BY <1>1, <1>2, <1>3, PageRests DEF ChatInv
<1> QED
  BY <1>1, <1>4 DEF ChatInv

\* Most steps of the page leave the gateway alone.
LEMMA ServerRests ==
  ASSUME ChatInv, UNCHANGED serverVars
  PROVE  ServerTypes' /\ AttachedWhereUploaded' /\ ServerGoesOn
<1>1. UNCHANGED <<chats, stored, titled, links, turn, failures>>
  BY Zenon DEF serverVars
<1>2. failures' \in Nat
  BY <1>1 DEF ChatInv, ServerTypes
<1> QED
  BY <1>1, <1>2, Steady DEF ChatInv

LEMMA ClickKeeps ==
  ASSUME ChatInv, NEW c \in Chats, Click(c)
  PROVE  ChatInv'
<1>1. ServerTypes' /\ AttachedWhereUploaded' /\ ServerGoesOn
  BY ServerRests, Zenon DEF Click
<1>2. /\ pending' = {} /\ gets' = gets \cup {Get("click", c)} /\ ops' = ops + 1
      /\ UNCHANGED <<current, url, routed, shown, sending, upload>>
  BY Zenon DEF Click, StartOpen, Operation
<1>3. Get("click", c) \in Gets /\ Get("click", c).at = "asked" /\ Get("click", c).kind = "click"
  BY DEF Get, Gets, ChatInv, ViewInv, ViewTypes
<1>4. ViewTypes'
  BY <1>2, <1>3 DEF ChatInv, ViewInv, ViewTypes
<1>5. UrlFollows' /\ Asking
  BY <1>2, <1>3 DEF ChatInv, ViewInv, UrlFollows, Asking
<1>6. ViewInv'
  BY <1>1, <1>2, <1>4, <1>5, PageRests DEF ChatInv
<1> QED
  BY <1>1, <1>6 DEF ChatInv

LEMMA NavigateKeeps ==
  ASSUME ChatInv, NEW c \in Chats \cup {NoChat}, Navigate(c)
  PROVE  ChatInv'
<1>1. ServerTypes' /\ AttachedWhereUploaded' /\ ServerGoesOn
  BY ServerRests, Zenon DEF Navigate
<1>2. /\ url' = c /\ routed' = TRUE /\ ops' = ops + 1
      /\ UNCHANGED <<current, shown, gets, sending, pending, upload>>
  BY Zenon DEF Navigate, Operation
<1>4. ViewTypes'
  BY <1>2 DEF ChatInv, ViewInv, ViewTypes
<1>5. UrlFollows' /\ Asking
  BY <1>2 DEF UrlFollows, Asking
<1>6. ViewInv'
  BY <1>1, <1>2, <1>4, <1>5, PageRests DEF ChatInv
<1> QED
  BY <1>1, <1>6 DEF ChatInv

LEMMA ApplyRouteKeeps ==
  ASSUME ChatInv, ApplyRoute
  PROVE  ChatInv'
<1>1. ServerTypes' /\ AttachedWhereUploaded' /\ ServerGoesOn
  BY ServerRests, Zenon DEF ApplyRoute
<1>2. routed' = FALSE /\ UNCHANGED <<url, shown, sending, upload, ops>>
  BY Zenon DEF ApplyRoute
<1>3. CASE url \in Chats /\ url # current /\ StartOpen("route", url) /\ UNCHANGED current
  <2>1. pending' = {} /\ gets' = gets \cup {Get("route", url)}
    BY <1>3, Zenon DEF StartOpen
  <2>2. Get("route", url) \in Gets /\ Get("route", url).at = "asked" /\ Get("route", url).kind = "route"
    BY <1>3 DEF Get, Gets, ChatInv, ViewInv, ViewTypes
  <2>3. ViewTypes'
    BY <1>2, <1>3, <2>1, <2>2 DEF ChatInv, ViewInv, ViewTypes
  <2>4. UrlFollows' /\ Asking
    BY <2>1, <2>2 DEF UrlFollows, Asking
  <2>5. ViewInv'
    BY <1>1, <1>2, <1>3, <2>3, <2>4, PageRests DEF ChatInv
  <2> QED
    BY <1>1, <2>5 DEF ChatInv
<1>4. CASE url \in Chats /\ url = current /\ UNCHANGED <<current, pending, gets>>
  <2>1. ViewTypes' /\ UrlFollows' /\ Asking
    BY <1>2, <1>4 DEF ChatInv, ViewInv, ViewTypes, UrlFollows, Asking
  <2>2. ViewInv'
    BY <1>1, <1>2, <1>4, <2>1, PageRests DEF ChatInv
  <2> QED
    BY <1>1, <2>2 DEF ChatInv
<1>5. CASE url = NoChat /\ current' = NoChat /\ UNCHANGED <<pending, gets>>
  <2>1. ViewTypes' /\ UrlFollows' /\ Asking
    BY <1>2, <1>5 DEF ChatInv, ViewInv, ViewTypes, UrlFollows, Asking
  <2>2. /\ Sends' /\ (sending.turn # 0 => Sender'.chat = Sender.chat /\ Sender.chat \in Chats)
        /\ sending.turn # 0 /\ chats[Sender.chat] # "unborn" => chats'[Sender'.chat] # "unborn"
    BY <1>1, <1>2, SendingRests DEF ChatInv, ViewInv
  <2>3. /\ Reconciling' /\ AnswersTrue'
        /\ \A g \in gets' : g.at = "answered" => chats'[g.chat] # "unborn"
    BY <1>1, <1>2, <2>1, GetsAsked DEF ChatInv
  <2>4. Born'
    BY <1>2, <1>5, <2>2, <2>3 DEF Born, ChatInv, ViewInv
  <2>5. OneThread'
    BY <1>5 DEF OneThread
  <2>6. Settled'
    BY <1>2, <1>5, <2>2 DEF Settled, AtHome, ChatInv, ViewInv
  <2> QED
    BY <1>1, <2>1, <2>2, <2>3, <2>4, <2>5, <2>6 DEF ChatInv, ViewInv
<1> QED
  BY <1>3, <1>4, <1>5, Zenon DEF ApplyRoute

\* A request gets its answer, or an error.
LEMMA AnswerKeeps ==
  ASSUME ChatInv, ServerTypes', AttachedWhereUploaded', ServerGoesOn,
         NEW g \in gets, NEW h \in Gets,
         gets' = (gets \ {g}) \cup {h}, h.kind = g.kind, h.chat = g.chat,
         h.at = "answered" =>
           /\ chats'[h.chat] # "unborn"
           /\ chats'[h.chat] = "live" =>
                /\ h.n <= Len(stored'[h.chat])
                /\ h.last = IF h.n = 0 THEN "none" ELSE stored'[h.chat][h.n].role,
         UNCHANGED <<current, url, routed, shown, sending, pending, upload, ops>>
  PROVE  ChatInv'
<1>1. ViewTypes'
  BY DEF ChatInv, ViewInv, ViewTypes
<1>2. /\ Sends' /\ (sending.turn # 0 => Sender'.chat = Sender.chat)
      /\ sending.turn # 0 /\ chats[Sender.chat] # "unborn" => chats'[Sender'.chat] # "unborn"
  BY SendingRests DEF ChatInv, ViewInv
<1>3. Reconciling'
  <2>1. ASSUME NEW k \in gets', k.kind = "reconcile"
        PROVE  sending'.turn # 0 /\ sending'.stream = "reconcile" /\ k.chat = Sender'.chat
    BY <1>2, <2>1 DEF ChatInv, ViewInv, Reconciling
  <2>2. ASSUME NEW k \in gets', NEW l \in gets', k.kind = "reconcile", l.kind = "reconcile"
        PROVE  k = l
    <3>1. \A x, y \in gets : x.kind = "reconcile" /\ y.kind = "reconcile" => x = y
      BY DEF ChatInv, ViewInv, Reconciling
    <3> QED
      BY <2>2, <3>1
  <2> QED
    BY <2>1, <2>2 DEF Reconciling
<1>4. \A k \in gets' : k.at = "answered" =>
        /\ chats'[k.chat] # "unborn"
        /\ chats'[k.chat] = "live" =>
             /\ k.n <= Len(stored'[k.chat])
             /\ k.last = IF k.n = 0 THEN "none" ELSE stored'[k.chat][k.n].role
  BY AnswersStay DEF ChatInv, ViewInv
<1>5. AnswersTrue'
  BY <1>4 DEF AnswersTrue
<1>6. Born'
  <2>1. current # NoChat => chats'[current] # "unborn"
    BY DEF ChatInv, ViewInv, Born, ViewTypes, ServerGoesOn
  <2> QED
    BY <1>2, <1>4, <2>1 DEF ChatInv, ViewInv, Born
<1>7. OneThread'
  BY DEF ChatInv, ViewInv, OneThread
<1>8. UrlFollows'
  BY DEF ChatInv, ViewInv, UrlFollows
<1>9. Settled'
  <2>1. sending.turn # 0 => (AtHome' <=> AtHome)
    BY <1>2 DEF AtHome
  <2>2. Replied' <=> Replied
    BY DEF Replied
  <2> QED
    BY <2>1, <2>2 DEF ChatInv, ViewInv, Settled
<1> QED
  BY <1>1, <1>2, <1>3, <1>5, <1>6, <1>7, <1>8, <1>9 DEF ChatInv, ViewInv

LEMMA ServeKeeps ==
  ASSUME ChatInv, NEW g \in gets, Serve(g)
  PROVE  ChatInv'
<1>1. ServerTypes' /\ AttachedWhereUploaded' /\ ServerGoesOn
  BY ServerRests, Zenon DEF Serve
<1>2. UNCHANGED <<current, url, routed, shown, sending, pending, upload, ops>> /\ UNCHANGED <<chats, stored>>
  BY Zenon DEF Serve, serverVars
<1>3. g \in Gets /\ stored \in [Chats -> Seq(StoredMessages)]
  BY DEF ChatInv, ViewInv, ViewTypes, ServerTypes
<1> DEFINE c == g.chat
           n == Len(stored[c])
           last == IF n = 0 THEN "none" ELSE stored[c][n].role
<1>4. c \in Chats /\ stored[c] \in Seq(StoredMessages)
  BY <1>3 DEF Gets
<1>5. n \in Nat /\ (n # 0 => stored[c][n] \in StoredMessages)
  BY <1>4
<1>6. last \in {"none", "user", "assistant"}
  BY <1>5 DEF StoredMessages
<1>7. CASE chats[c] = "live"
  <2>1. PICK h : h = [g EXCEPT !.at = "answered", !.n = n, !.last = last]
    OBVIOUS
  <2>2. gets' = (gets \ {g}) \cup {h}
    BY <1>7, <2>1, Zenon DEF Serve
  <2> HIDE DEF last, n
  <2>3. h \in Gets /\ h.kind = g.kind /\ h.chat = g.chat /\ h.n = n /\ h.last = last
    BY <1>3, <1>5, <1>6, <2>1 DEF Gets
  <2> USE DEF last, n
  <2>4. chats'[h.chat] = "live" /\ h.n <= Len(stored'[h.chat])
    BY <1>2, <1>5, <1>7, <2>3
  <2>5. h.last = IF h.n = 0 THEN "none" ELSE stored'[h.chat][h.n].role
    BY <1>2, <2>3
  <2>6. chats'[h.chat] # "unborn"
    BY <2>4
  <2> QED
    BY <1>1, <1>2, <2>2, <2>3, <2>4, <2>5, <2>6, AnswerKeeps
<1>8. CASE chats[c] # "live"
  <2>1. PICK h : h = [g EXCEPT !.at = "error"]
    OBVIOUS
  <2>2. gets' = (gets \ {g}) \cup {h}
    BY <1>8, <2>1, Zenon DEF Serve
  <2>3. h \in Gets /\ h.kind = g.kind /\ h.chat = g.chat /\ h.at # "answered"
    BY <1>3, <2>1 DEF Gets
  <2> QED
    BY <1>1, <1>2, <2>2, <2>3, AnswerKeeps
<1> QED
  BY <1>7, <1>8

LEMMA LoseRequestKeeps ==
  ASSUME ChatInv, NEW g \in gets, LoseRequest(g)
  PROVE  ChatInv'
<1>1. UNCHANGED <<current, url, routed, shown, sending, pending, upload, ops>>
      /\ UNCHANGED <<chats, stored, titled, links, turn>> /\ failures' = failures + 1
  BY Zenon DEF LoseRequest
<1>2. failures' \in Nat
  BY <1>1 DEF ChatInv, ServerTypes
<1>3. ServerTypes' /\ AttachedWhereUploaded' /\ ServerGoesOn
  BY <1>1, <1>2, Steady DEF ChatInv
<1>4. PICK h : h = [g EXCEPT !.at = "error"]
  OBVIOUS
<1>5. gets' = (gets \ {g}) \cup {h}
  BY <1>4, Zenon DEF LoseRequest
<1>6. g \in Gets
  BY DEF ChatInv, ViewInv, ViewTypes
<1>7. h \in Gets /\ h.kind = g.kind /\ h.chat = g.chat /\ h.at # "answered"
  BY <1>4, <1>6 DEF Gets
<1> QED
  BY <1>1, <1>3, <1>5, <1>7, AnswerKeeps

\* An answer is taken off the list.
LEMMA GetsTaken ==
  ASSUME ServerTypes, ViewInv, ServerGoesOn, gets' \subseteq gets,
         sending'.turn = sending.turn, sending'.stream = sending.stream
  PROVE  /\ Reconciling' /\ AnswersTrue'
         /\ \A k \in gets' : k.at = "answered" => chats'[k.chat] # "unborn"
<1>1. Reconciling'
  <2>1. sending.turn # 0 => Sender'.chat = Sender.chat
    BY SenderStays DEF ViewInv
  <2> QED
    BY <2>1 DEF ViewInv, Reconciling
<1>2. \A k \in gets' : k.at = "answered" =>
        /\ chats'[k.chat] # "unborn"
        /\ chats'[k.chat] = "live" =>
             /\ k.n <= Len(stored'[k.chat])
             /\ k.last = IF k.n = 0 THEN "none" ELSE stored'[k.chat][k.n].role
  BY AnswersStay DEF ViewInv
<1> QED
  BY <1>1, <1>2 DEF AnswersTrue

LEMMA OpenedKeeps ==
  ASSUME ChatInv, NEW g \in gets, Opened(g)
  PROVE  ChatInv'
<1>1. ServerTypes' /\ AttachedWhereUploaded' /\ ServerGoesOn
  BY ServerRests, Zenon DEF Opened
<1>2. /\ g.kind \in {"click", "route"} /\ g.at = "answered"
      /\ gets' = gets \ {g} /\ current' = g.chat /\ shown' = Thread(g)
      /\ url' = g.chat /\ routed' = (routed \/ url # g.chat)
      /\ sending' = [sending EXCEPT !.left = sending.turn # 0]
      /\ UNCHANGED <<pending, upload, ops>>
  BY Zenon DEF Opened, SyncUrl
<1>3. g \in Gets /\ g.chat \in Chats /\ sending \in Sendings
  BY DEF ChatInv, ViewInv, ViewTypes, Gets
<1>4. /\ sending' \in Sendings /\ sending'.turn = sending.turn /\ sending'.stream = sending.stream
      /\ sending'.settled = sending.settled /\ (sending.turn # 0 => sending'.left = TRUE)
  <2>1. PICK b \in BOOLEAN : b = (sending.turn # 0)
    OBVIOUS
  <2>2. sending' = [sending EXCEPT !.left = b]
    BY <1>2, <2>1, Zenon
  <2> QED
    BY <1>3, <2>1, <2>2 DEF Sendings
<1>5. shown' \in Threads /\ shown'.chat = g.chat /\ shown'.extra = <<>>
  BY <1>2, <1>3 DEF Thread, Threads, Gets
<1>6. ViewTypes'
  BY <1>2, <1>3, <1>4, <1>5 DEF ChatInv, ViewInv, ViewTypes
<1>7. sending.turn # 0 => /\ Sends' /\ Sender'.chat = Sender.chat /\ Sender.chat \in Chats
                          /\ (chats[Sender.chat] # "unborn" => chats'[Sender'.chat] # "unborn")
  BY <1>1, <1>4, SenderStays DEF ChatInv, ViewInv
<1>8. Sends'
  <2>1. ASSUME sending.turn = 0 PROVE sending' = NotSending
    <3>1. sending = NotSending
      BY <2>1, Zenon DEF ChatInv, ViewInv, Sends
    <3>2. (sending.turn # 0) = FALSE
      BY <2>1
    <3>3. sending' = [NotSending EXCEPT !.left = FALSE]
      BY <1>2, <3>1, <3>2, Zenon
    <3> QED
      BY <3>3 DEF NotSending
  <2> QED
    BY <1>7, <2>1 DEF Sends, NotSending
<1>9. /\ Reconciling' /\ AnswersTrue'
      /\ \A k \in gets' : k.at = "answered" => chats'[k.chat] # "unborn"
  BY <1>1, <1>2, <1>4, GetsTaken DEF ChatInv
<1>10. Born'
  <2>1. chats'[g.chat] # "unborn"
    BY <1>1, <1>2, AnswersStay DEF ChatInv, ViewInv
  <2> QED
    BY <1>2, <1>4, <1>7, <1>9, <2>1 DEF ChatInv, ViewInv, Born
<1>11. OneThread' /\ UrlFollows'
  BY <1>2, <1>5 DEF OneThread, UrlFollows
<1>12. Settled'
  BY <1>4 DEF ChatInv, ViewInv, Settled
<1> QED
  BY <1>1, <1>6, <1>8, <1>9, <1>10, <1>11, <1>12 DEF ChatInv, ViewInv

LEMMA OpenFailedKeeps ==
  ASSUME ChatInv, NEW g \in gets, OpenFailed(g)
  PROVE  ChatInv'
<1>1. ServerTypes' /\ AttachedWhereUploaded' /\ ServerGoesOn
  BY ServerRests, Zenon DEF OpenFailed
<1>2. /\ g.kind \in {"click", "route"} /\ gets' = gets \ {g}
      /\ IF g.kind = "route" THEN current' = NoChat /\ url' = NoChat ELSE UNCHANGED <<current, url, routed>>
      /\ UNCHANGED <<shown, sending, pending, upload, ops>>
  BY Zenon DEF OpenFailed, SyncUrl
<1>3. routed' \in BOOLEAN
  BY DEF OpenFailed, SyncUrl, ChatInv, ViewInv, ViewTypes
<1>4. ViewTypes'
  BY <1>2, <1>3 DEF ChatInv, ViewInv, ViewTypes
<1>5. UrlFollows'
  BY <1>2 DEF ChatInv, ViewInv, UrlFollows
<1>6. CASE UNCHANGED current
  <2>1. Asking
    BY <1>2 DEF Asking
  <2>2. ViewInv'
    BY <1>1, <1>2, <1>4, <1>5, <1>6, <2>1, PageRests DEF ChatInv
  <2> QED
    BY <1>1, <2>2 DEF ChatInv
<1>7. CASE current' = NoChat
  <2>1. /\ Sends' /\ (sending.turn # 0 => Sender'.chat = Sender.chat /\ Sender.chat \in Chats)
        /\ sending.turn # 0 /\ chats[Sender.chat] # "unborn" => chats'[Sender'.chat] # "unborn"
    BY <1>1, <1>2, SendingRests DEF ChatInv, ViewInv
  <2>2. /\ Reconciling' /\ AnswersTrue'
        /\ \A k \in gets' : k.at = "answered" => chats'[k.chat] # "unborn"
    BY <1>1, <1>2, GetsTaken DEF ChatInv
  <2>3. Born'
    BY <1>2, <1>7, <2>1, <2>2 DEF Born, ChatInv, ViewInv
  <2>4. OneThread'
    BY <1>7 DEF OneThread
  <2>5. Settled'
    BY <1>2, <1>7, <2>1 DEF Settled, AtHome, ChatInv, ViewInv
  <2> QED
    BY <1>1, <1>4, <1>5, <2>1, <2>2, <2>3, <2>4, <2>5 DEF ChatInv, ViewInv
<1> QED
  BY <1>2, <1>6, <1>7

\* One more item at the end of the thread.
LEMMA ShownGrows ==
  ASSUME ViewTypes, NEW kind \in {"question", "reply", "notice"}, NEW t \in Turns \cup {0},
         NEW c \in Chats \cup {NoChat}, shown' = Show(kind, t, c)
  PROVE  /\ shown' \in Threads
         /\ kind # "question" => Replied'
         /\ OneThread /\ current' = current /\ (kind = "notice" \/ c = current) => OneThread'
         /\ shown'.extra # <<>> /\ shown'.extra[Len(shown'.extra)].kind = kind
<1>1. PICK m \in Items : m = Item(kind, t, c)
  BY DEF Item, Items
<1>2. m.kind = kind /\ m.chat = c
  BY <1>1 DEF Item
<1>3. shown \in Threads /\ shown.extra \in Seq(Items) /\ Len(shown.extra) \in Nat
  BY DEF ViewTypes, Threads
<1>4. PICK x : x = Append(shown.extra, m)
  OBVIOUS
<1>5. /\ x \in Seq(Items) /\ Len(x) = Len(shown.extra) + 1 /\ x # <<>>
      /\ x[Len(x)] = m /\ \A i \in 1..Len(shown.extra) : x[i] = shown.extra[i]
  BY <1>3, <1>4
<1>6. shown' = [shown EXCEPT !.extra = x]
  BY <1>1, <1>4, Zenon DEF Show
<1>7. shown' \in Threads /\ shown'.extra = x /\ shown'.chat = shown.chat
  BY <1>3, <1>5, <1>6 DEF Threads
<1>8. ASSUME OneThread, current' = current, kind = "notice" \/ c = current
      PROVE  OneThread'
  <2>1. ASSUME current # NoChat, NEW i \in 1..Len(x), x[i].kind # "notice"
        PROVE  x[i].chat = current
    <3>1. CASE i = Len(x)
      BY <1>2, <1>5, <1>8, <2>1, <3>1
    <3>2. CASE i # Len(x)
      <4>1. i \in 1..Len(shown.extra)
        BY <1>3, <1>5, <3>2
      <4> QED
        BY <1>5, <1>8, <2>1, <4>1 DEF OneThread
    <3> QED
      BY <3>1, <3>2
  <2> QED
    BY <1>7, <1>8, <2>1 DEF OneThread
<1> QED
  BY <1>2, <1>5, <1>7, <1>8 DEF Replied

LEMMA SendKeeps ==
  ASSUME ChatInv, NEW t \in Turns, Send(t)
  PROVE  ChatInv'
<1>1. /\ current # NoChat /\ sending.turn = 0 /\ t \in NextTurn
      /\ shown' = Show("question", t, current) /\ pending' = {}
      /\ sending' = [turn |-> t, stream |-> "open", settled |-> FALSE, left |-> FALSE]
      /\ Post(t, current, pending)
      /\ UNCHANGED <<current, url, routed, gets, upload, ops, chats, stored, titled, links, failures>>
  BY Zenon DEF Send
<1>2. current \in Chats /\ turn[t].at = "idle" /\ pending \subseteq Files /\ t # 0
  BY <1>1 DEF ChatInv, ViewInv, ViewTypes, NextTurn
<1>3. PICK r : r = [IdleTurn EXCEPT !.at = "check", !.chat = current, !.uploads = pending]
  OBVIOUS
<1>4. turn' = [turn EXCEPT ![t] = r]
  BY <1>1, <1>3, Zenon DEF Post
<1>5. r \in TurnRecords /\ r.at = "check" /\ r.chat = current
  <2>1. <<>> \in Seq(PromptMessages)
    OBVIOUS
  <2> QED
    BY <1>2, <1>3, <2>1 DEF IdleTurn, TurnRecords, TurnPcs, Checks
<1>6. turn \in [Turns -> TurnRecords]
  BY DEF ChatInv, ServerTypes, TurnsTyped
<1>7. turn'[t] = r /\ \A u \in Turns : u # t => turn'[u] = turn[u]
  BY <1>4, <1>6
<1>8. TurnsTyped' /\ TurnsGoOn
  BY <1>2, <1>4, <1>5, <1>6, <1>7 DEF ChatInv, ServerTypes, TurnsTyped, TurnsGoOn
<1>9. ServerTypes' /\ AttachedWhereUploaded'
  BY <1>1, <1>8 DEF ChatInv, ServerTypes, AttachedWhereUploaded
<1>10. \A c \in Chats : Len(stored[c]) \in Nat
  BY DEF ChatInv, ServerTypes
<1>11. ServerGoesOn
  BY <1>1, <1>8, <1>10 DEF ServerGoesOn
<1>12. shown' \in Threads /\ OneThread'
  BY <1>1, <1>2, ShownGrows DEF ChatInv, ViewInv
<1>13. sending'.turn = t /\ sending'.settled = FALSE /\ sending' \in Sendings
  BY <1>1 DEF Sendings
<1>14. ViewTypes'
  BY <1>1, <1>12, <1>13 DEF ChatInv, ViewInv, ViewTypes
<1>15. Sends' /\ Settled'
  BY <1>2, <1>5, <1>7, <1>13 DEF Sends, Settled
<1>16. \A g \in gets : g.kind # "reconcile"
  BY <1>1 DEF ChatInv, ViewInv, Reconciling
<1>17. Reconciling' /\ UrlFollows'
  BY <1>1, <1>16 DEF Reconciling, UrlFollows, ChatInv, ViewInv
<1>18. Born'
  BY <1>1, <1>5, <1>7, <1>13 DEF Born, Sender, ChatInv, ViewInv
<1>19. AnswersTrue'
  BY <1>1 DEF AnswersTrue, ChatInv, ViewInv
<1> QED
  BY <1>9, <1>12, <1>14, <1>15, <1>17, <1>18, <1>19 DEF ChatInv, ViewInv

\* What the page does about the stream while it is open: the turn stays.
LEMMA StreamKeeps ==
  ASSUME ChatInv, UNCHANGED serverVars, sending.turn # 0, sending.stream # "reconcile",
         sending' \in Sendings, sending'.turn = sending.turn, Settled',
         shown' \in Threads, OneThread', gets' = gets,
         UNCHANGED <<current, url, routed, pending, upload, ops>>
  PROVE  ChatInv'
<1>1. ServerTypes' /\ AttachedWhereUploaded' /\ ServerGoesOn
  BY ServerRests
<1>2. ViewTypes' /\ UrlFollows'
  BY DEF ChatInv, ViewInv, ViewTypes, UrlFollows
<1>3. /\ Sends' /\ Sender'.chat = Sender.chat
      /\ chats[Sender.chat] # "unborn" => chats'[Sender'.chat] # "unborn"
  BY <1>1, SenderStays DEF ChatInv, ViewInv
<1>4. \A g \in gets : g.kind # "reconcile"
  BY DEF ChatInv, ViewInv, Reconciling
<1>5. Reconciling'
  BY <1>4 DEF Reconciling
<1>6. chats' = chats /\ stored' = stored
  BY Zenon DEF serverVars
<1>7. AnswersTrue' /\ Born'
  BY <1>3, <1>6 DEF AnswersTrue, Born, ChatInv, ViewInv
<1> QED
  BY <1>1, <1>2, <1>3, <1>5, <1>7 DEF ChatInv, ViewInv

LEMMA VerdictKeeps ==
  ASSUME ChatInv, Verdict
  PROVE  ChatInv'
<1>1. /\ sending.turn # 0 /\ sending.stream = "open"
      /\ IF Hears
         THEN /\ sending' = [sending EXCEPT !.stream = "closed", !.settled = TRUE]
              /\ shown' = IF Sender.event = "done" THEN Show("reply", sending.turn, Sender.chat)
                                                   ELSE Notice(Sender.chat)
         ELSE sending' = [sending EXCEPT !.stream = "closed"] /\ UNCHANGED shown
      /\ UNCHANGED <<current, url, routed, gets, pending, upload, ops>> /\ UNCHANGED serverVars
  BY Zenon DEF Verdict
<1>2. sending \in Sendings /\ sending.turn \in Turns
  BY <1>1 DEF ChatInv, ViewInv, ViewTypes, Sendings
<1>3. Sender.chat \in Chats
  BY <1>1, <1>2 DEF ChatInv, ViewInv, Sends, Sender, ServerTypes, TurnsTyped
<1>4. ~ sending.settled
  BY <1>1 DEF ChatInv, ViewInv, Settled
<1>5. CASE Hears
  <2>1. /\ sending' \in Sendings /\ sending'.turn = sending.turn /\ sending'.stream = "closed"
    BY <1>1, <1>2, <1>5 DEF Sendings
  <2>2. \E kind \in {"reply", "notice"}, u \in Turns \cup {0} : shown' = Show(kind, u, Sender.chat)
    BY <1>1, <1>2, <1>5 DEF Notice
  <2>3. shown' \in Threads /\ Replied' /\ OneThread'
    BY <1>1, <1>3, <1>5, <2>2, ShownGrows DEF ChatInv, ViewInv, Hears, AtHome
  <2>4. Settled'
    BY <2>1, <2>3 DEF Settled
  <2> QED
    BY <1>1, <2>1, <2>3, <2>4, StreamKeeps
<1>6. CASE ~ Hears
  <2>1. /\ sending' \in Sendings /\ sending'.turn = sending.turn /\ sending'.stream = "closed"
        /\ sending'.settled = sending.settled /\ shown' = shown
    BY <1>1, <1>2, <1>6 DEF Sendings
  <2>2. shown' \in Threads /\ OneThread'
    BY <1>1, <2>1 DEF ChatInv, ViewInv, ViewTypes, OneThread
  <2>3. Settled'
    BY <1>4, <2>1 DEF Settled
  <2> QED
    BY <1>1, <2>1, <2>2, <2>3, StreamKeeps
<1> QED
  BY <1>5, <1>6

LEMMA StreamDropsKeeps ==
  ASSUME ChatInv, StreamDrops
  PROVE  ChatInv'
<1>1. /\ sending.turn # 0 /\ sending.stream = "open"
      /\ sending' = [sending EXCEPT !.stream = "closed"]
      /\ UNCHANGED <<current, url, routed, shown, gets, pending, upload, ops>> /\ UNCHANGED serverVars
  BY Zenon DEF StreamDrops
<1>2. sending \in Sendings
  BY DEF ChatInv, ViewInv, ViewTypes
<1>3. ~ sending.settled
  BY <1>1 DEF ChatInv, ViewInv, Settled
<1>4. /\ sending' \in Sendings /\ sending'.turn = sending.turn /\ sending'.settled = sending.settled
  BY <1>1, <1>2 DEF Sendings
<1>5. shown' \in Threads /\ OneThread' /\ Settled'
  BY <1>1, <1>3, <1>4 DEF ChatInv, ViewInv, ViewTypes, OneThread, Settled
<1> QED
  BY <1>1, <1>4, <1>5, StreamKeeps

\* The send is over: whoever looked for its reply has found out.
LEMMA SendOver ==
  ASSUME ChatInv, UNCHANGED serverVars, sending' = NotSending, gets' \subseteq gets,
         \A g \in gets : g.kind = "reconcile" \/ g \in gets',
         \A g \in gets' : g.kind # "reconcile",
         shown' \in Threads, OneThread',
         UNCHANGED <<current, url, routed, pending, upload, ops>>
  PROVE  ChatInv'
<1>1. ServerTypes' /\ AttachedWhereUploaded'
  BY ServerRests
<1>2. sending' \in Sendings /\ sending'.turn = 0
  BY DEF NotSending, Sendings
<1>3. ViewTypes'
  BY <1>2 DEF ChatInv, ViewInv, ViewTypes
<1>4. UrlFollows'
  BY DEF ChatInv, ViewInv, UrlFollows
<1>5. Sends' /\ Settled' /\ Reconciling'
  BY <1>2 DEF Sends, Settled, Reconciling
<1>6. chats' = chats /\ stored' = stored
  BY Zenon DEF serverVars
<1>7. AnswersTrue' /\ Born'
  BY <1>2, <1>6 DEF AnswersTrue, Born, ChatInv, ViewInv
<1> QED
  BY <1>1, <1>3, <1>4, <1>5, <1>7 DEF ChatInv, ViewInv

LEMMA StreamEndsKeeps ==
  ASSUME ChatInv, StreamEnds
  PROVE  ChatInv'
<1>1. /\ sending.turn # 0 /\ sending.stream = "closed"
      /\ IF MustReconcile
         THEN /\ gets' = gets \cup {[Get("reconcile", Sender.chat) EXCEPT !.id = - sending.turn]}
              /\ sending' = [sending EXCEPT !.stream = "reconcile"]
         ELSE sending' = NotSending /\ UNCHANGED gets
      /\ UNCHANGED <<current, url, routed, shown, pending, upload, ops>> /\ UNCHANGED serverVars
  BY Zenon DEF StreamEnds
<1>2. sending \in Sendings /\ sending.turn \in Turns /\ ops \in Nat
  BY <1>1 DEF ChatInv, ViewInv, ViewTypes, Sendings
<1>3. Sender.chat \in Chats
  BY <1>1, <1>2 DEF ChatInv, ViewInv, Sends, Sender, ServerTypes, TurnsTyped
<1>4. \A g \in gets : g.kind # "reconcile"
  BY <1>1 DEF ChatInv, ViewInv, Reconciling
<1>5. shown' \in Threads /\ OneThread'
  BY <1>1 DEF ChatInv, ViewInv, ViewTypes, OneThread
<1>6. CASE ~ MustReconcile
  BY <1>1, <1>4, <1>5, <1>6, SendOver
<1>7. CASE MustReconcile
  <2>1. PICK h : h = [Get("reconcile", Sender.chat) EXCEPT !.id = - sending.turn]
    OBVIOUS
  <2>2. h \in Gets /\ h.kind = "reconcile" /\ h.chat = Sender.chat /\ h.at = "asked"
    BY <1>2, <1>3, <2>1 DEF Get, Gets
  <2>3. gets' = gets \cup {h} /\ sending' = [sending EXCEPT !.stream = "reconcile"]
    BY <1>1, <1>7, <2>1, Zenon
  <2>4. sending' \in Sendings /\ sending'.turn = sending.turn /\ sending'.stream = "reconcile"
        /\ sending'.settled = sending.settled /\ ~ sending.settled
    BY <1>2, <1>7, <2>3 DEF Sendings, MustReconcile
  <2>5. ServerTypes' /\ AttachedWhereUploaded' /\ ServerGoesOn
    BY <1>1, ServerRests
  <2>6. ViewTypes'
    BY <1>1, <1>5, <2>2, <2>3, <2>4 DEF ChatInv, ViewInv, ViewTypes
  <2>7. /\ Sends' /\ Sender'.chat = Sender.chat
        /\ chats[Sender.chat] # "unborn" => chats'[Sender'.chat] # "unborn"
    BY <1>1, <2>4, <2>5, SenderStays DEF ChatInv, ViewInv
  <2>8. Reconciling'
    BY <1>1, <1>4, <2>2, <2>3, <2>4, <2>7 DEF Reconciling
  <2>9. UrlFollows' /\ Settled'
    BY <1>1, <2>3, <2>4 DEF UrlFollows, Settled, ChatInv, ViewInv
  <2>10. chats' = chats /\ stored' = stored
    BY <1>1, Zenon DEF serverVars
  <2>11. AnswersTrue'
    BY <2>2, <2>3, <2>10 DEF AnswersTrue, ChatInv, ViewInv
  <2>12. Born'
    BY <1>1, <2>2, <2>3, <2>4, <2>7, <2>10 DEF Born, ChatInv, ViewInv
  <2> QED
    BY <1>5, <2>5, <2>6, <2>7, <2>8, <2>9, <2>11, <2>12 DEF ChatInv, ViewInv
<1> QED
  BY <1>6, <1>7

LEMMA ReconciledKeeps ==
  ASSUME ChatInv, NEW g \in gets, Reconciled(g) \/ ReconcileFailed(g)
  PROVE  ChatInv'
<1>1. /\ g.kind = "reconcile" /\ gets' = gets \ {g} /\ sending' = NotSending
      /\ UNCHANGED <<current, url, routed, pending, upload, ops>> /\ UNCHANGED serverVars
  BY Zenon DEF Reconciled, ReconcileFailed
<1>2. g \in Gets
  BY DEF ChatInv, ViewInv, ViewTypes
<1>3. /\ \A k \in gets' : k.kind # "reconcile"
      /\ \A k \in gets : k.kind = "reconcile" \/ k \in gets'
      /\ gets' \subseteq gets /\ g.chat = Sender.chat
  BY <1>1 DEF ChatInv, ViewInv, Reconciling
<1>4. shown' \in Threads /\ OneThread'
  <2>1. CASE ReconcileFailed(g)
    <3>1. shown' = Show("notice", 0, g.chat)
      BY <2>1, Zenon DEF ReconcileFailed, Notice
    <3> QED
      BY <1>1, <1>2, <3>1, ShownGrows DEF ChatInv, ViewInv, Gets
  <2>2. CASE Reconciled(g) /\ ~ AtHome
    <3>1. shown' = shown
      BY <2>2, Zenon DEF Reconciled
    <3> QED
      BY <1>1, <3>1 DEF ChatInv, ViewInv, ViewTypes, OneThread
  <2>3. CASE Reconciled(g) /\ AtHome
    <3>1. Thread(g) \in Threads /\ Thread(g).chat = g.chat /\ Thread(g).extra = <<>>
      BY <1>2 DEF Thread, Threads, Gets
    <3>2. CASE g.last = "assistant"
      <4>1. shown' = Thread(g)
        BY <2>3, <3>2, Zenon DEF Reconciled
      <4> QED
        BY <1>1, <1>3, <2>3, <3>1, <4>1 DEF OneThread, AtHome
    <3>3. CASE g.last # "assistant"
      <4>1. PICK m \in Items : m = Item("notice", 0, g.chat)
        BY <1>2 DEF Item, Items, Gets
      <4>2. m.kind = "notice"
        BY <4>1 DEF Item
      <4>3. PICK x : x = <<m>>
        OBVIOUS
      <4>4. x \in Seq(Items) /\ Len(x) = 1 /\ x[1] = m
        BY <4>3
      <4>5. shown' = [Thread(g) EXCEPT !.extra = x]
        BY <2>3, <3>3, <4>1, <4>3, Zenon DEF Reconciled
      <4>6. shown' \in Threads /\ shown'.chat = g.chat /\ shown'.extra = x
        BY <3>1, <4>4, <4>5 DEF Threads
      <4>7. current' = g.chat /\ \A i \in 1..Len(x) : x[i].kind = "notice"
        BY <1>1, <1>3, <2>3, <4>2, <4>4 DEF AtHome
      <4> QED
        BY <4>6, <4>7 DEF OneThread
    <3> QED
      BY <3>2, <3>3
  <2> QED
    BY <2>1, <2>2, <2>3
<1> QED
  BY <1>1, <1>3, <1>4, SendOver

LEMMA UploadKeeps ==
  ASSUME ChatInv, Upload
  PROVE  ChatInv'
<1>1. ServerTypes' /\ AttachedWhereUploaded' /\ ServerGoesOn
  BY ServerRests, Zenon DEF Upload
<1>2. /\ upload' = current /\ ops' = ops + 1
      /\ UNCHANGED <<current, url, routed, shown, gets, sending, pending>>
  BY Zenon DEF Upload, Operation
<1>3. ViewTypes' /\ UrlFollows' /\ Asking
  BY <1>2 DEF ChatInv, ViewInv, ViewTypes, UrlFollows, Asking
<1>4. ViewInv'
  BY <1>1, <1>2, <1>3, PageRests DEF ChatInv
<1> QED
  BY <1>1, <1>4 DEF ChatInv

LEMMA UploadedKeeps ==
  ASSUME ChatInv, Uploaded
  PROVE  ChatInv'
<1>1. ServerTypes' /\ AttachedWhereUploaded' /\ ServerGoesOn
  BY ServerRests, Zenon DEF Uploaded
<1>2. upload # NoChat /\ upload' = NoChat /\ UNCHANGED <<current, url, routed, gets, sending, ops>>
  BY Zenon DEF Uploaded
<1>3. upload \in Chats
  BY <1>2 DEF ChatInv, ViewInv, ViewTypes
<1>4. CASE UNCHANGED shown
  <2>1. pending' \subseteq Files
    <3>1. [chat |-> upload, name |-> 0] \in Files
      BY <1>3 DEF Files
    <3>2. pending' \subseteq pending \cup {[chat |-> upload, name |-> 0]}
      BY DEF Uploaded
    <3> QED
      BY <3>1, <3>2 DEF ChatInv, ViewInv, ViewTypes
  <2>2. ViewTypes' /\ UrlFollows' /\ Asking
    BY <1>2, <1>4, <2>1 DEF ChatInv, ViewInv, ViewTypes, UrlFollows, Asking
  <2>3. ViewInv'
    BY <1>1, <1>2, <1>4, <2>2, PageRests DEF ChatInv
  <2> QED
    BY <1>1, <2>3 DEF ChatInv
<1>5. CASE shown' = Notice(upload) /\ UNCHANGED pending
  <2>1. shown' \in Threads /\ Replied' /\ OneThread'
    BY <1>2, <1>3, <1>5, ShownGrows DEF ChatInv, ViewInv, Notice
  <2>2. ViewTypes' /\ UrlFollows' /\ Asking
    BY <1>2, <1>5, <2>1 DEF ChatInv, ViewInv, ViewTypes, UrlFollows, Asking
  <2>3. /\ Sends' /\ (sending.turn # 0 => Sender'.chat = Sender.chat)
        /\ sending.turn # 0 /\ chats[Sender.chat] # "unborn" => chats'[Sender'.chat] # "unborn"
    BY <1>1, <1>2, SendingRests DEF ChatInv, ViewInv
  <2>4. /\ Reconciling' /\ AnswersTrue'
        /\ \A g \in gets' : g.at = "answered" => chats'[g.chat] # "unborn"
    BY <1>1, <1>2, <2>2, GetsAsked DEF ChatInv
  <2>5. Born'
    <3>1. current # NoChat => chats'[current] # "unborn"
      BY <1>1 DEF ChatInv, ViewInv, Born, ViewTypes, ServerGoesOn
    <3> QED
      BY <1>2, <2>3, <2>4, <3>1 DEF Born, ChatInv, ViewInv
  <2>6. Settled'
    BY <1>2, <2>1 DEF Settled, ChatInv, ViewInv
  <2> QED
    BY <1>1, <2>1, <2>2, <2>3, <2>4, <2>5, <2>6 DEF ChatInv, ViewInv
<1> QED
  BY <1>4, <1>5, Zenon DEF Uploaded

\* Another conversation, new or none, is shown at once.
LEMMA ShowsOther ==
  ASSUME ChatInv, ServerTypes', AttachedWhereUploaded', ServerGoesOn,
         NEW c \in Chats \cup {NoChat}, current' = c, shown' = Empty(c), SyncUrl(c),
         c # NoChat => chats'[c] # "unborn",
         sending.turn # 0 => Sender.chat # c,
         ops' = ops + 1, UNCHANGED <<gets, sending, pending, upload>>
  PROVE  ChatInv'
<1>1. /\ shown' \in Threads /\ shown'.chat = c /\ shown'.extra = <<>>
  <2>1. <<>> \in Seq(Items)
    OBVIOUS
  <2> QED
    BY <2>1 DEF Empty, Threads
<1>2. url' = c /\ routed' \in BOOLEAN
  BY DEF SyncUrl, ChatInv, ViewInv, ViewTypes
<1>3. ViewTypes' /\ UrlFollows' /\ OneThread' /\ Asking
  BY <1>1, <1>2 DEF ChatInv, ViewInv, ViewTypes, UrlFollows, OneThread, Asking
<1>4. /\ Sends' /\ (sending.turn # 0 => Sender'.chat = Sender.chat)
      /\ sending.turn # 0 /\ chats[Sender.chat] # "unborn" => chats'[Sender'.chat] # "unborn"
  BY SendingRests DEF ChatInv, ViewInv
<1>5. /\ Reconciling' /\ AnswersTrue'
      /\ \A g \in gets' : g.at = "answered" => chats'[g.chat] # "unborn"
  BY <1>3, GetsAsked DEF ChatInv
<1>6. Born'
  BY <1>4, <1>5 DEF Born, ChatInv, ViewInv
<1>7. Settled'
  BY <1>4 DEF Settled, AtHome, ChatInv, ViewInv
<1> QED
  BY <1>3, <1>4, <1>5, <1>6, <1>7 DEF ChatInv, ViewInv

LEMMA NewChatKeeps ==
  ASSUME ChatInv, NEW c \in Chats, NewChat(c)
  PROVE  ChatInv'
<1>1. /\ chats[c] = "unborn" /\ chats' = [chats EXCEPT ![c] = "live"]
      /\ UNCHANGED <<stored, titled, links, turn, failures>>
      /\ current' = c /\ shown' = Empty(c) /\ SyncUrl(c) /\ ops' = ops + 1
      /\ UNCHANGED <<gets, sending, pending, upload>>
  BY Zenon DEF NewChat, CreateChat, Operation
<1>2. ServerTypes' /\ AttachedWhereUploaded'
  BY <1>1 DEF ChatInv, ServerTypes, TurnsTyped, AttachedWhereUploaded
<1>3. /\ \A d \in Chats : d # c => chats'[d] = chats[d]
      /\ chats'[c] = "live"
  BY <1>1 DEF ChatInv, ServerTypes
<1>4. \A d \in Chats : Len(stored[d]) \in Nat
  BY DEF ChatInv, ServerTypes
<1>5. ServerGoesOn
  BY <1>1, <1>3, <1>4 DEF ServerGoesOn, TurnsGoOn
<1>6. sending.turn # 0 => Sender.chat # c
  BY <1>1 DEF ChatInv, ViewInv, Born
<1> QED
  BY <1>1, <1>2, <1>3, <1>5, <1>6, ShowsOther

LEMMA DeleteConversationKeeps ==
  ASSUME ChatInv, NEW c \in Chats, DeleteConversation(c)
  PROVE  ChatInv'
<1>1. /\ chats[c] = "live" /\ stored' = [stored EXCEPT ![c] = <<>>]
      /\ links' = {l \in links : l.chat # c} /\ titled' = titled \ {c}
      /\ chats' = [chats EXCEPT ![c] = "deleted"] /\ UNCHANGED <<turn, failures>>
      /\ IF current = c THEN current' = NoChat /\ shown' = Empty(NoChat) /\ SyncUrl(NoChat)
                        ELSE UNCHANGED <<current, shown, url, routed>>
      /\ ops' = ops + 1
      /\ UNCHANGED <<gets, sending, pending, upload>>
  BY Zenon DEF DeleteConversation, DeleteChat, Operation, GoHome
<1>2. ServerTypes' /\ AttachedWhereUploaded'
  <2>1. <<>> \in Seq(StoredMessages)
    OBVIOUS
  <2>2. stored' \in [Chats -> Seq(StoredMessages)]
    BY <1>1, <2>1 DEF ChatInv, ServerTypes
  <2> QED
    BY <1>1, <2>2 DEF ChatInv, ServerTypes, TurnsTyped, AttachedWhereUploaded
<1>3. /\ \A d \in Chats : d # c => chats'[d] = chats[d] /\ stored'[d] = stored[d]
      /\ chats'[c] = "deleted"
  BY <1>1 DEF ChatInv, ServerTypes
<1>4. \A d \in Chats : Len(stored[d]) \in Nat
  BY DEF ChatInv, ServerTypes
<1>5. ServerGoesOn
  BY <1>1, <1>3, <1>4 DEF ServerGoesOn, TurnsGoOn
<1>6. CASE current = c
  <2>1. sending.turn # 0 => Sender.chat # NoChat
    <3>1. sending.turn # 0 => Sender.chat \in Chats
      BY <1>1, <1>5, SendingRests DEF ChatInv, ViewInv
    <3> QED
      BY <3>1
  <2> QED
    BY <1>1, <1>2, <1>5, <1>6, <2>1, ShowsOther
<1>7. CASE current # c
  <2>1. ViewTypes' /\ UrlFollows' /\ Asking
    BY <1>1, <1>7 DEF ChatInv, ViewInv, ViewTypes, UrlFollows, Asking
  <2>2. ViewInv'
    BY <1>1, <1>5, <1>7, <2>1, PageRests DEF ChatInv
  <2> QED
    BY <1>2, <2>2 DEF ChatInv
<1> QED
  BY <1>6, <1>7

LEMMA ChatInitInv == ChatInit => ChatInv
<1> SUFFICES ASSUME ChatInit PROVE ChatInv
  OBVIOUS
<1>1. ServerTypes /\ AttachedWhereUploaded
  BY ServerInitTypes DEF ChatInit
<1>2. /\ current = NoChat /\ url \in FirstChats \cup {NoChat} /\ routed = TRUE
      /\ shown = Empty(NoChat) /\ gets = {} /\ sending = NotSending
      /\ pending = {} /\ upload = NoChat /\ ops = 0
  BY Zenon DEF ChatInit, ViewInit
<1>3. Empty(NoChat) \in Threads /\ NotSending \in Sendings /\ NotSending.turn = 0
  <2>1. <<>> \in Seq(Items)
    OBVIOUS
  <2> QED
    BY <2>1 DEF Empty, Threads, NotSending, Sendings
<1>4. ViewTypes
  BY <1>2, <1>3 DEF ViewTypes
<1>5. Sends /\ Reconciling /\ Born /\ OneThread /\ UrlFollows /\ AnswersTrue /\ Settled
  BY <1>2, <1>3 DEF Sends, Reconciling, Born, OneThread, UrlFollows, AnswersTrue, Settled
<1> QED
  BY <1>1, <1>4, <1>5 DEF ChatInv, ViewInv

LEMMA ChatNextInv == ChatInv /\ [ChatNext]_chatVars => ChatInv'
<1> SUFFICES ASSUME ChatInv, [ChatNext]_chatVars PROVE ChatInv'
  OBVIOUS
<1>1. CASE Gateway
  BY <1>1, GatewayKeeps
<1>2. CASE Page
  <2>1. CASE \E c \in Chats : Click(c) \/ NewChat(c) \/ DeleteConversation(c)
    BY <2>1, ClickKeeps, NewChatKeeps, DeleteConversationKeeps
  <2>2. CASE \E c \in Chats \cup {NoChat} : Navigate(c)
    BY <2>2, NavigateKeeps
  <2>3. CASE \E t \in Turns : Send(t)
    BY <2>3, SendKeeps
  <2>4. CASE \E g \in gets : LoseRequest(g)
    BY <2>4, LoseRequestKeeps
  <2>5. CASE Responses
    BY <2>5, ServeKeeps, OpenedKeeps, OpenFailedKeeps, ReconciledKeeps DEF Responses
  <2>6. CASE ApplyRoute
    BY <2>6, ApplyRouteKeeps
  <2>7. CASE Verdict \/ StreamDrops \/ StreamEnds
    BY <2>7, VerdictKeeps, StreamDropsKeeps, StreamEndsKeeps
  <2>8. CASE Upload \/ Uploaded
    BY <2>8, UploadKeeps, UploadedKeeps
  <2> QED
    BY <1>2, <2>1, <2>2, <2>3, <2>4, <2>5, <2>6, <2>7, <2>8, Zenon DEF Page
<1>3. CASE UNCHANGED chatVars
  <2>1. UNCHANGED serverVars /\ UNCHANGED <<current, url, routed, shown, gets, sending, pending, upload, ops>>
    BY <1>3, Zenon DEF chatVars, viewVars
  <2>2. ServerTypes' /\ AttachedWhereUploaded' /\ ServerGoesOn
    BY <2>1, ServerRests
  <2>3. ViewTypes' /\ UrlFollows' /\ Asking
    BY <2>1 DEF ChatInv, ViewInv, ViewTypes, UrlFollows, Asking
  <2>4. ViewInv'
    BY <2>1, <2>2, <2>3, PageRests DEF ChatInv
  <2> QED
    BY <2>2, <2>4 DEF ChatInv
<1> QED
  BY <1>1, <1>2, <1>3 DEF ChatNext

(* The inductive invariant of the page over the gateway: types, which requests *)
(* and turns there are, and what an answer that waits to be applied still says. *)
THEOREM ChatInvariance == ChatSpec => []ChatInv
<1> QED
  BY ChatInitInv, ChatNextInv, PTL DEF ChatSpec

(* A file the browser still holds from another conversation is not linked into  *)
(* the one a message is sent to (linkAttachmentsToMessage).                     *)
THEOREM FilesStayHome == ChatSpec => []AttachedWhereUploaded
<1>1. ChatInv => AttachedWhereUploaded
  BY DEF ChatInv
<1> QED
  BY <1>1, ChatInvariance, PTL

(* However the answers of overlapping requests and the events of a turn are      *)
(* ordered, the page shows one conversation, and the URL names it once the page *)
(* is at rest (open, applyRoute, syncUrl).                                      *)
THEOREM OneChatShown == ChatSpec => []PageShowsOneChat
<1>1. ChatInv => PageShowsOneChat
  BY DEF ChatInv, ViewInv, OneThread, UrlFollows, PageShowsOneChat
<1> QED
  BY <1>1, ChatInvariance, PTL

\* Where a send ends: after a verdict, or after the page has looked for the reply.
LEMMA SendEndsAnswered ==
  ASSUME ChatInv, [ChatNext]_chatVars,
         sending.turn # 0, sending'.turn = 0, AtHome, ~ sending.left, chats[current] = "live"
  PROVE  EndsWith' \notin {"question", "user"}
<1>1. sending \in Sendings /\ Sender.chat = current
  BY DEF ChatInv, ViewInv, ViewTypes, AtHome
<1>2. sending' # sending
  OBVIOUS
<1>3. CASE StreamEnds
  <2>1. sending.settled /\ shown' = shown
    <3>1. shown' = shown /\ (MustReconcile => sending' = [sending EXCEPT !.stream = "reconcile"])
      BY <1>3, Zenon DEF StreamEnds
    <3>2. [sending EXCEPT !.stream = "reconcile"].turn = sending.turn
      BY <1>1 DEF Sendings
    <3>3. ~ MustReconcile
      BY <3>1, <3>2
    <3> QED
      BY <3>1, <3>3 DEF MustReconcile
  <2>2. Replied
    BY <2>1 DEF ChatInv, ViewInv, Settled
  <2>3. EndsWith' = shown.extra[Len(shown.extra)].kind
    BY <2>1, <2>2 DEF EndsWith, Replied
  <2>4. shown.extra[Len(shown.extra)].kind \in {"question", "reply", "notice"}
    <3>1. shown.extra \in Seq(Items) /\ shown.extra # <<>>
      BY <2>2 DEF ChatInv, ViewInv, ViewTypes, Threads, Replied
    <3>2. shown.extra[Len(shown.extra)] \in Items
      BY <3>1
    <3> QED
      BY <3>2 DEF Items
  <2> QED
    BY <2>2, <2>3, <2>4 DEF Replied
<1>4. ASSUME NEW g \in gets, ReconcileFailed(g)
      PROVE  EndsWith' \notin {"question", "user"}
  <2>1. shown' = Show("notice", 0, g.chat)
    BY <1>4, Zenon DEF ReconcileFailed, Notice
  <2>2. g.chat \in Chats
    BY DEF ChatInv, ViewInv, ViewTypes, Gets
  <2>3. shown'.extra # <<>> /\ shown'.extra[Len(shown'.extra)].kind = "notice"
    BY <2>1, <2>2, ShownGrows DEF ChatInv, ViewInv
  <2> QED
    BY <2>3 DEF EndsWith
<1>5. ASSUME NEW g \in gets, Reconciled(g)
      PROVE  EndsWith' \notin {"question", "user"}
  <2>1. /\ g.kind = "reconcile" /\ g.at = "answered" /\ chats' = chats /\ stored' = stored
        /\ shown' = IF ~ AtHome THEN shown
                    ELSE IF g.last = "assistant" THEN Thread(g)
                    ELSE [Thread(g) EXCEPT !.extra = <<Item("notice", 0, g.chat)>>]
    BY <1>5, Zenon DEF Reconciled, serverVars
  <2>2. g \in Gets /\ g.chat = current
    BY <1>1, <2>1 DEF ChatInv, ViewInv, ViewTypes, Reconciling
  <2>3. CASE g.last = "assistant"
    <3>1. shown' = Thread(g)
      BY <2>1, <2>3, Zenon
    <3>2. shown'.extra = <<>> /\ shown'.n = g.n /\ shown'.chat = g.chat
      BY <3>1 DEF Thread
    <3>3. g.last = IF g.n = 0 THEN "none" ELSE stored[g.chat][g.n].role
      BY <2>1, <2>2 DEF ChatInv, ViewInv, AnswersTrue
    <3>4. EndsWith' = "assistant"
      BY <2>1, <2>3, <3>2, <3>3 DEF EndsWith
    <3> QED
      BY <3>4
  <2>4. CASE g.last # "assistant"
    <3>1. PICK m : m = Item("notice", 0, g.chat)
      OBVIOUS
    <3>2. m.kind = "notice"
      BY <3>1 DEF Item
    <3>3. shown' = [Thread(g) EXCEPT !.extra = <<m>>]
      BY <2>1, <2>4, <3>1, Zenon
    <3>4. shown'.extra = <<m>>
      BY <3>3 DEF Thread
    <3>5. EndsWith' = "notice"
      BY <3>2, <3>4 DEF EndsWith
    <3> QED
      BY <3>5
  <2> QED
    BY <2>3, <2>4
<1>6. CASE Verdict \/ StreamDrops
  <2>1. sending' = [sending EXCEPT !.stream = "closed", !.settled = TRUE]
        \/ sending' = [sending EXCEPT !.stream = "closed"]
    BY <1>6, Zenon DEF Verdict, StreamDrops
  <2> QED
    BY <1>1, <2>1 DEF Sendings
<1>7. ASSUME NEW g \in gets, Opened(g) PROVE FALSE
  <2>1. PICK b : b = (sending.turn # 0)
    OBVIOUS
  <2>2. sending' = [sending EXCEPT !.left = b]
    BY <1>7, <2>1, Zenon DEF Opened
  <2> QED
    BY <1>1, <2>2 DEF Sendings
<1>8. CASE \E t \in Turns : Send(t)
  BY <1>8, Zenon DEF Send
<1>9. CASE Gateway \/ UNCHANGED chatVars
  BY <1>2, <1>9, Zenon DEF Gateway, chatVars, viewVars
<1>10. CASE \/ \E c \in Chats : Click(c) \/ NewChat(c) \/ DeleteConversation(c)
            \/ \E c \in Chats \cup {NoChat} : Navigate(c)
  BY <1>2, <1>10, Zenon DEF Click, NewChat, DeleteConversation, Navigate
<1>11. CASE \/ \E g \in gets : LoseRequest(g) \/ Serve(g) \/ OpenFailed(g)
            \/ ApplyRoute \/ Upload \/ Uploaded
  BY <1>2, <1>11, Zenon DEF LoseRequest, Serve, OpenFailed, ApplyRoute, Upload, Uploaded
<1> QED
  BY <1>3, <1>4, <1>5, <1>6, <1>7, <1>8, <1>9, <1>10, <1>11, Zenon DEF ChatNext, Page, Responses

(* A user who stays in the conversation is answered or told, at whatever moment *)
(* the stream, the turn or the process went away (send, reconcile).             *)
THEOREM NeverBare == ChatSpec => NoBareQuestion
<1>1. ChatInv /\ [ChatNext]_chatVars =>
        [sending.turn # 0 /\ sending'.turn = 0 /\ AtHome /\ ~ sending.left
           /\ chats[current] = "live" => EndsWith' \notin {"question", "user"}]_chatVars
  BY SendEndsAnswered
<1> QED
  BY <1>1, ChatInvariance, PTL DEF ChatSpec, NoBareQuestion

-----------------------------------------------------------------------------
(* The rounds of a turn: all its calls are answered when the model is asked, and  *)
(* while its tools run the last call waits for the results that are still owed.   *)
LastCall(p, k) == /\ k \in 2..Len(p) /\ p[k].role = "call"
                  /\ \A j \in (k + 1)..Len(p) : p[j].role = "tool"
Between(p, n) == Answered(Wire(p)) /\ Cardinality(Uses(Wire(p))) = n
Within(p, n) ==
  /\ Cardinality(Uses(Wire(p))) = n + 1
  /\ \E k \in 2..Len(p) : \E u \in 1..Len(Wire(p)) :
        /\ LastCall(p, k) /\ Len(p) - k < p[k].calls
        /\ Waiting(Wire(p), u, Len(p) - k) /\ Len(Wire(p)[u].blocks) = p[k].calls

\* The calls and the results of the tools come after all that was said.
LEMMA BuiltMore ==
  ASSUME NEW p, WellBuilt(p), NEW m \in Good, m.role \in {"call", "tool"}
  PROVE  WellBuilt(Append(p, m))
<1>1. p \in Seq(Good) /\ Len(p) \in Nat
  BY DEF WellBuilt
<1>2. PICK q : q = Append(p, m)
  OBVIOUS
<1>3. PICK n \in Nat : n = Len(p) /\ n >= 2
  BY <1>1 DEF WellBuilt
<1>4. q \in Seq(Good) /\ Len(q) = n + 1 /\ q[n + 1] = m /\ \A i \in 1..n : q[i] = p[i]
  BY <1>1, <1>2, <1>3
<1>5. \A i \in 2..Len(q) : (i \in 2..n /\ q[i] = p[i]) \/ (i = n + 1 /\ q[i] = m)
  BY <1>4
<1>6. q[1] = p[1] /\ q[2] = p[2]
  BY <1>3, <1>4
<1>7. \A i \in 2..Len(q) : q[i].role # "system"
  BY <1>3, <1>5 DEF WellBuilt
<1>8. ASSUME NEW i \in 2..Len(q), NEW j \in 2..Len(q), i < j, Said(q[j]) PROVE Said(q[i])
  <2>1. j # n + 1
    BY <1>5, <1>8 DEF Said
  <2>2. j \in 2..n /\ q[j] = p[j] /\ i \in 2..n /\ q[i] = p[i]
    BY <1>3, <1>4, <1>5, <1>8, <2>1
  <2> QED
    BY <1>3, <1>8, <2>2 DEF WellBuilt
<1> QED
  BY <1>2, <1>3, <1>4, <1>6, <1>7, <1>8 DEF WellBuilt

\* A prompt just built is the system message and what was said.
LEMMA BuiltFromThread ==
  ASSUME NEW t \in Turns, NEW s \in Seq(StoredMessages), s # <<>>, s[1].role = "user"
  PROVE  LET p == <<SystemPrompt(t)>> \o s IN WellBuilt(p) /\ Between(p, 0)
<1>1. PICK y \in Good : y = SystemPrompt(t) /\ y.role = "system"
  <2>1. SystemPrompt(t) \in PromptMessages /\ SystemPrompt(t).role = "system"
    BY DEF SystemPrompt, Message, PromptMessages
  <2> QED
    BY <2>1 DEF Good
<1>2. s \in Seq(Good) /\ Len(s) \in Nat /\ Len(s) >= 1 /\ \A i \in 1..Len(s) : Said(s[i])
  <2>1. \A m \in StoredMessages : m \in Good /\ Said(m)
    BY DEF StoredMessages, Good, PromptMessages, Said
  <2>2. Len(s) \in Nat /\ Len(s) >= 1 /\ \A i \in 1..Len(s) : s[i] \in StoredMessages
    OBVIOUS
  <2>3. StoredMessages \subseteq Good
    BY <2>1
  <2> QED
    BY <2>1, <2>2, <2>3
<1>3. PICK n \in Nat : n = Len(s) /\ n >= 1
  BY <1>2
<1>4. PICK h \in Seq(Good) : h = <<y>> /\ Len(h) = 1 /\ h[1] = y
  <2>1. \A x \in Good : <<x>> \in Seq(Good) /\ Len(<<x>>) = 1 /\ <<x>>[1] = x
    OBVIOUS
  <2> QED
    BY <2>1, Zenon
<1>5. PICK p \in Seq(Good) : p = h \o s
  BY <1>2, Joined
<1>6. Len(p) = 1 + n /\ p[1] = y /\ \A i \in 1..n : p[1 + i] = s[i]
  <2>1. Len(p) = Len(h) + Len(s) /\ (\A i \in 1..Len(h) : p[i] = h[i]) /\ \A i \in 1..Len(s) : p[Len(h) + i] = s[i]
    BY <1>2, <1>5, Joined
  <2> QED
    BY <1>3, <1>4, <2>1
<1>7. \A i \in 2..Len(p) : Said(p[i])
  <2> SUFFICES ASSUME NEW i \in 2..Len(p) PROVE Said(p[i])
    OBVIOUS
  <2>1. i - 1 \in 1..n /\ 1 + (i - 1) = i
    BY <1>6
  <2>2. p[i] = s[i - 1]
    BY <1>6, <2>1
  <2> QED
    BY <1>2, <1>3, <2>1, <2>2
<1>8. WellBuilt(p)
  <2>1. p[2].role = "user"
    <3>1. 1 \in 1..n /\ 1 + 1 = 2
      BY <1>3
    <3> QED
      BY <1>6, <3>1
  <2>2. \A i \in 2..Len(p) : p[i].role # "system"
    BY <1>7 DEF Said
  <2> QED
    BY <1>1, <1>3, <1>6, <1>7, <2>1, <2>2 DEF WellBuilt
<1>9. Between(p, 0)
  <2>1. \A i \in 1..Len(p) : p[i].role = "system" \/ Said(p[i])
    <3>1. \A i \in 1..Len(p) : i = 1 \/ i \in 2..Len(p)
      BY <1>6
    <3> QED
      BY <1>1, <1>6, <1>7, <3>1
  <2>2. Len(p) \in 0..Len(p) /\ SubSeq(p, 1, Len(p)) = p
    BY <1>3, <1>6
  <2>3. \A i \in 1..Len(Wire(p)) : Wire(p)[i].blocks = <<"text">>
    <3>1. \A k \in 0..Len(p) : \A i \in 1..Len(Wire(SubSeq(p, 1, k))) : Wire(SubSeq(p, 1, k))[i].blocks = <<"text">>
      BY <2>1, <2>2, WireOfTexts
    <3> QED
      BY <2>2, <3>1
  <2>4. Uses(Wire(p)) = {} /\ Results(Wire(p)) = {}
    BY <2>3 DEF Uses, Results
  <2>5. Cardinality({}) = 0
    BY FS_EmptySet
  <2> QED
    BY <2>4, <2>5 DEF Between, Answered
<1> QED
  BY <1>1, <1>4, <1>5, <1>8, <1>9

LEMMA UsesFinite == ASSUME NEW w \in Seq(OnWire) PROVE IsFiniteSet(Uses(w))
<1>1. PICK n \in Nat : n = Len(w)
  OBVIOUS
<1>2. 1 \in Int /\ n \in Int
  OBVIOUS
<1>3. IsFiniteSet(1..n)
  BY <1>2, FS_Interval, Zenon
<1>4. Uses(w) \subseteq 1..n
  BY <1>1 DEF Uses
<1> QED
  BY <1>3, <1>4, FS_Subset

\* The model asks for tools: a call more, and its results are owed.
LEMMA RoundOpens ==
  ASSUME NEW p, WellBuilt(p), NEW n \in Nat, Between(p, n), NEW m \in Good, m.role = "call"
  PROVE  WellBuilt(Append(p, m)) /\ Within(Append(p, m), n)
<1>1. p \in Seq(Good)
  BY DEF WellBuilt
<1>2. PICK q : q = Append(p, m)
  OBVIOUS
<1>3. PICK w \in Seq(OnWire) : w = Wire(p)
  BY <1>1, WireOf
<1>4. PICK v \in Seq(OnWire) : v = OntoWire(w, m)
  BY Onto
<1>5. Wire(q) = v
  BY <1>1, <1>2, <1>3, <1>4, WireAppend
<1>6. PICK d \in Nat, l \in Nat : d = Len(w) /\ l = Len(p) /\ l >= 2
  BY <1>1 DEF WellBuilt
<1>7. /\ Waiting(v, d + 1, 0) /\ Len(v[d + 1].blocks) = m.calls
      /\ Uses(v) = Uses(w) \cup {d + 1} /\ d + 1 \notin Uses(w)
  BY <1>3, <1>4, <1>6, CallOnto DEF Between
<1>8. Cardinality(Uses(v)) = n + 1
  <2>1. IsFiniteSet(Uses(w)) /\ Cardinality(Uses(w)) = n
    BY <1>3, UsesFinite DEF Between
  <2> QED
    BY <1>7, <2>1, FS_AddElement
<1>9. Len(q) = l + 1 /\ q[l + 1] = m
  BY <1>1, <1>2, <1>6
<1>10. LastCall(q, l + 1) /\ Len(q) - (l + 1) = 0 /\ l + 1 \in 2..Len(q)
  BY <1>6, <1>9 DEF LastCall
<1>11. m.calls \in Nat /\ m.calls >= 1
  BY DEF Good, PromptMessages
<1>12. d + 1 \in 1..Len(v)
  BY <1>6, <1>7 DEF Waiting
<1>13. Within(q, n)
  BY <1>5, <1>7, <1>8, <1>9, <1>10, <1>11, <1>12 DEF Within
<1> QED
  BY <1>2, <1>13, BuiltMore

\* The call that waits is the only one that Owed may mean.
LEMMA OwedBy ==
  ASSUME NEW p \in Seq(Good), NEW k, LastCall(p, k)
  PROVE  Owed(p) = p[k].calls - (Len(p) - k)
<1> DEFINE Leads(i) == /\ p[i].role = "call"
                       /\ \A j \in (i + 1)..Len(p) : p[j].role = "tool"
<1>1. k \in 1..Len(p) /\ Leads(k)
  BY DEF LastCall
<1>2. ASSUME NEW i \in 1..Len(p), Leads(i) PROVE i = k
  <2>1. ~ (i < k)
    BY <1>1, <1>2
  <2>2. ~ (k < i)
    BY <1>1, <1>2
  <2> QED
    BY <1>1, <2>1, <2>2
<1>3. PICK i : i = CHOOSE x \in 1..Len(p) : Leads(x)
  OBVIOUS
<1>4. i \in 1..Len(p) /\ Leads(i)
  BY <1>1, <1>3
<1>5. Owed(p) = p[i].calls - (Len(p) - i)
  BY <1>3 DEF Owed
<1> QED
  BY <1>2, <1>4, <1>5

\* A tool has run: one result less is owed, and with the last one the round is over.
LEMMA RoundGoesOn ==
  ASSUME NEW p, WellBuilt(p), NEW n \in Nat, Within(p, n), NEW m \in Good, m.role = "tool"
  PROVE  /\ WellBuilt(Append(p, m))
         /\ IF Owed(p) = 1 THEN Between(Append(p, m), n + 1) ELSE Within(Append(p, m), n)
<1>1. p \in Seq(Good)
  BY DEF WellBuilt
<1>2. PICK q : q = Append(p, m)
  OBVIOUS
<1>3. PICK w \in Seq(OnWire) : w = Wire(p)
  BY <1>1, WireOf
<1>4. PICK v \in Seq(OnWire) : v = OntoWire(w, m)
  BY Onto
<1>5. Wire(q) = v
  BY <1>1, <1>2, <1>3, <1>4, WireAppend
<1>6. PICK k \in 2..Len(p), u \in 1..Len(w) :
        /\ LastCall(p, k) /\ Len(p) - k < p[k].calls
        /\ Waiting(w, u, Len(p) - k) /\ Len(w[u].blocks) = p[k].calls
  BY <1>3 DEF Within
<1>7. PICK l \in Nat, c \in Nat : l = Len(p) /\ c = p[k].calls
  <2>1. p[k] \in Good /\ Len(p) \in Nat
    BY <1>1
  <2> QED
    BY <2>1 DEF Good, PromptMessages
<1>8. PICK r \in Nat : r = l - k /\ r < c
  BY <1>6, <1>7
<1>9. Waiting(v, u, r + 1) /\ v[u] = w[u] /\ Uses(v) = Uses(w)
  BY <1>4, <1>6, <1>7, <1>8, ToolOnto
<1>10. Len(q) = l + 1 /\ q[l + 1] = m /\ \A i \in 1..l : q[i] = p[i]
  BY <1>1, <1>2, <1>7
<1>11. LastCall(q, k) /\ q[k].calls = c /\ Len(q) - k = r + 1 /\ k \in 2..Len(q)
  <2>1. q[k] = p[k] /\ k \in 2..Len(q) /\ Len(q) - k = r + 1
    <3>1. k \in 2..l /\ Len(q) = l + 1
      BY <1>7, <1>10
    <3>2. k \in 1..l /\ k \in 2..(l + 1) /\ (l + 1) - k = r + 1
      BY <1>8, <3>1
    <3> QED
      BY <1>10, <3>1, <3>2
  <2>2. ASSUME NEW j \in (k + 1)..Len(q) PROVE q[j].role = "tool"
    <3>1. CASE j = l + 1
      BY <1>10, <3>1
    <3>2. CASE j # l + 1
      <4>a. k \in 2..l /\ Len(p) = l /\ Len(q) = l + 1
        BY <1>7, <1>10
      <4>1. j \in (k + 1)..Len(p) /\ j \in 1..l
        BY <2>2, <3>2, <4>a
      <4> QED
        BY <1>6, <1>10, <4>1 DEF LastCall
    <3> QED
      BY <3>1, <3>2
  <2> QED
    BY <1>6, <1>7, <2>1, <2>2 DEF LastCall
<1>12. Owed(p) = c - r
  BY <1>1, <1>6, <1>7, <1>8, OwedBy
<1>13. Cardinality(Uses(v)) = n + 1
  BY <1>3, <1>9 DEF Within
<1>14. u \in 1..Len(v) /\ Len(v[u].blocks) = c
  BY <1>6, <1>7, <1>9 DEF Waiting, Uses
<1>15. CASE Owed(p) = 1
  <2>1. r + 1 = c /\ r + 1 \in Nat \ {0}
    BY <1>12, <1>15
  <2>2. Answered(v)
    BY <1>9, <1>14, <2>1, LastResult
  <2>3. Between(q, n + 1)
    BY <1>5, <1>13, <2>2 DEF Between
  <2> QED
    BY <1>2, <1>15, <2>3, BuiltMore
<1>16. CASE Owed(p) # 1
  <2>1. r + 1 < c
    BY <1>8, <1>12, <1>16
  <2>2. Within(q, n)
    BY <1>5, <1>9, <1>11, <1>13, <1>14, <2>1 DEF Within
  <2> QED
    BY <1>2, <1>16, <2>2, BuiltMore
<1> QED
  BY <1>15, <1>16

(* A live thread begins with a question; what a turn in it has come to: its        *)
(* conversation has been there since the first check, its question is stored, and  *)
(* its prompt is made of whole rounds.                                             *)
Asked == {"attach", "title", "prompt", "model", "tool", "reply", "produced", "announce"}
Begun == (Checks \ {"check"}) \cup {"question"} \cup Asked
Unprompted == Checks \cup {"question", "attach", "title", "prompt"}

Rounds(r) ==
  /\ WellBuilt(r.prompt)
  /\ r.at = "model" => Between(r.prompt, r.round)
  /\ r.at = "tool" => Within(r.prompt, r.round)

ThreadsBegin ==
  \A c \in Chats : /\ chats[c] = "unborn" => stored[c] = <<>>
                   /\ chats[c] = "live" /\ stored[c] # <<>> => stored[c][1].role = "user"

TurnKept(r) ==
  /\ r.at \in Begun => chats[r.chat] # "unborn"
  /\ r.at \in Asked /\ chats[r.chat] = "live" => stored[r.chat] # <<>>
  /\ r.at \in Unprompted => r.round = 0
  /\ r.at \in {"model", "tool"} /\ chats[r.chat] = "live" => Rounds(r)

PromptInv == ThreadsBegin /\ \A t \in Turns : TurnKept(turn[t])

\* A turn that rests stays as it is, whatever becomes of its conversation.
LEMMA RestsKept ==
  ASSUME ServerTypes, ServerTypes', ServerGoesOn,
         NEW r \in TurnRecords, r.at # "idle" => r.chat \in Chats, TurnKept(r)
  PROVE  TurnKept(r)'
<1>1. CASE r.at \in Begun
  <2>1. PICK c \in Chats : c = r.chat
    BY <1>1 DEF Begun, Asked, Checks
  <2>2. chats[c] # "unborn"
    BY <1>1, <2>1 DEF TurnKept
  <2>3. /\ chats'[c] # "unborn"
        /\ chats'[c] = "live" => chats[c] = "live" /\ Len(stored'[c]) >= Len(stored[c])
    BY <2>2 DEF ServerGoesOn
  <2>4. stored[c] \in Seq(StoredMessages) /\ stored'[c] \in Seq(StoredMessages)
    BY DEF ServerTypes
  <2>5. stored[c] # <<>> /\ Len(stored'[c]) >= Len(stored[c]) => stored'[c] # <<>>
    BY <2>4
  <2> QED
    BY <1>1, <2>1, <2>3, <2>5 DEF TurnKept
<1>2. CASE r.at \notin Begun
  BY <1>2 DEF TurnKept, Begun, Asked
<1> QED
  BY <1>1, <1>2

\* So it is enough to look at the turn that moves.
LEMMA OthersKept ==
  ASSUME ServerTypes, ServerTypes', ServerGoesOn, PromptInv, ThreadsBegin',
         NEW t \in Turns, \A u \in Turns : u # t => turn'[u] = turn[u], TurnKept(turn[t])'
  PROVE  PromptInv'
<1>1. ASSUME NEW u \in Turns, u # t PROVE TurnKept(turn[u])'
  <2>1. turn[u] \in TurnRecords /\ (turn[u].at # "idle" => turn[u].chat \in Chats)
    BY DEF ServerTypes, TurnsTyped
  <2>2. PICK r \in TurnRecords : r = turn[u]
    BY <2>1
  <2>3. TurnKept(r)'
    BY <2>1, <2>2, RestsKept DEF PromptInv
  <2> QED
    BY <1>1, <2>2, <2>3 DEF TurnKept
<1>2. ASSUME NEW u \in Turns PROVE TurnKept(turn[u])'
  BY <1>1
<1> QED
  BY <1>2 DEF PromptInv

\* What the gateway stores is a question, or an answer after one.
LEMMA ThreadsGrow ==
  ASSUME ServerTypes, PromptInv, NEW c \in Chats, NEW t \in Turns, NEW role, chats' = chats,
         AddMessage(c, role, t), chats[c] # "unborn",
         role = "user" \/ (chats[c] = "live" => stored[c] # <<>>)
  PROVE  ThreadsBegin' /\ stored'[c] # <<>>
<1>1. stored \in [Chats -> Seq(StoredMessages)]
  BY DEF ServerTypes
<1>2. PICK m : m = Message(role, t)
  OBVIOUS
<1>3. m.role = role
  BY <1>2 DEF Message
<1>4. stored' = [stored EXCEPT ![c] = Append(stored[c], m)]
  BY <1>2 DEF AddMessage
<1>5. stored'[c] = Append(stored[c], m) /\ \A d \in Chats : d # c => stored'[d] = stored[d]
  BY <1>1, <1>4
<1>6. stored[c] \in Seq(StoredMessages)
  BY <1>1
<1>7. Append(stored[c], m) # <<>>
  BY <1>6
<1>8. IF stored[c] = <<>> THEN Append(stored[c], m)[1] = m ELSE Append(stored[c], m)[1] = stored[c][1]
  BY <1>6
<1>9. chats[c] = "live" => stored'[c][1].role = "user"
  <2>1. CASE stored[c] = <<>>
    BY <1>3, <1>5, <1>8, <2>1
  <2>2. CASE stored[c] # <<>>
    BY <1>5, <1>8, <2>2 DEF PromptInv, ThreadsBegin
  <2> QED
    BY <2>1, <2>2
<1> QED
  BY <1>5, <1>7, <1>9 DEF PromptInv, ThreadsBegin

\* A turn that is over has nothing left to keep.
LEMMA OverKept ==
  ASSUME NEW r, NEW at \in Ended, NEW event
  PROVE  TurnKept(Over(r, at, event))'
<1>1. Over(r, at, event).at = at
  BY DEF Over, IdleTurn
<1>2. at \notin Begun /\ at \notin Asked /\ at \notin Unprompted /\ at \notin {"model", "tool"}
  BY DEF Ended, Begun, Asked, Unprompted, Checks
<1> QED
  BY <1>1, <1>2, Zenon DEF TurnKept


LEMMA OneTurnMoves ==
  ASSUME TurnsTyped, NEW t \in Turns, TurnStep(t) \/ TurnFault(t)
  PROVE  \A u \in Turns : u # t => turn'[u] = turn[u]
<1>1. DOMAIN turn = Turns
  BY DEF TurnsTyped
<1>2. CASE FindChat(t) \/ AssertModelAllowed(t) \/ AssertTokenBudget(t) \/ ResolveTools(t) \/ DlpChatInput(t)
  BY <1>1, <1>2 DEF FindChat, AssertModelAllowed, AssertTokenBudget, ResolveTools, DlpChatInput, Pass, Goto, Throw
<1>3. CASE AddQuestion(t) \/ LinkFiles(t) \/ SetTitle(t) \/ StoreReply(t) \/ LinkProduced(t)
  <2>1. \E at : Goto(t, at)
    BY <1>3, Zenon DEF AddQuestion, LinkFiles, SetTitle, StoreReply, LinkProduced
  <2> QED
    BY <1>1, <2>1 DEF Goto
<1>4. CASE BuildPrompt(t)
  BY <1>1, <1>4 DEF BuildPrompt
<1>5. CASE Throw(t) \/ ToReply(t) \/ Announce(t)
  BY <1>1, <1>5 DEF Throw, ToReply, Announce
<1>6. CASE Overflow(t) /\ ~ Throw(t)
  <2>1. turn' = [turn EXCEPT ![t].prompt = TrimOldest(@), ![t].trims = @ + 1]
    BY <1>6, Zenon DEF Overflow
  <2> QED
    BY <1>1, <2>1
<1>7. CASE AskTool(t) /\ ~ ToReply(t)
  <2>1. \E calls \in 1..MaxCalls :
           turn' = [turn EXCEPT ![t].at = "tool", ![t].prompt = Append(@, Call(t, calls))]
    BY <1>7, Zenon DEF AskTool
  <2> QED
    BY <1>1, <2>1
<1>8. CASE RunTool(t)
  BY <1>1, <1>8 DEF RunTool
<1> QED
  BY <1>2, <1>3, <1>4, <1>5, <1>6, <1>7, <1>8, Zenon
     DEF TurnStep, TurnFault, ModelFails, Answer, Overflow, AskTool

\* Each step of a turn keeps what it has come to.
LEMMA TurnStepKept ==
  ASSUME ServerTypes, AttachedWhereUploaded, PromptInv, NEW t \in Turns, TurnStep(t) \/ TurnFault(t)
  PROVE  PromptInv'
<1>1. ServerTypes' /\ OnlyAppended /\ chats' = chats /\ ServerGoesOn
  <2>1. ServerTypes' /\ OnlyAppended /\ TurnsGoOn /\ chats' = chats
    BY TurnStepTypes
  <2> QED
    BY <2>1 DEF ServerGoesOn, OnlyAppended
<1>2. \A u \in Turns : u # t => turn'[u] = turn[u]
  BY OneTurnMoves DEF ServerTypes
<1>3. SUFFICES ThreadsBegin' /\ TurnKept(turn[t])'
  BY <1>1, <1>2, OthersKept
<1>4. PICK r \in TurnRecords : r = turn[t]
  BY DEF ServerTypes, TurnsTyped
<1>5. TurnKept(r) /\ (r.at # "idle" => r.chat \in Chats)
  BY <1>4 DEF PromptInv, ServerTypes, TurnsTyped
<1>6. turn \in [Turns -> TurnRecords]
  BY DEF ServerTypes, TurnsTyped
<1>7. stored' = stored => ThreadsBegin'
  BY <1>1 DEF PromptInv, ThreadsBegin
\* Throwing, and what ends the turn.
<1>8. CASE Throw(t) /\ stored' = stored
  <2>1. turn'[t] = Over(r, "failed", "failed")
    BY <1>4, <1>6, <1>8 DEF Throw
  <2>2. "failed" \in Ended
    BY DEF Ended
  <2>3. TurnKept(Over(r, "failed", "failed"))'
    BY <2>2, OverKept
  <2> QED
    BY <1>7, <1>8, <2>1, <2>3 DEF TurnKept
<1>9. CASE Announce(t)
  <2>1. turn'[t] = Over(r, "done", "done") /\ stored' = stored
    BY <1>4, <1>6, <1>9 DEF Announce
  <2>2. "done" \in Ended
    BY DEF Ended
  <2>3. TurnKept(Over(r, "done", "done"))'
    BY <2>2, OverKept
  <2> QED
    BY <1>7, <2>1, <2>3 DEF TurnKept
\* Steps that only go on to the next: nothing is asked of it that was not there.
<1>10. ASSUME NEW at \in TurnPcs, Goto(t, at), r.at # "idle",
              chats[r.chat] # "unborn",
              at \in Asked /\ chats[r.chat] = "live" => stored'[r.chat] # <<>>,
              at \in Unprompted => r.round = 0,
              at \notin {"model", "tool"}
       PROVE  TurnKept(turn[t])'
  <2>1. turn'[t] = [r EXCEPT !.at = at]
    BY <1>4, <1>6, <1>10 DEF Goto
  <2>2. PICK s : s = [r EXCEPT !.at = at]
    OBVIOUS
  <2>3. s.at = at /\ s.chat = r.chat /\ s.round = r.round
    BY <2>2 DEF TurnRecords
  <2>4. TurnKept(s)'
    BY <1>1, <1>10, <2>3, Zenon DEF TurnKept
  <2> QED
    BY <2>1, <2>2, <2>4 DEF TurnKept
<1>11. ASSUME NEW from \in Checks, NEW to \in Checks \cup {"question"}, Pass(t, from, to),
              chats[r.chat] # "unborn" \/ Throw(t)
       PROVE  ThreadsBegin' /\ TurnKept(turn[t])'
  <2>1. r.at = from /\ stored' = stored /\ (Goto(t, to) \/ Throw(t))
    BY <1>4, <1>11, Zenon DEF Pass
  <2>2. r.round = 0 /\ r.at # "idle"
    BY <1>5, <1>11, <2>1 DEF TurnKept, Unprompted, Checks
  <2>3. to \in TurnPcs /\ to \notin Asked /\ to \notin {"model", "tool"}
    BY <1>11 DEF TurnPcs, Checks, Asked
  <2>4. CASE Goto(t, to) /\ chats[r.chat] # "unborn"
    BY <1>7, <1>10, <2>1, <2>2, <2>3, <2>4
  <2> QED
    BY <1>8, <1>11, <2>1, <2>4
<1>12. CASE FindChat(t)
  <2>1. Pass(t, "check", "model allowed") /\ (chats[r.chat] # "live" => turn'[t].at = "failed")
    BY <1>4, <1>12, Zenon DEF FindChat
  <2>2. chats[r.chat] # "unborn" \/ Throw(t)
    <3>1. PICK s : s = [r EXCEPT !.at = "model allowed"]
      OBVIOUS
    <3>2. s.at = "model allowed"
      BY <3>1 DEF TurnRecords
    <3>3. Goto(t, "model allowed") => turn'[t] = s
      BY <1>4, <1>6, <3>1 DEF Goto
    <3> QED
      BY <2>1, <3>2, <3>3 DEF Pass
  <2> QED
    BY <1>11, <2>1, <2>2 DEF Checks
<1>13. CASE AssertModelAllowed(t) \/ AssertTokenBudget(t) \/ ResolveTools(t) \/ DlpChatInput(t)
  <2>1. r.at \in Begun
    BY <1>4, <1>13 DEF AssertModelAllowed, AssertTokenBudget, ResolveTools, DlpChatInput, Pass, Begun, Checks
  <2>2. chats[r.chat] # "unborn"
    BY <1>5, <2>1 DEF TurnKept
  <2> QED
    BY <1>11, <1>13, <2>2 DEF AssertModelAllowed, AssertTokenBudget, ResolveTools, DlpChatInput, Checks
<1>14. CASE AddQuestion(t)
  <2>1. r.at = "question" /\ AddMessage(r.chat, "user", t) /\ Goto(t, "attach")
    BY <1>4, <1>14, Zenon DEF AddQuestion
  <2>2. chats[r.chat] # "unborn" /\ r.round = 0 /\ r.chat \in Chats /\ r.at # "idle"
    BY <1>5, <2>1 DEF TurnKept, Begun, Unprompted
  <2>3. ThreadsBegin' /\ stored'[r.chat] # <<>>
    BY <1>1, <2>1, <2>2, ThreadsGrow
  <2> QED
    BY <1>10, <2>1, <2>2, <2>3 DEF TurnPcs
<1>15. CASE LinkFiles(t) \/ SetTitle(t)
  <2>1. stored' = stored /\ r.at \in {"attach", "title"} /\ (Goto(t, "title") \/ Goto(t, "prompt"))
    BY <1>4, <1>15, Zenon DEF LinkFiles, SetTitle
  <2>2. /\ chats[r.chat] # "unborn" /\ r.round = 0 /\ r.at # "idle"
        /\ chats[r.chat] = "live" => stored[r.chat] # <<>>
    BY <1>5, <2>1 DEF TurnKept, Begun, Asked, Unprompted
  <2> QED
    BY <1>7, <1>10, <2>1, <2>2 DEF TurnPcs
<1>16. CASE StoreReply(t) \/ LinkProduced(t)
  <2>1. /\ r.at \in {"reply", "produced"}
        /\ stored' = stored \/ AddMessage(r.chat, "assistant", t)
        /\ Goto(t, "announce") \/ Goto(t, "produced")
    BY <1>4, <1>16, Zenon DEF StoreReply, LinkProduced
  <2>2. /\ chats[r.chat] # "unborn" /\ r.at # "idle" /\ r.chat \in Chats
        /\ chats[r.chat] = "live" => stored[r.chat] # <<>>
    BY <1>5, <2>1 DEF TurnKept, Begun, Asked
  <2>3. ThreadsBegin' /\ (chats[r.chat] = "live" => stored'[r.chat] # <<>>)
    BY <1>1, <1>7, <2>1, <2>2, ThreadsGrow
  <2>4. /\ "announce" \notin Unprompted /\ "produced" \notin Unprompted
        /\ {"announce", "produced"} \subseteq TurnPcs
    BY DEF Unprompted, TurnPcs, Checks
  <2> QED
    BY <1>10, <2>1, <2>2, <2>3, <2>4
\* Steps of the rounds.
<1>17. ASSUME NEW s \in TurnRecords, turn'[t] = s, stored' = stored, s.chat = r.chat, r.at \in Asked,
              s.at \in {"model", "tool", "reply"},
              s.at \in {"model", "tool"} /\ chats[r.chat] = "live" => Rounds(s)
       PROVE  ThreadsBegin' /\ TurnKept(turn[t])'
  <2>1. /\ chats[r.chat] # "unborn"
        /\ chats[r.chat] = "live" => stored[r.chat] # <<>>
    BY <1>5, <1>17 DEF TurnKept, Begun
  <2>2. s.at \notin Unprompted
    BY <1>17 DEF Unprompted, Checks
  <2>3. TurnKept(s)'
    BY <1>1, <1>17, <2>1, <2>2, Zenon DEF TurnKept
  <2> QED
    BY <1>7, <1>17, <2>3 DEF TurnKept
<1>18. CASE BuildPrompt(t)
  <2>1. r.at = "prompt" /\ stored' = stored
    BY <1>4, <1>18, Zenon DEF BuildPrompt
  <2>2. PICK p : p = <<SystemPrompt(t)>> \o stored[r.chat]
    OBVIOUS
  <2>3. r.chat \in Chats /\ r.round = 0 /\ stored[r.chat] \in Seq(StoredMessages)
        /\ (chats[r.chat] = "live" => stored[r.chat] # <<>>)
    BY <1>5, <2>1 DEF TurnKept, Unprompted, Asked, ServerTypes
  <2>4. chats[r.chat] = "live" => WellBuilt(p) /\ Between(p, 0)
    <3>1. chats[r.chat] = "live" => stored[r.chat][1].role = "user"
      BY <2>3 DEF PromptInv, ThreadsBegin
    <3> QED
      BY <2>2, <2>3, <3>1, BuiltFromThread
  <2>5. PICK s : s = [r EXCEPT !.at = "model", !.prompt = p]
    OBVIOUS
  <2>6. turn'[t] = s
    <3>1. turn' = [turn EXCEPT ![t].at = "model", ![t].prompt = p]
      BY <1>4, <1>18, <2>2, Zenon DEF BuildPrompt
    <3> QED
      BY <1>4, <1>6, <2>5, <3>1
  <2>7. s.at = "model" /\ s.chat = r.chat /\ s.prompt = p /\ s.round = 0
    BY <2>3, <2>5 DEF TurnRecords
  <2>8. s \in TurnRecords
    BY <1>1, <2>6 DEF ServerTypes, TurnsTyped
  <2>9. chats[r.chat] = "live" => Rounds(s)
    BY <2>4, <2>7 DEF Rounds
  <2>10. r.at \in Asked
    BY <2>1 DEF Asked
  <2> QED
    BY <1>17, <2>1, <2>6, <2>7, <2>8, <2>9, <2>10
<1>19. CASE Overflow(t)
  <2>1. r.at = "model" /\ stored' = stored /\ r.at \in Asked
    BY <1>4, <1>19 DEF Overflow, Asked
  <2>2. CASE ~ Throw(t)
    <3>1. CanTrim(r.prompt) /\ turn' = [turn EXCEPT ![t].prompt = TrimOldest(@), ![t].trims = @ + 1]
      BY <1>4, <1>19, <2>2, Zenon DEF Overflow
    <3>2. PICK p : p = TrimOldest(r.prompt)
      OBVIOUS
    <3>3. PICK s : s = [r EXCEPT !.prompt = p, !.trims = r.trims + 1]
      OBVIOUS
    <3>4. turn'[t] = s
      BY <1>4, <1>6, <3>1, <3>2, <3>3
    <3>5. s.at = "model" /\ s.chat = r.chat /\ s.prompt = p /\ s.round = r.round
      BY <2>1, <3>3 DEF TurnRecords
    <3>6. s \in TurnRecords
      BY <1>1, <3>4 DEF ServerTypes, TurnsTyped
    <3>7. chats[r.chat] = "live" => Rounds(s)
      <4>1. SUFFICES ASSUME chats[r.chat] = "live" PROVE WellBuilt(p) /\ Between(p, r.round)
        BY <3>5 DEF Rounds
      <4>2. WellBuilt(r.prompt) /\ Between(r.prompt, r.round)
        BY <1>5, <2>1, <4>1 DEF TurnKept, Rounds
      <4> QED
        BY <3>1, <3>2, <4>2, TrimKeepsRounds DEF Between
    <3> QED
      BY <1>17, <2>1, <3>4, <3>5, <3>6, <3>7
  <2> QED
    BY <1>8, <2>1, <2>2
<1>20. CASE ToReply(t) /\ r.at = "model" /\ stored' = stored
  <2>1. PICK s : s = [r EXCEPT !.at = "reply", !.prompt = <<>>, !.trims = 0]
    OBVIOUS
  <2>2. turn'[t] = s
    BY <1>4, <1>6, <1>20, <2>1 DEF ToReply
  <2>3. s.at = "reply" /\ s.chat = r.chat
    BY <2>1 DEF TurnRecords
  <2>4. s \in TurnRecords
    BY <1>1, <2>2 DEF ServerTypes, TurnsTyped
  <2>5. r.at \in Asked
    BY <1>20 DEF Asked
  <2> QED
    BY <1>17, <1>20, <2>2, <2>3, <2>4, <2>5
<1>21. CASE AskTool(t)
  <2>1. r.at = "model" /\ stored' = stored /\ r.at \in Asked
    BY <1>4, <1>21 DEF AskTool, Asked
  <2>2. CASE ~ ToReply(t)
    <3>1. PICK calls \in 1..MaxCalls :
            turn' = [turn EXCEPT ![t].at = "tool", ![t].prompt = Append(@, Call(t, calls))]
      BY <1>21, <2>2, Zenon DEF AskTool
    <3>2. PICK m : m = Call(t, calls)
      OBVIOUS
    <3>3. m \in Good /\ m.role = "call"
      <4>1. m \in PromptMessages /\ m.role = "call" /\ m.calls >= 1
        BY <3>2 DEF Call, PromptMessages
      <4> QED
        BY <4>1 DEF Good
    <3>4. PICK p : p = Append(r.prompt, m)
      OBVIOUS
    <3>5. PICK s : s = [r EXCEPT !.at = "tool", !.prompt = p]
      OBVIOUS
    <3>6. turn'[t] = s
      BY <1>4, <1>6, <3>1, <3>2, <3>4, <3>5
    <3>7. s.at = "tool" /\ s.chat = r.chat /\ s.prompt = p /\ s.round = r.round
      BY <3>5 DEF TurnRecords
    <3>8. s \in TurnRecords
      BY <1>1, <3>6 DEF ServerTypes, TurnsTyped
    <3>9. chats[r.chat] = "live" => Rounds(s)
      <4>1. SUFFICES ASSUME chats[r.chat] = "live" PROVE WellBuilt(p) /\ Within(p, r.round)
        BY <3>7 DEF Rounds
      <4>2. WellBuilt(r.prompt) /\ Between(r.prompt, r.round)
        BY <1>5, <2>1, <4>1 DEF TurnKept, Rounds
      <4>3. r.round \in Nat
        BY DEF TurnRecords
      <4> QED
        BY <3>3, <3>4, <4>2, <4>3, RoundOpens
    <3> QED
      BY <1>17, <2>1, <3>6, <3>7, <3>8, <3>9
  <2> QED
    BY <1>20, <2>1, <2>2
<1>22. CASE RunTool(t)
  <2>1. r.at = "tool" /\ stored' = stored /\ r.at \in Asked
    BY <1>4, <1>22 DEF RunTool, Asked
  <2>2. PICK m : m = Message("tool", t)
    OBVIOUS
  <2>3. m \in Good /\ m.role = "tool"
    <3>1. m \in PromptMessages /\ m.role = "tool"
      BY <2>2 DEF Message, PromptMessages
    <3> QED
      BY <3>1 DEF Good
  <2>4. PICK p : p = Append(r.prompt, m)
    OBVIOUS
  <2>5. PICK last \in BOOLEAN : last <=> Owed(r.prompt) = 1
    OBVIOUS
  <2>6. PICK s : s = turn'[t]
    OBVIOUS
  <2>7. /\ s.chat = r.chat /\ s.prompt = p
        /\ s.at = IF last THEN "model" ELSE "tool"
        /\ s.round = IF last THEN r.round + 1 ELSE r.round
    <3>1. PICK files \in {0, 1} :
            turn' = [turn EXCEPT ![t].prompt = Append(@, m),
                                 ![t].produced = Kept(@, files),
                                 ![t].at = IF Owed(turn[t].prompt) = 1 THEN "model" ELSE "tool",
                                 ![t].round = IF Owed(turn[t].prompt) = 1 THEN @ + 1 ELSE @,
                                 ![t].trims = 0]
      BY <1>22, <2>2 DEF RunTool
    <3>2. turn' = [turn EXCEPT ![t].prompt = Append(@, m),
                               ![t].produced = Kept(@, files),
                               ![t].at = IF last THEN "model" ELSE "tool",
                               ![t].round = IF last THEN @ + 1 ELSE @,
                               ![t].trims = 0]
      BY <1>4, <2>5, <3>1
    <3>3. turn'[t] = [r EXCEPT !.prompt = Append(r.prompt, m),
                               !.produced = Kept(r.produced, files),
                               !.at = IF last THEN "model" ELSE "tool",
                               !.round = IF last THEN r.round + 1 ELSE r.round,
                               !.trims = 0]
      BY <1>4, <1>6, <3>2
    <3> QED
      BY <2>4, <2>6, <3>3 DEF TurnRecords
  <2>8. s \in TurnRecords
    BY <1>1, <2>6 DEF ServerTypes, TurnsTyped
  <2>9. chats[r.chat] = "live" => Rounds(s)
    <3> SUFFICES ASSUME chats[r.chat] = "live" PROVE Rounds(s)
      OBVIOUS
    <3>1. WellBuilt(r.prompt) /\ Within(r.prompt, r.round) /\ r.round \in Nat
      BY <1>5, <2>1 DEF TurnKept, Rounds, TurnRecords
    <3>2. WellBuilt(p) /\ IF last THEN Between(p, r.round + 1) ELSE Within(p, r.round)
      BY <2>3, <2>4, <2>5, <3>1, RoundGoesOn
    <3> QED
      BY <2>7, <3>2 DEF Rounds
  <2>10. s.at \in {"model", "tool"}
    BY <2>7
  <2> QED
    BY <1>17, <2>1, <2>6, <2>7, <2>8, <2>9, <2>10
<1>23. CASE Answer(t) \/ ModelFails(t) \/ TurnFault(t)
  <2>1. /\ stored' = stored
        /\ (ToReply(t) /\ r.at = "model") \/ Throw(t)
    BY <1>4, <1>23, Zenon DEF Answer, ModelFails, TurnFault
  <2> QED
    BY <1>8, <1>20, <2>1
<1> QED
  BY <1>9, <1>12, <1>13, <1>14, <1>15, <1>16, <1>18, <1>19, <1>21, <1>22, <1>23, Zenon DEF TurnStep

\* The death of the process ends the turns that run and leaves the threads alone.
LEMMA DeathKept ==
  ASSUME ServerTypes, PromptInv, ProcessDies
  PROVE  PromptInv'
<1>1. /\ UNCHANGED <<chats, stored>>
      /\ turn' = [t \in Turns |-> IF Running(t) THEN Over(turn[t], "dead", "none") ELSE turn[t]]
  BY Zenon DEF ProcessDies
<1>2. ASSUME NEW t \in Turns PROVE TurnKept(turn[t])'
  <2>1. CASE Running(t)
    <3>1. turn'[t] = Over(turn[t], "dead", "none") /\ "dead" \in Ended
      BY <1>1, <2>1 DEF Ended
    <3>2. PICK r : r = turn[t]
      OBVIOUS
    <3>3. TurnKept(Over(r, "dead", "none"))'
      BY <3>1, OverKept
    <3> QED
      BY <3>1, <3>2, <3>3 DEF TurnKept
  <2>2. CASE ~ Running(t)
    BY <1>1, <2>2 DEF PromptInv, TurnKept
  <2> QED
    BY <2>1, <2>2
<1>3. ThreadsBegin'
  BY <1>1 DEF PromptInv, ThreadsBegin
<1> QED
  BY <1>2, <1>3 DEF PromptInv

\* Most steps of the page do not touch the threads and the turns.
LEMMA PromptsRest ==
  ASSUME PromptInv, UNCHANGED <<chats, stored, turn>>
  PROVE  PromptInv'
<1>1. ThreadsBegin'
  BY DEF PromptInv, ThreadsBegin
<1>2. ASSUME NEW t \in Turns PROVE TurnKept(turn[t])'
  BY DEF PromptInv, TurnKept
<1> QED
  BY <1>1, <1>2 DEF PromptInv

LEMMA PostKept ==
  ASSUME ServerTypes, PromptInv, NEW t \in Turns, NEW c, NEW uploads, Post(t, c, uploads),
         UNCHANGED <<chats, stored>>
  PROVE  PromptInv'
<1>1. PICK r : r = [IdleTurn EXCEPT !.at = "check", !.chat = c, !.uploads = uploads]
  OBVIOUS
<1>2. r.at = "check" /\ r.round = 0
  BY <1>1 DEF IdleTurn
<1>3. turn \in [Turns -> TurnRecords] /\ turn' = [turn EXCEPT ![t] = r]
  BY <1>1 DEF Post, ServerTypes, TurnsTyped
<1>4. turn'[t] = r /\ \A u \in Turns : u # t => turn'[u] = turn[u]
  BY <1>3
<1>5. TurnKept(turn[t])'
  BY <1>2, <1>4 DEF TurnKept, Begun, Asked
<1>6. ThreadsBegin'
  BY DEF PromptInv, ThreadsBegin
<1>7. ASSUME NEW u \in Turns, u # t PROVE TurnKept(turn[u])'
  BY <1>4, <1>7 DEF PromptInv, TurnKept
<1>8. ASSUME NEW u \in Turns PROVE TurnKept(turn[u])'
  BY <1>5, <1>7
<1> QED
  BY <1>6, <1>8 DEF PromptInv

\* A conversation that is created or deleted: none of its turns are at work there.
LEMMA OtherChat ==
  ASSUME ServerTypes, ServerTypes', ServerGoesOn, PromptInv, ThreadsBegin', turn' = turn
  PROVE  PromptInv'
<1>1. ASSUME NEW t \in Turns PROVE TurnKept(turn[t])'
  <2>1. turn[t] \in TurnRecords /\ (turn[t].at # "idle" => turn[t].chat \in Chats)
    BY DEF ServerTypes, TurnsTyped
  <2>2. PICK r \in TurnRecords : r = turn[t]
    BY <2>1
  <2>3. TurnKept(r)'
    BY <2>1, <2>2, RestsKept DEF PromptInv
  <2> QED
    BY <2>2, <2>3 DEF TurnKept
<1> QED
  BY <1>1 DEF PromptInv

LEMMA NewChatKept ==
  ASSUME ChatInv, PromptInv, NEW c \in Chats, NewChat(c)
  PROVE  PromptInv'
<1>1. chats[c] = "unborn" /\ chats' = [chats EXCEPT ![c] = "live"] /\ UNCHANGED <<stored, turn>>
  BY Zenon DEF NewChat, CreateChat
<1>2. ServerTypes /\ ServerTypes'
  <2>1. ChatInv'
    BY NewChatKeeps
  <2> QED
    BY <2>1 DEF ChatInv
<1>3. chats'[c] = "live" /\ \A d \in Chats : d # c => chats'[d] = chats[d]
  BY <1>1, <1>2 DEF ServerTypes
<1>4. \A d \in Chats : Len(stored[d]) \in Nat
  BY <1>2 DEF ServerTypes
<1>5. ServerGoesOn
  BY <1>1, <1>3, <1>4 DEF ServerGoesOn, TurnsGoOn
<1>6. ThreadsBegin'
  BY <1>1, <1>3 DEF PromptInv, ThreadsBegin
<1> QED
  BY <1>1, <1>2, <1>5, <1>6, OtherChat

LEMMA DeleteKept ==
  ASSUME ChatInv, PromptInv, NEW c \in Chats, DeleteConversation(c)
  PROVE  PromptInv'
<1>1. /\ chats[c] = "live" /\ stored' = [stored EXCEPT ![c] = <<>>]
      /\ chats' = [chats EXCEPT ![c] = "deleted"] /\ turn' = turn
  BY Zenon DEF DeleteConversation, DeleteChat
<1>2. ServerTypes /\ ServerTypes'
  <2>1. ChatInv'
    BY DeleteConversationKeeps
  <2> QED
    BY <2>1 DEF ChatInv
<1>3. /\ chats'[c] = "deleted"
      /\ \A d \in Chats : d # c => chats'[d] = chats[d] /\ stored'[d] = stored[d]
  BY <1>1, <1>2 DEF ServerTypes
<1>4. \A d \in Chats : Len(stored[d]) \in Nat
  BY <1>2 DEF ServerTypes
<1>5. ServerGoesOn
  BY <1>1, <1>3, <1>4 DEF ServerGoesOn, TurnsGoOn
<1>6. ThreadsBegin'
  BY <1>3 DEF PromptInv, ThreadsBegin
<1> QED
  BY <1>1, <1>2, <1>5, <1>6, OtherChat

LEMMA PromptInit == ChatInit => PromptInv
<1> SUFFICES ASSUME ChatInit PROVE PromptInv
  OBVIOUS
<1>1. /\ chats = [c \in Chats |-> IF c \in FirstChats THEN "live" ELSE "unborn"]
      /\ stored = [c \in Chats |-> IF c \in FirstChats
                                   THEN <<Message("user", 0), Message("assistant", 0)>> ELSE <<>>]
      /\ turn = [t \in Turns |-> IdleTurn]
  BY Zenon DEF ChatInit, ServerInit
<1>2. PICK s : s = <<Message("user", 0), Message("assistant", 0)>>
  OBVIOUS
<1>3. s[1].role = "user"
  BY <1>2 DEF Message
<1>4. ThreadsBegin
  BY <1>1, <1>2, <1>3 DEF ThreadsBegin
<1>5. \A t \in Turns : turn[t].at = "idle"
  BY <1>1 DEF IdleTurn
<1>6. "idle" \notin Begun /\ "idle" \notin Asked /\ "idle" \notin Unprompted
  BY DEF Begun, Asked, Unprompted, Checks
<1>7. \A t \in Turns : TurnKept(turn[t])
  BY <1>5, <1>6, Zenon DEF TurnKept
<1> QED
  BY <1>4, <1>7 DEF PromptInv

LEMMA PromptNext == ChatInv /\ PromptInv /\ [ChatNext]_chatVars => PromptInv'
<1> SUFFICES ASSUME ChatInv, PromptInv, [ChatNext]_chatVars PROVE PromptInv'
  OBVIOUS
<1>1. CASE Gateway
  <2>1. CASE ProcessDies
    BY <2>1, DeathKept DEF ChatInv
  <2>2. ASSUME NEW t \in Turns, TurnStep(t) \/ TurnFault(t) PROVE PromptInv'
    BY <2>2, TurnStepKept DEF ChatInv
  <2> QED
    BY <1>1, <2>1, <2>2 DEF Gateway, Server
<1>2. CASE \E c \in Chats : NewChat(c)
  BY <1>2, NewChatKept
<1>3. CASE \E c \in Chats : DeleteConversation(c)
  BY <1>3, DeleteKept
<1>4. CASE \E t \in Turns : Send(t)
  BY <1>4, PostKept DEF Send, ChatInv
<1>5. CASE \/ \E c \in Chats : Click(c)
           \/ \E c \in Chats \cup {NoChat} : Navigate(c)
           \/ Responses \/ ApplyRoute \/ Verdict \/ StreamDrops \/ StreamEnds \/ Upload \/ Uploaded
           \/ UNCHANGED chatVars
  <2>1. UNCHANGED serverVars
    BY <1>5, Zenon DEF Click, Navigate, Responses, Serve, Opened, OpenFailed, Reconciled, ReconcileFailed,
       ApplyRoute, Verdict, StreamDrops, StreamEnds, Upload, Uploaded, chatVars
  <2>2. UNCHANGED <<chats, stored, turn>>
    BY <2>1 DEF serverVars
  <2> QED
    BY <2>2, PromptsRest
<1>6. CASE \E g \in gets : LoseRequest(g)
  <2>1. UNCHANGED <<chats, stored, turn>>
    BY <1>6, Zenon DEF LoseRequest
  <2> QED
    BY <2>1, PromptsRest
<1> QED
  BY <1>1, <1>2, <1>3, <1>4, <1>5, <1>6, Zenon DEF ChatNext, Page

(* The rounds of every turn, whatever is stored, deleted and trimmed meanwhile: its  *)
(* prompt is the system message, what was said from a question on, and the calls of  *)
(* the turn, each with as many results as it asked for but the last, which waits for *)
(* the ones it still owes (send, completeOrTrim).                                    *)
THEOREM PromptInvariance == ChatSpec => []PromptInv
<1> QED
  BY PromptInit, PromptNext, ChatInvariance, PTL DEF ChatSpec

(* What a provider is sent starts with a question and brings, right after a turn    *)
(* that uses tools, one result for each use; trimming takes no round of the turn     *)
(* (trimOldest, toAnthropicMessages).                                                *)
THEOREM PromptsWellFormed == ChatSpec => []PromptWellFormed
<1>1. PromptInv => PromptWellFormed
  <2> SUFFICES ASSUME PromptInv, NEW t \in Turns, turn[t].at = "model", chats[turn[t].chat] = "live"
               PROVE  LET w == Wire(turn[t].prompt)
                      IN /\ w # <<>> => w[1].role = "user"
                         /\ Results(w) = {i + 1 : i \in Uses(w)}
                         /\ \A i \in Uses(w) : Len(w[i + 1].blocks) = Len(w[i].blocks)
                         /\ Cardinality(Uses(w)) = turn[t].round
    BY DEF PromptWellFormed
  <2>1. WellBuilt(turn[t].prompt) /\ Between(turn[t].prompt, turn[t].round)
    BY DEF PromptInv, TurnKept, Rounds
  <2> QED
    BY <2>1, WireStarts DEF Between, Answered
<1> QED
  BY <1>1, PromptInvariance, PTL
=============================================================================
