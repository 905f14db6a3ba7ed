---------------------------- MODULE ToolCall_proof ----------------------------
(* Proofs about ToolCall, for any number of calls, replicas and administrators,  *)
(* any budget and every scenario: a tool writes once and as reported, a hook     *)
(* that stays in the pipeline is not missed, the audit trail verifies and the    *)
(* books balance.                                                                *)
EXTENDS ToolCall, FiniteSetTheorems, SequenceTheorems, TLAPS

-------------------------------------------------------------------------------
(* Types *)

CallAts == {"new", "pre", "hook", "token", "send", "force", "post", "filter", "reply",
            "fail", "done", "gone"}
Places  == 1..LongestPlan
Answers == {"no", "asked", "allowed", "denied", "threw"}
Outcomes == {"none", "ok", "error", "threw", "denied", "budget", "unreachable"}
CallRecords ==
  [at : CallAts, rep : Replicas \cup {NoReplica}, i : 1..(LongestPlan + 1), token : Int,
   retried : BOOLEAN, sent : BOOLEAN, noted : BOOLEAN, some : Nat, applied : [Places -> Nat],
   asked : Answers, due : BOOLEAN, late : BOOLEAN, result : Outcomes]

EditKinds == {"pipeline", "switch", "configure"} \cup Rescans
EditAts == {"idle", "delete", "insert", "load", "update", "records", "configure", "ingest",
            "seed", "drop", "dropSteps", "clear", "modules"}
EditRecords == [at : EditAts, rep : Replicas \cup {NoReplica}, kind : EditKinds, to : BOOLEAN]

Ids  == Calls \X {"budget", "success", "failure"}
Tips == Ids \cup {Genesis}

(* The scenario, and what does not change in it *)
Chosen ==
  /\ bound \in Scenarios
  /\ job \in [bound.calls -> bound.jobs]
  /\ hook \in bound.hooks

BookTypes ==
  /\ db \in [row : BOOLEAN, step : BOOLEAN, on : BOOLEAN, used : Int]
  /\ trail \in Seq([id : Ids, prev : Tips])
  /\ audit \in [Replicas -> [last : Tips, queue : Seq(Ids)]]
  /\ meter \in [Calls -> {"none", "select", "insert", "update", "done"}]

PluginTypes ==
  /\ mem \in [Replicas -> [row : BOOLEAN, step : BOOLEAN, on : BOOLEAN, loaded : BOOLEAN]]
  /\ edit \in [Editors -> EditRecords]
  /\ \A e \in Editors : edit[e].at # "idle" => edit[e].rep \in Replicas

VendorTypes ==
  /\ cache \in [Replicas -> Int]
  /\ vendor \in [valid : Int, refuses : BOOLEAN]

SeenTypes ==
  seen \in [upsets : Nat, edits : Nat, revoked : Nat, want : [step : BOOLEAN, on : BOOLEAN],
            editor : SUBSET Replicas, overlap : BOOLEAN, torn : BOOLEAN,
            writers : SUBSET Replicas, unacked : BOOLEAN]

CallTypes ==
  /\ call \in [Calls -> CallRecords]
  /\ \A c \in Calls : call[c].at # "new" => call[c].rep \in Replicas

ToolCallTypes ==
  Chosen /\ BookTypes /\ PluginTypes /\ VendorTypes /\ SeenTypes /\ CallTypes

-------------------------------------------------------------------------------
(* What a scenario gives a call *)

LEMMA ScenarioOf ==
  ASSUME Chosen
  PROVE  /\ bound.calls \subseteq Calls
         /\ bound.edits \in Nat /\ bound.revocations \in Nat /\ bound.upsets \in Nat
         /\ hook.native \in BOOLEAN /\ hook.listed \in BOOLEAN /\ hook.denies \in BOOLEAN
         /\ \A c \in bound.calls :
              /\ job[c] \in JobKinds
              /\ job[c].plan \in Seq(Making) /\ Len(job[c].plan) \in Places
              /\ job[c].documented /\ Writes(job[c].plan) => job[c].held
              /\ \A m, n \in DOMAIN job[c].plan :
                   <<job[c].plan[m], job[c].plan[n]>> # <<SomeRead, SomeWrite>>
<1>1. \A c \in bound.calls : job[c] \in bound.jobs
  BY DEF Chosen
<1>2. \A j \in JobKinds : j.plan \in Seq(Making)
  BY DEF JobKinds
<1>3. bound.calls \subseteq Calls /\ bound.edits \in Nat /\ bound.revocations \in Nat /\ bound.upsets \in Nat
  BY ToolCallConstants DEF Chosen
<1>4. hook.native \in BOOLEAN /\ hook.listed \in BOOLEAN /\ hook.denies \in BOOLEAN
  BY ToolCallConstants DEF Chosen
<1>5. ASSUME NEW c \in bound.calls
      PROVE  /\ job[c] \in JobKinds
             /\ job[c].plan \in Seq(Making) /\ Len(job[c].plan) \in Places
             /\ job[c].documented /\ Writes(job[c].plan) => job[c].held
             /\ \A m, n \in DOMAIN job[c].plan :
                  <<job[c].plan[m], job[c].plan[n]>> # <<SomeRead, SomeWrite>>
  <2>1. job[c] \in bound.jobs /\ bound \in Scenarios
    BY <1>1 DEF Chosen
  <2>2. \A j \in bound.jobs :
            /\ j \in JobKinds /\ Len(j.plan) \in 1..LongestPlan
            /\ j.documented /\ Writes(j.plan) => j.held
            /\ \A m, n \in DOMAIN j.plan : <<j.plan[m], j.plan[n]>> # <<SomeRead, SomeWrite>>
    BY <2>1, ToolCallConstants, Zenon
  <2> QED
    BY <2>1, <2>2, <1>2, Zenon DEF Places
<1> QED
  BY <1>3, <1>4, <1>5, Zenon

(* The requests that follow *)
Skipped(c, n, next) == \A m \in DOMAIN job[c].plan : n < m /\ m < next => job[c].plan[m] = ElseRead

LEMMA LeastPlace ==
  ASSUME NEW S \in SUBSET Places, S # {}
  PROVE  (CHOOSE j \in S : \A k \in S : j <= k) \in S
         /\ \A k \in S : (CHOOSE j \in S : \A k2 \in S : j <= k2) <= k
<1>1. \E j \in S : \A k \in S : j <= k
  <2>1. CASE 1 \in S
    BY <2>1 DEF Places, LongestPlan
  <2>2. CASE 1 \notin S /\ 2 \in S
    BY <2>2 DEF Places, LongestPlan
  <2>3. CASE 1 \notin S /\ 2 \notin S /\ 3 \in S
    BY <2>3 DEF Places, LongestPlan
  <2>4. CASE 1 \notin S /\ 2 \notin S /\ 3 \notin S /\ 4 \in S
    BY <2>4 DEF Places, LongestPlan
  <2>5. CASE 1 \notin S /\ 2 \notin S /\ 3 \notin S /\ 4 \notin S
    <3>1. \A k \in S : k = 5
      BY <2>5 DEF Places, LongestPlan
    <3> QED
      BY <3>1
  <2> QED
    BY <2>1, <2>2, <2>3, <2>4, <2>5
<1>2. PICK j \in S : \A k \in S : j <= k
  BY <1>1
<1> QED
  BY <1>2, Zenon

LEMMA NextPlace ==
  ASSUME Chosen, NEW c \in bound.calls, call[c].i \in 1..(LongestPlan + 1), NEW noted \in BOOLEAN
  PROVE  /\ NextRequest(c, noted) \in 2..(Len(job[c].plan) + 1)
         /\ NextRequest(c, noted) \in 1..(LongestPlan + 1)
         /\ NextRequest(c, noted) <= Len(job[c].plan) => NextRequest(c, noted) > call[c].i
         /\ Skipped(c, call[c].i, NextRequest(c, noted))
<1> DEFINE plan == job[c].plan
           later == {j \in DOMAIN plan : j > call[c].i /\ (plan[j] = ElseRead => noted)}
<1>1. plan \in Seq(Making) /\ Len(plan) \in Places /\ DOMAIN plan = 1..Len(plan)
  BY ScenarioOf
<1>2. Len(plan) \in Places
  BY ScenarioOf
<1>3. later \subseteq Places /\ later \subseteq 2..Len(plan)
  BY <1>1 DEF Places, LongestPlan
<1>4. CASE later = {}
  <2>1. NextRequest(c, noted) = Len(plan) + 1
    BY <1>4 DEF NextRequest
  <2>2. \A m \in DOMAIN plan : call[c].i < m => plan[m] = ElseRead
    BY <1>4
  <2>3. Skipped(c, call[c].i, NextRequest(c, noted))
    BY <2>2, Zenon DEF Skipped
  <2>4. \A n \in Places : n + 1 \in 2..(n + 1) /\ n + 1 \in 1..(LongestPlan + 1) /\ ~(n + 1 <= n)
    BY ONLY SMT DEF Places, LongestPlan
  <2> QED
    BY <1>2, <2>1, <2>3, <2>4, Zenon
<1>5. CASE later # {}
  <2> DEFINE next == NextRequest(c, noted)
  <2>1. next = CHOOSE j \in later : \A k \in later : j <= k
    BY <1>5 DEF NextRequest
  <2>2. next \in later /\ \A k \in later : next <= k
    BY <1>3, <1>5, <2>1, LeastPlace
  <2> HIDE DEF next
  <2>3. \A m \in DOMAIN plan : call[c].i < m /\ m < next => plan[m] = ElseRead
    <3> SUFFICES ASSUME NEW m \in DOMAIN plan, call[c].i < m, m < next, plan[m] # ElseRead
                 PROVE FALSE
      OBVIOUS
    <3>1. m \in later
      BY <1>1
    <3> QED
      BY <3>1, <2>2, <1>1, <1>3
  <2>4. next > call[c].i
    BY <2>2
  <2> QED
    BY <2>2, <2>3, <2>4, <1>1, <1>3 DEF Places, LongestPlan, Skipped, next
<1> QED
  BY <1>4, <1>5

-------------------------------------------------------------------------------
(* The records a call becomes *)

LEMMA GoesOnTyped ==
  ASSUME Chosen, NEW c \in bound.calls, call[c].i \in 1..(LongestPlan + 1),
         NEW k \in CallRecords, NEW noted \in BOOLEAN
  PROVE  /\ GoesOn(c, k, noted) \in CallRecords
         /\ GoesOn(c, k, noted).rep = k.rep /\ GoesOn(c, k, noted).at # "new"
<1> DEFINE next == NextRequest(c, noted)
           ends == next > Len(job[c].plan)
           allFailed == k.some = 0 /\ \E j \in DOMAIN job[c].plan : job[c].plan[j] \in {SomeRead, SomeWrite}
           at == IF ~ends THEN "token" ELSE IF k.late THEN "done" ELSE "post"
           result == IF ~ends \/ k.late THEN k.result ELSE IF allFailed THEN "error" ELSE "ok"
<1>1. next \in 1..(LongestPlan + 1)
  BY NextPlace
<1>2. at \in {"token", "done", "post"}
  OBVIOUS
<1>3. result \in Outcomes
  BY DEF CallRecords, Outcomes
<1>4. GoesOn(c, k, noted) = [k EXCEPT !.at = at, !.i = next, !.retried = FALSE, !.sent = FALSE,
                                      !.noted = noted, !.result = result]
  BY DEF GoesOn
<1> HIDE DEF next, at, result
<1> QED
  BY <1>1, <1>2, <1>3, <1>4 DEF CallRecords, CallAts

LEMMA EndsTyped ==
  ASSUME NEW k \in CallRecords
  PROVE  /\ EndsInError(k) \in CallRecords /\ EndsInError(k).rep = k.rep /\ EndsInError(k).at # "new"
         /\ Throws(k) \in CallRecords /\ Throws(k).rep = k.rep /\ Throws(k).at # "new"
  BY DEF EndsInError, Throws, CallRecords, CallAts, Outcomes

LEMMA FailedTyped ==
  ASSUME Chosen, NEW c \in bound.calls, call[c].i \in 1..(LongestPlan + 1),
         NEW k \in CallRecords, NEW refused \in BOOLEAN, NEW k2 \in Failed(c, k, refused)
  PROVE  k2 \in CallRecords /\ k2.rep = k.rep /\ k2.at # "new"
<1>1. k2 \in {GoesOn(c, k, TRUE), Throws(k), EndsInError(k)}
  BY DEF Failed
<1>2. CASE k2 = GoesOn(c, k, TRUE)
  BY <1>2, GoesOnTyped
<1>3. CASE k2 = Throws(k) \/ k2 = EndsInError(k)
  BY <1>3, EndsTyped
<1> QED
  BY <1>1, <1>2, <1>3

LEMMA SentTyped ==
  ASSUME CallTypes, NEW c \in Calls
  PROVE  /\ Sent(c) \in CallRecords /\ Sent(c).rep = call[c].rep
         /\ Applied(c, Sent(c)) \in CallRecords /\ Applied(c, Sent(c)).rep = call[c].rep
<1>1. Sent(c) \in CallRecords /\ Sent(c).rep = call[c].rep
  BY DEF CallTypes, CallRecords, Sent
<1>2. ASSUME NEW k \in CallRecords, NEW n \in 1..(LongestPlan + 1)
      PROVE  /\ [k EXCEPT !.applied[n] = @ + 1] \in CallRecords
             /\ [k EXCEPT !.applied[n] = @ + 1].rep = k.rep
  <2>1. [k.applied EXCEPT ![n] = k.applied[n] + 1] \in [Places -> Nat]
    <3>1. k.applied \in [Places -> Nat]
      BY DEF CallRecords
    <3>2. CASE n \in Places
      BY <3>1, <3>2
    <3>3. CASE n \notin Places
      BY <3>1, <3>3
    <3> QED
      BY <3>2, <3>3
  <2>2. [k EXCEPT !.applied[n] = @ + 1]
          = [k EXCEPT !.applied = [k.applied EXCEPT ![n] = k.applied[n] + 1]]
    BY DEF CallRecords
  <2> HIDE DEF Places
  <2>3. ASSUME NEW f \in [Places -> Nat]
        PROVE  [k EXCEPT !.applied = f] \in CallRecords /\ [k EXCEPT !.applied = f].rep = k.rep
    BY DEF CallRecords
  <2> QED
    BY <2>1, <2>2, <2>3
<1>3. call[c].i \in 1..(LongestPlan + 1)
  BY DEF CallTypes, CallRecords
<1>4. Applied(c, Sent(c)) = IF Request(c) \in Writing
                            THEN [Sent(c) EXCEPT !.applied[call[c].i] = @ + 1] ELSE Sent(c)
  BY DEF Applied
<1> HIDE DEF CallRecords
<1> QED
  BY <1>1, <1>2, <1>3, <1>4, Zenon

-------------------------------------------------------------------------------
(* What a step does to a call.  Only its own actions, and the death of its       *)
(* replica, change it.                                                           *)
CallMoves(c) ==
  \/ \E r \in Replicas : CannotConnect(c, r) \/ Arrive(c, r) \/ BudgetUnread(c, r)
  \/ ApplyPre(c) \/ HookAnswers(c) \/ ApplyPost(c) \/ FilterAnswers(c)
  \/ GetToken(c) \/ RefreshToken(c) \/ Send(c) \/ Lose(c)
  \/ RefuseInput(c) \/ CheckInput(c) \/ UseKept(c)
  \/ PluginMissing(c) \/ Unreachable(c) \/ TimeOut(c) \/ Fail(c) \/ Reply(c)

MeterMoves(c) == MeterSelect(c) \/ MeterInsert(c) \/ MeterUpdate(c) \/ MeterFault(c)

LEMMA CallStepsSplit ==
  ASSUME NEW c, CallSteps(c)
  PROVE  CallMoves(c) \/ MeterMoves(c)
  BY Zenon DEF CallSteps, CallMoves, MeterMoves

LEMMA CallBecomes ==
  ASSUME Chosen, CallTypes, VendorTypes, NEW c \in bound.calls, CallMoves(c)
  PROVE  \E k \in CallRecords : k.rep \in Replicas /\ k.at # "new" /\ call' = [call EXCEPT ![c] = k]
<1> USE DEF CallAts, Answers, Outcomes
<1>1. c \in Calls /\ call[c] \in CallRecords /\ call[c].i \in 1..(LongestPlan + 1)
      /\ (call[c].at # "new" => call[c].rep \in Replicas)
  BY ScenarioOf DEF CallTypes, CallRecords
<1>2. CASE \E r \in Replicas : CannotConnect(c, r) \/ Arrive(c, r) \/ BudgetUnread(c, r)
  <2>1. PICK r \in Replicas : CannotConnect(c, r) \/ Arrive(c, r) \/ BudgetUnread(c, r)
    BY <1>2
  <2>2. PICK at \in {"done", "pre"}, result \in Outcomes :
          call' = [call EXCEPT ![c] = [@ EXCEPT !.at = at, !.rep = r, !.result = result]]
    <3>1. CASE CannotConnect(c, r)
      BY <3>1 DEF CannotConnect
    <3>2. [call[c] EXCEPT !.at = "pre", !.rep = r]
            = [call[c] EXCEPT !.at = "pre", !.rep = r, !.result = call[c].result] /\ call[c].result \in Outcomes
      BY <1>1 DEF CallRecords
    <3>3. CASE Arrive(c, r)
      BY <3>2, <3>3 DEF Arrive
    <3>4. CASE BudgetUnread(c, r)
      BY <3>2, <3>4 DEF BudgetUnread
    <3> QED
      BY <2>1, <3>1, <3>3, <3>4
  <2>3. [call[c] EXCEPT !.at = at, !.rep = r, !.result = result] \in CallRecords
    BY <1>1 DEF CallRecords
  <2> QED
    BY <2>2, <2>3 DEF CallRecords
<1>3. CASE ApplyPre(c) \/ ApplyPost(c)
  <2>1. ASSUME NEW point, NEW asking \in CallAts \ {"new"}, NEW next \in CallAts \ {"new"},
               Junction(c, point, asking, next), call[c].at # "new"
        PROVE  \E k \in CallRecords : k.rep \in Replicas /\ k.at # "new" /\ call' = [call EXCEPT ![c] = k]
    <3> DEFINE here == hook.point = point
               asks == here /\ Hooked(call[c].rep) /\ Asks(c)
               at == IF asks THEN asking ELSE next
               due == IF here THEN Owed(call[c].rep) ELSE call[c].due
               asked == IF asks THEN "asked" ELSE call[c].asked
               k == [call[c] EXCEPT !.at = at, !.due = due, !.asked = asked]
    <3>1. call' = [call EXCEPT ![c] = k]
      BY <2>1, Zenon DEF Junction
    <3>2. at \in CallAts \ {"new"}
      OBVIOUS
    <3>3. due \in BOOLEAN
      BY <1>1 DEF CallRecords, Owed
    <3>4. asked \in Answers
      BY <1>1 DEF CallRecords
    <3> HIDE DEF at, due, asked
    <3>5. ASSUME NEW a \in CallAts \ {"new"}, NEW d \in BOOLEAN, NEW s \in Answers
          PROVE  /\ [call[c] EXCEPT !.at = a, !.due = d, !.asked = s] \in CallRecords
                 /\ [call[c] EXCEPT !.at = a, !.due = d, !.asked = s].rep = call[c].rep
                 /\ [call[c] EXCEPT !.at = a, !.due = d, !.asked = s].at # "new"
      <4> DEFINE k1 == [call[c] EXCEPT !.at = a, !.asked = s]
      <4>1. k1 \in CallRecords /\ k1.rep = call[c].rep /\ k1.at = a
        BY <1>1, ZenonT(40) DEF CallRecords
      <4>2. [call[c] EXCEPT !.at = a, !.due = d, !.asked = s] = [k1 EXCEPT !.due = d]
        BY <1>1 DEF CallRecords
      <4> HIDE DEF k1
      <4>3. [k1 EXCEPT !.due = d] \in CallRecords /\ [k1 EXCEPT !.due = d].rep = k1.rep
            /\ [k1 EXCEPT !.due = d].at = k1.at
        BY <4>1 DEF CallRecords
      <4> QED
        BY <4>1, <4>2, <4>3
    <3>6. k \in CallRecords /\ k.rep = call[c].rep /\ k.at # "new"
      BY <3>2, <3>3, <3>4, <3>5, Zenon
    <3>7. call[c].rep \in Replicas
      BY <2>1, <1>1
    <3> HIDE DEF k
    <3> QED
      BY <3>1, <3>6, <3>7, Zenon
  <2>2. CASE ApplyPre(c)
    BY <2>1, <2>2 DEF ApplyPre
  <2>3. CASE ApplyPost(c)
    BY <2>1, <2>3 DEF ApplyPost
  <2> QED
    BY <1>3, <2>2, <2>3
<1>4. CASE HookAnswers(c) \/ FilterAnswers(c)
  <2>1. PICK k \in {[call[c] EXCEPT !.at = "token", !.asked = "allowed"],
                    [call[c] EXCEPT !.at = "done", !.asked = "denied", !.result = "denied"],
                    [call[c] EXCEPT !.at = "token", !.asked = "threw"],
                    [call[c] EXCEPT !.at = "reply", !.asked = "allowed"],
                    [call[c] EXCEPT !.at = "reply", !.asked = "threw"]} :
          call' = [call EXCEPT ![c] = k]
    BY <1>4, Zenon DEF HookAnswers, FilterAnswers
  <2>2. k \in CallRecords /\ k.rep = call[c].rep /\ k.at # "new"
    BY <2>1, <1>1, ZenonT(40) DEF CallRecords
  <2>3. call[c].rep \in Replicas
    BY <1>1, <1>4 DEF HookAnswers, FilterAnswers
  <2> QED
    BY <2>1, <2>2, <2>3
<1>5. CASE GetToken(c)
  <2>1. call[c].rep \in Replicas
    BY <1>1, <1>5 DEF GetToken
  <2>2. PICK token \in Int : call' = [call EXCEPT ![c] = [call[c] EXCEPT !.at = "send", !.token = token]]
    <3>1. vendor.valid \in Int /\ Cached(c) \in Int
      BY <2>1 DEF VendorTypes, Cached
    <3> QED
      BY <1>1, <1>5, <3>1 DEF GetToken
  <2> DEFINE k == [call[c] EXCEPT !.at = "send", !.token = token]
  <2>3. k \in CallRecords /\ k.rep = call[c].rep /\ k.at = "send"
    BY <1>1 DEF CallRecords
  <2> QED
    BY <2>1, <2>2, <2>3
<1>6. CASE RefreshToken(c)
  <2> DEFINE k == [call[c] EXCEPT !.at = "token", !.retried = (job[c].retries = "once")]
  <2>1. call[c].rep \in Replicas /\ call' = [call EXCEPT ![c] = k]
    BY <1>1, <1>6 DEF RefreshToken
  <2>2. k \in CallRecords /\ k.rep = call[c].rep /\ k.at = "token"
    BY <1>1 DEF CallRecords
  <2> QED
    BY <2>1, <2>2
<1>7. CASE Send(c) \/ Lose(c)
  <2>0. call[c].rep \in Replicas
    BY <1>1, <1>7 DEF Send, Lose
  <2>1. ASSUME NEW k \in CallRecords, k.rep = call[c].rep, NEW n \in Nat
        PROVE  [k EXCEPT !.some = n] \in CallRecords /\ [k EXCEPT !.some = n].rep = call[c].rep
    BY <2>1 DEF CallRecords
  <2>2. PICK k : /\ call' = [call EXCEPT ![c] = k]
                 /\ \/ k = [Sent(c) EXCEPT !.at = "force"]
                    \/ \E refused \in BOOLEAN, k2 \in {Sent(c), Applied(c, Sent(c))} :
                         k \in Failed(c, k2, refused)
                    \/ \E n \in Nat : k = GoesOn(c, [Applied(c, Sent(c)) EXCEPT !.some = n], FALSE)
    <3>1. CASE Lose(c)
      BY <3>1, Zenon DEF Lose, Becomes, AfterLoss
    <3>2. CASE Send(c) /\ Unauthorized(c)
      BY <3>2 DEF Send, Becomes
    <3>3. CASE Send(c) /\ ~Unauthorized(c)
      <4>1. Applied(c, Sent(c)).some \in Nat
        BY SentTyped, <1>1 DEF CallRecords
      <4> DEFINE some == IF Request(c) \in {SomeRead, SomeWrite} THEN Applied(c, Sent(c)).some + 1
                         ELSE Applied(c, Sent(c)).some
      <4>2. some \in Nat
        BY <4>1
      <4>3. \/ Becomes(c, {GoesOn(c, [Applied(c, Sent(c)) EXCEPT !.some = some], FALSE)})
            \/ Becomes(c, Failed(c, Sent(c), TRUE))
        BY <3>3, Zenon DEF Send
      <4> QED
        BY <4>2, <4>3, Zenon DEF Becomes
    <3> QED
      BY <1>7, <3>1, <3>2, <3>3
  <2>3. CASE k = [Sent(c) EXCEPT !.at = "force"]
    <3>1. k \in CallRecords /\ k.rep = call[c].rep /\ k.at = "force"
      BY <2>3, SentTyped, <1>1 DEF CallRecords
    <3> QED
      BY <3>1, <2>2, <2>0
  <2>4. CASE \E refused \in BOOLEAN, k2 \in {Sent(c), Applied(c, Sent(c))} : k \in Failed(c, k2, refused)
    <3>1. k \in CallRecords /\ k.rep = call[c].rep /\ k.at # "new"
      <4>1. PICK refused \in BOOLEAN, k2 \in {Sent(c), Applied(c, Sent(c))} : k \in Failed(c, k2, refused)
        BY <2>4
      <4>2. k2 \in CallRecords /\ k2.rep = call[c].rep
        BY <4>1, <1>1, SentTyped
      <4> QED
        BY <4>1, <4>2, <1>1, FailedTyped
    <3> QED
      BY <3>1, <2>2, <2>0
  <2>5. CASE \E n \in Nat : k = GoesOn(c, [Applied(c, Sent(c)) EXCEPT !.some = n], FALSE)
    <3>1. PICK n \in Nat : k = GoesOn(c, [Applied(c, Sent(c)) EXCEPT !.some = n], FALSE)
      BY <2>5
    <3>2. [Applied(c, Sent(c)) EXCEPT !.some = n] \in CallRecords
          /\ [Applied(c, Sent(c)) EXCEPT !.some = n].rep = call[c].rep
      BY <2>1, SentTyped, <1>1
    <3>3. k \in CallRecords /\ k.rep = call[c].rep /\ k.at # "new"
      BY <3>1, <3>2, <1>1, GoesOnTyped
    <3> QED
      BY <3>3, <2>2, <2>0
  <2> QED
    BY <2>2, <2>3, <2>4, <2>5, Zenon
<1>8. CASE RefuseInput(c) \/ CheckInput(c) \/ UseKept(c)
  <2>1. call[c].rep \in Replicas
    BY <1>1, <1>8 DEF RefuseInput, Fresh, CheckInput, UseKept
  <2>2. PICK k \in {GoesOn(c, call[c], FALSE), EndsInError(call[c])} : call' = [call EXCEPT ![c] = k]
    BY <1>1, <1>8 DEF RefuseInput, CheckInput, UseKept
  <2>3. k \in CallRecords /\ k.rep = call[c].rep /\ k.at # "new"
    <3>1. CASE k = GoesOn(c, call[c], FALSE)
      BY <3>1, <1>1, GoesOnTyped
    <3>2. CASE k = EndsInError(call[c])
      BY <3>2, <1>1, EndsTyped
    <3> QED
      BY <2>2, <3>1, <3>2
  <2> QED
    BY <2>1, <2>2, <2>3
<1>9. CASE PluginMissing(c) \/ Unreachable(c) \/ TimeOut(c)
  <2>1. call[c].rep \in Replicas
    BY <1>1, <1>9 DEF PluginMissing, Unreachable, TimeOut, Fresh
  <2>2. CASE PluginMissing(c) \/ Unreachable(c)
    <3>1. call' = [call EXCEPT ![c] = [call[c] EXCEPT !.at = "fail"]]
      BY <2>2, <1>1 DEF PluginMissing, Unreachable, Goes, CallTypes
    <3>2. [call[c] EXCEPT !.at = "fail"] \in CallRecords /\ [call[c] EXCEPT !.at = "fail"].rep = call[c].rep
          /\ [call[c] EXCEPT !.at = "fail"].at = "fail"
      BY <1>1 DEF CallRecords
    <3> QED
      BY <3>1, <3>2, <2>1
  <2>3. CASE TimeOut(c)
    <3> DEFINE k == [call[c] EXCEPT !.late = TRUE, !.result = "threw"]
    <3>1. call' = [call EXCEPT ![c] = k] /\ call[c].at # "new"
      BY <2>3, <1>1 DEF TimeOut
    <3>2. k \in CallRecords /\ k.rep = call[c].rep /\ k.at = call[c].at
      BY <1>1 DEF CallRecords
    <3> QED
      BY <3>1, <3>2, <2>1
  <2> QED
    BY <1>9, <2>2, <2>3
<1>10. CASE Fail(c) \/ Reply(c)
  <2>1. call[c].rep \in Replicas
    BY <1>1, <1>10 DEF Fail, Reply
  <2>2. CASE Fail(c)
    <3> DEFINE k == [call[c] EXCEPT !.at = "done", !.result = "threw"]
    <3>1. call' = [call EXCEPT ![c] = k]
      BY <2>2, <1>1 DEF Fail
    <3>2. k \in CallRecords /\ k.rep = call[c].rep /\ k.at = "done"
      BY <1>1 DEF CallRecords
    <3> QED
      BY <3>1, <3>2, <2>1
  <2>3. CASE Reply(c)
    <3> DEFINE k == [call[c] EXCEPT !.at = "done"]
    <3>1. call' = [call EXCEPT ![c] = k]
      BY <2>3, <1>1 DEF Reply, Goes, CallTypes
    <3>2. k \in CallRecords /\ k.rep = call[c].rep /\ k.at = "done"
      BY <1>1 DEF CallRecords
    <3> QED
      BY <3>1, <3>2, <2>1
  <2> QED
    BY <1>10, <2>2, <2>3
<1> QED
  BY <1>2, <1>3, <1>4, <1>5, <1>6, <1>7, <1>8, <1>9, <1>10, Zenon DEF CallMoves

LEMMA ConstantVars ==
  ASSUME [Next]_vars
  PROVE  bound' = bound /\ job' = job /\ hook' = hook
<1>1. CASE \E c \in bound.calls : CallSteps(c)
  <2>1. PICK c \in bound.calls : CallMoves(c) \/ MeterMoves(c)
    BY <1>1, CallStepsSplit, Zenon
  <2>2. CASE CallMoves(c)
    BY <2>2, Zenon DEF CallMoves, CannotConnect, Arrive, BudgetUnread, ApplyPre, HookAnswers, ApplyPost,
         FilterAnswers, GetToken, RefreshToken, Send, Lose, RefuseInput, CheckInput, UseKept,
         PluginMissing, Unreachable, TimeOut, Fail, Reply, plugins
  <2>3. CASE MeterMoves(c)
    BY <2>3, Zenon DEF MeterMoves, MeterSelect, MeterInsert, MeterUpdate, MeterFault
  <2> QED
    BY <2>1, <2>2, <2>3
<1>2. CASE \E e \in Editors : EditSteps(e)
  BY <1>2, ZenonT(40) DEF EditSteps, StartEdit, DeleteSteps, InsertSteps, SwitchPlugin, ClearLoaded, Configure,
       Import, DropPlugin, DropSteps, Seed, LoadModules, RefreshRecords, LoadPipeline, EditFails
<1>3. CASE \E r \in Replicas : AppendRecord(r) \/ AppendFails(r) \/ Restart(r)
  BY <1>3, Zenon DEF AppendRecord, AppendFails, Restart
<1>4. CASE Revoke
  BY <1>4, Zenon DEF Revoke, plugins
<1>5. CASE UNCHANGED vars
  BY <1>5, Zenon DEF vars
<1> QED
  BY <1>1, <1>2, <1>3, <1>4, <1>5, Zenon DEF Next

(* The steps that are no call's own *)
LEMMA CallsUntouched ==
  ASSUME Next \/ UNCHANGED vars
  PROVE  \/ \E c \in bound.calls : CallMoves(c)
         \/ \E r \in Replicas : Restart(r)
         \/ call' = call
<1>1. ASSUME NEW c, MeterMoves(c) PROVE call' = call
  BY <1>1, Zenon DEF MeterMoves, MeterSelect, MeterInsert, MeterUpdate, MeterFault
<1>2. ASSUME NEW e, EditSteps(e) PROVE call' = call
  BY <1>2, Zenon DEF EditSteps, StartEdit, DeleteSteps, InsertSteps, SwitchPlugin, ClearLoaded, Configure,
       Import, DropPlugin, DropSteps, Seed, LoadModules, RefreshRecords, LoadPipeline, EditFails
<1>3. ASSUME NEW r, AppendRecord(r) \/ AppendFails(r) PROVE call' = call
  BY <1>3, Zenon DEF AppendRecord, AppendFails
<1>4. Revoke \/ UNCHANGED vars => call' = call
  BY Zenon DEF Revoke, vars
<1> QED
  BY <1>1, <1>2, <1>3, <1>4, CallStepsSplit, Zenon DEF Next

LEMMA CallTypesStep ==
  ASSUME Chosen, CallTypes, VendorTypes, [Next]_vars
  PROVE  CallTypes'
<1>1. CASE \E c \in bound.calls : CallMoves(c)
  <2>1. PICK c \in bound.calls : CallMoves(c)
    BY <1>1
  <2>2. PICK k \in CallRecords : k.rep \in Replicas /\ k.at # "new" /\ call' = [call EXCEPT ![c] = k]
    BY <2>1, CallBecomes
  <2>3. c \in Calls
    BY ScenarioOf
  <2> QED
    BY <2>2, <2>3 DEF CallTypes
<1>2. CASE \E r \in Replicas : Restart(r)
  <2>1. PICK r \in Replicas :
          call' = [c \in Calls |-> IF call[c].rep = r /\ call[c].at # "new"
                                   THEN [call[c] EXCEPT !.at = "gone"] ELSE call[c]]
    BY <1>2, Zenon DEF Restart
  <2>2. \A k \in CallRecords : /\ [k EXCEPT !.at = "gone"] \in CallRecords
                               /\ [k EXCEPT !.at = "gone"].rep = k.rep
    BY DEF CallRecords, CallAts
  <2> QED
    BY <2>1, <2>2 DEF CallTypes
<1>3. CASE call' = call
  BY <1>3 DEF CallTypes
<1> QED
  BY <1>1, <1>2, <1>3, CallsUntouched

-------------------------------------------------------------------------------
(* The other types *)

LEMMA RowTyped ==
  ASSUME BookTypes, NEW r \in Replicas, audit[r].queue # <<>>
  PROVE  /\ Row(r) \in [id : Ids, prev : Tips] /\ Row(r).id = Head(audit[r].queue)
         /\ Row(r).prev = audit[r].last /\ Tail(audit[r].queue) \in Seq(Ids)
  BY DEF BookTypes, Row, Tips

LEMMA EnqueueTyped ==
  ASSUME BookTypes, NEW r \in Replicas, NEW id \in Ids, Enqueue(r, id)
  PROVE  audit' \in [Replicas -> [last : Tips, queue : Seq(Ids)]]
<1>1. Append(audit[r].queue, id) \in Seq(Ids)
  BY DEF BookTypes
<1>2. [audit[r] EXCEPT !.queue = Append(audit[r].queue, id)] \in [last : Tips, queue : Seq(Ids)]
  BY <1>1 DEF BookTypes
<1>3. audit' = [audit EXCEPT ![r] = [audit[r] EXCEPT !.queue = Append(audit[r].queue, id)]]
  BY DEF Enqueue, BookTypes
<1> QED
  BY <1>2, <1>3 DEF BookTypes

(* What the calls do to the books *)
LEMMA CallsBooks ==
  ASSUME NEW c, CallMoves(c)
  PROVE  /\ db' = db /\ trail' = trail
         /\ \/ UNCHANGED <<audit, meter>>
            \/ /\ meter' = meter
               /\ \E r \in Replicas : Arrive(c, r) /\ OverBudget /\ Enqueue(r, <<c, "budget">>)
            \/ TimeOut(c) /\ meter' = meter /\ Enqueue(call[c].rep, <<c, "failure">>)
            \/ Fail(c) /\ meter' = meter /\ Enqueue(call[c].rep, <<c, "failure">>)
            \/ /\ Reply(c) /\ meter' = [meter EXCEPT ![c] = "select"]
               /\ Enqueue(call[c].rep, <<c, "success">>)
<1>1. ASSUME NEW r \in Replicas, CannotConnect(c, r) \/ Arrive(c, r) \/ BudgetUnread(c, r)
      PROVE  /\ db' = db /\ trail' = trail /\ meter' = meter
             /\ audit' = audit \/ (Arrive(c, r) /\ OverBudget /\ Enqueue(r, <<c, "budget">>))
  BY <1>1, Zenon DEF CannotConnect, Arrive, BudgetUnread, books
<1>2. CASE \/ ApplyPre(c) \/ HookAnswers(c) \/ ApplyPost(c) \/ FilterAnswers(c)
           \/ GetToken(c) \/ RefreshToken(c) \/ Send(c) \/ Lose(c)
           \/ RefuseInput(c) \/ CheckInput(c) \/ UseKept(c) \/ PluginMissing(c) \/ Unreachable(c)
  BY <1>2, Zenon DEF ApplyPre, HookAnswers, ApplyPost, FilterAnswers, GetToken, RefreshToken, Send, Lose,
       RefuseInput, CheckInput, UseKept, PluginMissing, Unreachable, books
<1>3. CASE TimeOut(c) \/ Fail(c) \/ Reply(c)
  BY <1>3, Zenon DEF TimeOut, Fail, Reply
<1> QED
  BY <1>1, <1>2, <1>3, Zenon DEF CallMoves

(* What the edits do to the books: the plugin's row, its switch and its step *)
LEMMA EditsBooks ==
  ASSUME NEW e, EditSteps(e)
  PROVE  /\ UNCHANGED <<trail, audit, meter, cache, call, vendor>>
         /\ \/ db' = db
            \/ DeleteSteps(e) \/ InsertSteps(e) \/ SwitchPlugin(e) \/ (Import(e) /\ db' = Ingested)
            \/ DropPlugin(e) \/ DropSteps(e) \/ (Seed(e) /\ db' = Ingested)
<1>1. CASE \E r \in Replicas, kind \in {"pipeline", "switch", "configure"} \cup Rescans, to \in BOOLEAN :
             StartEdit(e, r, kind, to)
  BY <1>1, Zenon DEF StartEdit, books
<1>2. CASE ClearLoaded(e) \/ Configure(e) \/ LoadModules(e) \/ RefreshRecords(e) \/ LoadPipeline(e) \/ EditFails(e)
  BY <1>2, Zenon DEF ClearLoaded, Configure, LoadModules, RefreshRecords, LoadPipeline, EditFails, books
<1>3. CASE DeleteSteps(e) \/ InsertSteps(e) \/ SwitchPlugin(e) \/ DropPlugin(e) \/ DropSteps(e)
  BY <1>3, Zenon DEF DeleteSteps, InsertSteps, SwitchPlugin, DropPlugin, DropSteps
<1>4. CASE Import(e)
  BY <1>4, Zenon DEF Import
<1>5. CASE Seed(e)
  <2>1. db' = db \/ db' = Ingested
    BY <1>5, Zenon DEF Seed, Seeded
  <2> QED
    BY <1>5, <2>1, Zenon DEF Seed
<1> QED
  BY <1>1, <1>2, <1>3, <1>4, <1>5, Zenon DEF EditSteps

LEMMA CallsCount ==
  ASSUME NEW c, CallMoves(c) \/ MeterMoves(c)
  PROVE  db' \in {db, Counted, [db EXCEPT !.used = 1], [db EXCEPT !.used = IF @ = NoRow THEN 1 ELSE @]}
<1>1. CASE CallMoves(c)
  BY <1>1, CallsBooks
<1>2. CASE MeterSelect(c) \/ MeterInsert(c) \/ MeterUpdate(c)
  BY <1>2, Zenon DEF MeterSelect, MeterInsert, MeterUpdate
<1>3. CASE MeterFault(c)
  BY <1>3, Zenon DEF MeterFault
<1> QED
  BY <1>1, <1>2, <1>3 DEF MeterMoves

LEMMA DbTypesStep ==
  ASSUME Chosen, BookTypes, PluginTypes, [Next]_vars
  PROVE  db' \in [row : BOOLEAN, step : BOOLEAN, on : BOOLEAN, used : Int]
<1> DEFINE Dbs == [row : BOOLEAN, step : BOOLEAN, on : BOOLEAN, used : Int]
<1>1. db \in Dbs
  BY DEF BookTypes
<1>2. db' = db => db' \in Dbs
  BY <1>1
<1>3. Ingested \in Dbs
  BY <1>1 DEF Ingested
<1>4. ASSUME NEW c \in bound.calls, CallSteps(c) PROVE db' \in Dbs
  <2>1. Counted \in Dbs /\ [db EXCEPT !.used = 1] \in Dbs
        /\ [db EXCEPT !.used = IF @ = NoRow THEN 1 ELSE @] \in Dbs
    <3>1. \A n \in Int : [db EXCEPT !.used = n] \in Dbs
      BY <1>1
    <3>2. db.used \in Int /\ NoRow \in Int
      BY <1>1 DEF NoRow
    <3>3. (IF db.used = NoRow THEN NoRow ELSE db.used + 1) \in Int
      BY <3>2
    <3>4. Counted = [db EXCEPT !.used = IF db.used = NoRow THEN NoRow ELSE db.used + 1]
      BY Zenon DEF Counted
    <3>5. (IF db.used = NoRow THEN 1 ELSE db.used) \in Int
      BY <3>2
    <3> QED
      BY <3>1, <3>3, <3>4, <3>5
  <2>2. db' \in {db, Counted, [db EXCEPT !.used = 1], [db EXCEPT !.used = IF @ = NoRow THEN 1 ELSE @]}
    BY <1>4, CallStepsSplit, CallsCount
  <2> QED
    BY <1>1, <2>1, <2>2
<1>5. ASSUME NEW e \in Editors, EditSteps(e) PROVE db' \in Dbs
  <2>1. CASE DeleteSteps(e) \/ InsertSteps(e) \/ DropPlugin(e) \/ DropSteps(e)
    BY <1>1, <2>1 DEF DeleteSteps, InsertSteps, DropPlugin, DropSteps
  <2>2. CASE SwitchPlugin(e)
    <3>1. db' = [db EXCEPT !.on = edit[e].to /\ db.row]
      BY <2>2 DEF SwitchPlugin
    <3>2. (edit[e].to /\ db.row) \in BOOLEAN
      OBVIOUS
    <3> QED
      BY <1>1, <3>1, <3>2
  <2>3. CASE db' = db \/ db' = Ingested
    BY <1>1, <1>3, <2>3
  <2> QED
    BY <1>5, <2>1, <2>2, <2>3, EditsBooks, Zenon
<1>6. ASSUME NEW r \in Replicas, AppendRecord(r) \/ AppendFails(r) \/ Restart(r) PROVE db' \in Dbs
  <2>1. db' = db \/ db' = Ingested
    BY <1>6, Zenon DEF AppendRecord, AppendFails, Restart, Seeded
  <2> QED
    BY <1>1, <1>3, <2>1
<1>7. CASE Revoke \/ UNCHANGED vars
  BY <1>1, <1>7 DEF Revoke, vars, books
<1> QED
  BY <1>4, <1>5, <1>6, <1>7, Zenon DEF Next

LEMMA TrailTypesStep ==
  ASSUME Chosen, BookTypes, CallTypes, [Next]_vars
  PROVE  /\ trail' \in Seq([id : Ids, prev : Tips])
         /\ audit' \in [Replicas -> [last : Tips, queue : Seq(Ids)]]
<1> DEFINE Trails == Seq([id : Ids, prev : Tips])
           Audits == [Replicas -> [last : Tips, queue : Seq(Ids)]]
<1>1. trail \in Trails /\ audit \in Audits
  BY DEF BookTypes
<1>2. CASE trail' = trail /\ audit' = audit
  BY <1>1, <1>2
<1>3. ASSUME NEW c \in bound.calls, CallSteps(c) PROVE trail' \in Trails /\ audit' \in Audits
  <2>1. c \in Calls
    BY ScenarioOf
  <2>2. \A what \in {"budget", "success", "failure"} : <<c, what>> \in Ids
    BY <2>1 DEF Ids
  <2>3. ASSUME \E r \in Replicas : Enqueue(r, <<c, "budget">>) PROVE audit' \in Audits
    <3>1. PICK r \in Replicas : Enqueue(r, <<c, "budget">>)
      BY <2>3
    <3>2. <<c, "budget">> \in Ids
      BY <2>2
    <3> QED
      BY <3>1, <3>2, EnqueueTyped
  <2>4. ASSUME \E what \in {"failure", "success"} : Enqueue(call[c].rep, <<c, what>>), call[c].at # "new"
        PROVE  audit' \in Audits
    <3>1. call[c].rep \in Replicas
      BY <2>1, <2>4 DEF CallTypes
    <3>2. PICK what \in {"failure", "success"} : Enqueue(call[c].rep, <<c, what>>)
      BY <2>4
    <3>3. <<c, what>> \in Ids
      BY <2>2
    <3> QED
      BY <3>1, <3>2, <3>3, EnqueueTyped
  <2>5. CASE CallMoves(c)
    <3>1. trail' = trail
      BY <2>5, CallsBooks
    <3>2. TimeOut(c) \/ Fail(c) \/ Reply(c) => call[c].at # "new"
      BY DEF TimeOut, Fail, Reply
    <3> QED
      BY <1>1, <2>3, <2>4, <2>5, <3>1, <3>2, CallsBooks
  <2>6. CASE MeterMoves(c)
    BY <1>1, <2>6 DEF MeterMoves, MeterSelect, MeterInsert, MeterUpdate, MeterFault
  <2> QED
    BY <1>3, <2>5, <2>6, CallStepsSplit
<1>4. ASSUME NEW e, EditSteps(e) PROVE trail' \in Trails /\ audit' \in Audits
  BY <1>1, <1>4, EditsBooks
<1>5. ASSUME NEW r \in Replicas, AppendRecord(r) \/ AppendFails(r) PROVE trail' \in Trails /\ audit' \in Audits
  <2>1. audit[r].queue # <<>> /\ trail' \in {trail, Append(trail, Row(r))}
        /\ \E tip \in {Row(r).id, audit[r].last} : Advance(r, tip)
    BY <1>5 DEF AppendRecord, AppendFails, HeadAfterFailure
  <2>2. PICK tip \in {Row(r).id, audit[r].last} : Advance(r, tip)
    BY <2>1
  <2>3. Row(r) \in [id : Ids, prev : Tips] /\ Row(r).id \in Tips /\ audit[r].last \in Tips
        /\ Tail(audit[r].queue) \in Seq(Ids)
    BY <2>1, RowTyped DEF Tips, BookTypes
  <2>4. audit' = [audit EXCEPT ![r] = [last |-> tip, queue |-> Tail(audit[r].queue)]]
    BY <2>2, Zenon DEF Advance
  <2>5. [last |-> tip, queue |-> Tail(audit[r].queue)] \in [last : Tips, queue : Seq(Ids)]
    BY <2>2, <2>3
  <2>6. audit' \in Audits
    BY <1>1, <2>4, <2>5
  <2>7. Append(trail, Row(r)) \in Trails
    <3>1. Row(r) \in [id : Ids, prev : Tips]
      BY <2>3
    <3> QED
      BY <1>1, <3>1, AppendProperties
  <2>8. trail' \in Trails
    BY ONLY <1>1, <2>1, <2>7, Zenon
  <2> QED
    BY <2>6, <2>8
<1>6. ASSUME NEW r \in Replicas, Restart(r) PROVE trail' \in Trails /\ audit' \in Audits
  <2> DEFINE tip == IF trail = <<>> THEN Genesis ELSE trail[Len(trail)].id
  <2>1. trail' = trail /\ audit' = [audit EXCEPT ![r] = [last |-> tip, queue |-> <<>>]]
    BY <1>6, Zenon DEF Restart
  <2>2. tip \in Tips
    <3>1. CASE trail = <<>>
      BY <3>1 DEF Tips
    <3>2. CASE trail # <<>>
      <4>1. Len(trail) \in 1..Len(trail)
        BY <1>1, <3>2
      <4>2. trail[Len(trail)] \in [id : Ids, prev : Tips]
        BY <1>1, <4>1, ElementOfSeq
      <4> QED
        BY <3>2, <4>2 DEF Tips
    <3> QED
      BY <3>1, <3>2
  <2> HIDE DEF tip
  <2>3. <<>> \in Seq(Ids)
    OBVIOUS
  <2> QED
    BY <1>1, <2>1, <2>2, <2>3
<1>7. CASE Revoke \/ UNCHANGED vars
  BY <1>1, <1>7 DEF Revoke, vars, books
<1> QED
  BY <1>3, <1>4, <1>5, <1>6, <1>7, Zenon DEF Next

LEMMA MeterTypesStep ==
  ASSUME Chosen, BookTypes, [Next]_vars
  PROVE  meter' \in [Calls -> {"none", "select", "insert", "update", "done"}]
<1> DEFINE Meters == [Calls -> {"none", "select", "insert", "update", "done"}]
<1>1. meter \in Meters
  BY DEF BookTypes
<1>2. ASSUME NEW c \in bound.calls, CallSteps(c) PROVE meter' \in Meters
  <2>1. CASE CallMoves(c)
    BY <1>1, <2>1, CallsBooks
  <2>2. CASE MeterMoves(c)
    BY <1>1, <2>2 DEF MeterMoves, MeterSelect, MeterInsert, MeterUpdate, MeterFault, AfterConflict
  <2> QED
    BY <1>2, <2>1, <2>2, CallStepsSplit
<1>3. ASSUME NEW e, EditSteps(e) PROVE meter' \in Meters
  BY <1>1, <1>3, EditsBooks
<1>4. ASSUME NEW r \in Replicas, AppendRecord(r) \/ AppendFails(r) PROVE meter' \in Meters
  BY <1>1, <1>4 DEF AppendRecord, AppendFails
<1>5. ASSUME NEW r \in Replicas, Restart(r) PROVE meter' \in Meters
  <2>1. meter' = [c \in Calls |-> IF call[c].rep = r THEN "none" ELSE meter[c]]
    BY <1>5, Zenon DEF Restart
  <2> QED
    BY <1>1, <2>1
<1>6. CASE Revoke \/ UNCHANGED vars
  BY <1>1, <1>6 DEF Revoke, vars, books
<1> QED
  BY <1>2, <1>3, <1>4, <1>5, <1>6, Zenon DEF Next

LEMMA CallsAndPlugins ==
  ASSUME NEW c, CallMoves(c) \/ MeterMoves(c)
  PROVE  mem' = mem /\ edit' = edit
<1>1. CASE CallMoves(c)
  BY <1>1, Zenon DEF CallMoves, CannotConnect, Arrive, BudgetUnread, ApplyPre, HookAnswers, ApplyPost,
       FilterAnswers, GetToken, RefreshToken, Send, Lose, RefuseInput, CheckInput, UseKept,
       PluginMissing, Unreachable, TimeOut, Fail, Reply, plugins
<1>2. CASE MeterMoves(c)
  BY <1>2, Zenon DEF MeterMoves, MeterSelect, MeterInsert, MeterUpdate, MeterFault
<1> QED
  BY <1>1, <1>2

LEMMA EditAdvances ==
  ASSUME PluginTypes, NEW e \in Editors, edit[e].at # "idle", NEW at \in EditAts, EditTo(e, at)
  PROVE  /\ edit' \in [Editors -> EditRecords]
         /\ \A f \in Editors : edit'[f].at # "idle" => edit'[f].rep \in Replicas
<1>1. edit' = [edit EXCEPT ![e] = [edit[e] EXCEPT !.at = at]]
  BY DEF EditTo, PluginTypes
<1>2. [edit[e] EXCEPT !.at = at] \in EditRecords /\ [edit[e] EXCEPT !.at = at].rep = edit[e].rep
  BY DEF PluginTypes, EditRecords
<1> HIDE DEF EditRecords
<1> QED
  BY <1>1, <1>2 DEF PluginTypes

LEMMA EditStops ==
  ASSUME PluginTypes
  PROVE  /\ NoEdit \in EditRecords
         /\ \A e \in Editors : edit' = [edit EXCEPT ![e] = NoEdit] =>
              /\ edit' \in [Editors -> EditRecords]
              /\ \A f \in Editors : edit'[f].at # "idle" => edit'[f].rep \in Replicas
<1>1. NoEdit \in EditRecords
  BY DEF NoEdit, EditRecords, EditAts, EditKinds, Rescans
<1>2. NoEdit.at = "idle"
  BY DEF NoEdit
<1> HIDE DEF EditRecords, NoEdit
<1> QED
  BY <1>1, <1>2 DEF PluginTypes

LEMMA PluginTypesStep ==
  ASSUME Chosen, BookTypes, PluginTypes, [Next]_vars
  PROVE  PluginTypes'
<1> DEFINE Mems == [Replicas -> [row : BOOLEAN, step : BOOLEAN, on : BOOLEAN, loaded : BOOLEAN]]
           EditOk == /\ edit' \in [Editors -> EditRecords]
                     /\ \A f \in Editors : edit'[f].at # "idle" => edit'[f].rep \in Replicas
<1>0. /\ mem \in Mems /\ db.row \in BOOLEAN /\ db.step \in BOOLEAN /\ db.on \in BOOLEAN
      /\ edit \in [Editors -> EditRecords]
      /\ \A e \in Editors : edit[e].at # "idle" => edit[e].rep \in Replicas
  BY DEF PluginTypes, BookTypes
<1>1. mem' \in Mems /\ EditOk => PluginTypes'
  BY DEF PluginTypes
<1>2. CASE mem' = mem /\ edit' = edit
  BY <1>2 DEF PluginTypes
<1>3. ASSUME NEW e \in Editors, EditSteps(e) PROVE PluginTypes'
  <2>1. CASE \E r \in Replicas, kind \in EditKinds, to \in BOOLEAN : StartEdit(e, r, kind, to)
    <3>1. PICK r \in Replicas, kind \in EditKinds, to \in BOOLEAN : StartEdit(e, r, kind, to)
      BY <2>1
    <3>2. mem' = mem /\ edit' = [edit EXCEPT ![e] = [at |-> First(kind), rep |-> r, kind |-> kind, to |-> to]]
      BY <3>1, Zenon DEF StartEdit
    <3>3. First(kind) \in EditAts
      BY DEF EditKinds, Rescans, First, EditAts
    <3> DEFINE x == [at |-> First(kind), rep |-> r, kind |-> kind, to |-> to]
    <3>4. x \in EditRecords /\ x.rep \in Replicas
      BY <3>3 DEF EditRecords
    <3> HIDE DEF x, EditRecords
    <3>5. EditOk
      BY <1>0, <3>2, <3>4 DEF x
    <3> QED
      BY <1>0, <1>1, <3>2, <3>5
  <2>2. ASSUME NEW at \in EditAts, edit[e].at # "idle", EditTo(e, at) PROVE EditOk
    BY <2>2, EditAdvances
  <2>3. CASE \/ DeleteSteps(e) \/ InsertSteps(e) \/ SwitchPlugin(e) \/ Configure(e)
             \/ DropPlugin(e) \/ DropSteps(e) \/ Seed(e) \/ (Import(e) /\ EditTo(e, "seed"))
    <3>1. /\ mem' = mem /\ edit[e].at # "idle"
          /\ \E at \in {"insert", "load", "records", "dropSteps", "seed", "clear"} : EditTo(e, at)
      BY <2>3 DEF DeleteSteps, InsertSteps, SwitchPlugin, Configure, DropPlugin, DropSteps, Seed, Import, EditAt
    <3>2. PICK at \in EditAts : EditTo(e, at)
      BY <3>1 DEF EditAts
    <3> QED
      BY <1>0, <1>1, <2>2, <3>1, <3>2
  <2>4. CASE ClearLoaded(e) \/ LoadModules(e) \/ RefreshRecords(e)
    <3>1. /\ edit[e].at # "idle" /\ \E at \in {"modules", "records", "load"} : EditTo(e, at)
      BY <2>4 DEF ClearLoaded, LoadModules, RefreshRecords, EditAt
    <3>2. PICK at \in EditAts : EditTo(e, at)
      BY <3>1 DEF EditAts
    <3>3. mem' \in Mems
      <4>1. CASE ClearLoaded(e)
        BY <1>0, <4>1 DEF ClearLoaded
      <4>2. CASE LoadModules(e)
        BY <1>0, <4>2 DEF LoadModules
      <4>3. CASE RefreshRecords(e)
        BY <1>0, <4>3 DEF RefreshRecords
      <4> QED
        BY <2>4, <4>1, <4>2, <4>3
    <3> QED
      BY <1>1, <2>2, <3>1, <3>2, <3>3
  <2>5. CASE Import(e) /\ ~EditTo(e, "seed")
    <3>1. mem' = mem /\ edit' = [edit EXCEPT ![e] = NoEdit]
      BY <2>5, Zenon DEF Import
    <3> QED
      BY <1>0, <1>1, <3>1, EditStops
  <2>6. CASE LoadPipeline(e) \/ EditFails(e)
    <3>1. edit' = [edit EXCEPT ![e] = NoEdit]
      BY <2>6, Zenon DEF LoadPipeline, EditFails
    <3>2. mem' \in Mems
      BY <1>0, <2>6 DEF LoadPipeline, EditFails
    <3> QED
      BY <1>1, <3>1, <3>2, EditStops
  <2> QED
    BY <1>3, <2>1, <2>3, <2>4, <2>5, <2>6, Zenon DEF EditSteps, EditKinds
<1>4. ASSUME NEW r \in Replicas, Restart(r) PROVE PluginTypes'
  <2>1. /\ mem' = [mem EXCEPT ![r] = [row |-> db'.row, step |-> db.step, on |-> db.on, loaded |-> db'.row]]
        /\ edit' = [f \in Editors |-> IF edit[f].rep = r THEN NoEdit ELSE edit[f]]
    BY <1>4, Zenon DEF Restart
  <2>2. db'.row \in BOOLEAN
    BY DbTypesStep
  <2>3. NoEdit \in EditRecords /\ NoEdit.at = "idle"
    BY EditStops DEF NoEdit
  <2>4. mem' \in Mems
    BY <1>0, <2>1, <2>2
  <2> HIDE DEF EditRecords
  <2>5. EditOk
    BY <1>0, <2>1, <2>3
  <2> QED
    BY <1>1, <2>4, <2>5
<1>5. ASSUME NEW r \in Replicas, AppendRecord(r) \/ AppendFails(r) PROVE mem' = mem /\ edit' = edit
  BY <1>5, Zenon DEF AppendRecord, AppendFails
<1>6. Revoke \/ UNCHANGED vars => mem' = mem /\ edit' = edit
  BY Zenon DEF Revoke, vars, plugins
<1> QED
  BY <1>2, <1>3, <1>4, <1>5, <1>6, CallStepsSplit, CallsAndPlugins, Zenon DEF Next

LEMMA VendorTypesStep ==
  ASSUME Chosen, CallTypes, VendorTypes, [Next]_vars
  PROVE  VendorTypes'
<1>0. cache \in [Replicas -> Int] /\ vendor \in [valid : Int, refuses : BOOLEAN] /\ NoToken \in Int
  BY DEF VendorTypes, NoToken
<1>1. ASSUME NEW c \in bound.calls, CallSteps(c) PROVE VendorTypes'
  <2>1. vendor' = vendor /\ (cache' = cache \/ cache' = [cache EXCEPT ![call[c].rep] = vendor.valid])
    <3>1. CASE MeterMoves(c)
      BY <3>1, Zenon DEF MeterMoves, MeterSelect, MeterInsert, MeterUpdate, MeterFault
    <3>2. CASE GetToken(c)
      BY <3>2, Zenon DEF GetToken
    <3>3. CASE CallMoves(c) /\ ~GetToken(c)
      BY <3>3, Zenon DEF CallMoves, CannotConnect, Arrive, BudgetUnread, ApplyPre, HookAnswers, ApplyPost,
           FilterAnswers, RefreshToken, Send, Lose, RefuseInput, CheckInput, UseKept,
           PluginMissing, Unreachable, TimeOut, Fail, Reply
    <3> QED
      BY <1>1, <3>1, <3>2, <3>3, CallStepsSplit
  <2>2. [cache EXCEPT ![call[c].rep] = vendor.valid] \in [Replicas -> Int]
    <3>1. CASE call[c].rep \in Replicas
      BY <1>0, <3>1
    <3>2. CASE call[c].rep \notin Replicas
      BY <1>0, <3>2
    <3> QED
      BY <3>1, <3>2
  <2>3. cache' \in [Replicas -> Int]
    BY <1>0, <2>1, <2>2, Zenon
  <2>4. vendor' \in [valid : Int, refuses : BOOLEAN]
    BY <1>0, <2>1, Zenon
  <2> QED
    BY <2>3, <2>4 DEF VendorTypes
<1>2. ASSUME NEW e, EditSteps(e) PROVE VendorTypes'
  BY <1>0, <1>2, EditsBooks DEF VendorTypes
<1>3. ASSUME NEW r \in Replicas, AppendRecord(r) \/ AppendFails(r) \/ Restart(r) PROVE VendorTypes'
  <2>1. vendor' = vendor /\ (cache' = cache \/ cache' = [cache EXCEPT ![r] = NoToken])
    BY <1>3, Zenon DEF AppendRecord, AppendFails, Restart
  <2> QED
    BY <1>0, <2>1 DEF VendorTypes
<1>4. CASE Revoke \/ UNCHANGED vars
  <2>1. CASE Revoke
    <3>1. vendor' = [vendor EXCEPT !.valid = vendor.valid + 1] \/ vendor' = [vendor EXCEPT !.refuses = TRUE]
      BY <2>1, Zenon DEF Revoke
    <3>2. cache' = cache
      BY <2>1, Zenon DEF Revoke
    <3>3. vendor.valid + 1 \in Int
      BY <1>0
    <3>4. \A n \in Int : [vendor EXCEPT !.valid = n] \in [valid : Int, refuses : BOOLEAN]
      BY <1>0
    <3>5. [vendor EXCEPT !.refuses = TRUE] \in [valid : Int, refuses : BOOLEAN]
      BY <1>0
    <3>6. vendor' \in [valid : Int, refuses : BOOLEAN]
      BY <3>1, <3>3, <3>4, <3>5, Zenon
    <3> QED
      BY <1>0, <3>2, <3>6, Zenon DEF VendorTypes
  <2> QED
    BY <1>0, <1>4, <2>1 DEF VendorTypes, vars
<1> QED
  BY <1>1, <1>2, <1>3, <1>4, Zenon DEF Next

LEMMA UpsetNoted ==
  ASSUME SeenTypes, Upset
  PROVE  /\ SeenTypes' /\ seen.upsets < bound.upsets /\ seen'.upsets = seen.upsets + 1
         /\ seen'.edits = seen.edits /\ seen'.revoked = seen.revoked /\ seen'.want = seen.want
         /\ seen'.editor = seen.editor /\ seen'.overlap = seen.overlap /\ seen'.torn = seen.torn
         /\ seen'.writers = seen.writers /\ seen'.unacked = seen.unacked
  BY DEF Upset, SeenTypes

LEMMA WantsTyped ==
  ASSUME SeenTypes, NEW kind \in EditKinds, NEW to \in BOOLEAN
  PROVE  Wants(kind, to) \in [step : BOOLEAN, on : BOOLEAN]
<1>1. seen.want \in [step : BOOLEAN, on : BOOLEAN]
  BY DEF SeenTypes
<1>2. (seen.want.step /\ to) \in BOOLEAN /\ (seen.want.on /\ to) \in BOOLEAN
  OBVIOUS
<1>3. [seen.want EXCEPT !.step = seen.want.step /\ to] \in [step : BOOLEAN, on : BOOLEAN]
  BY <1>1, <1>2
<1>4. [seen.want EXCEPT !.on = seen.want.on /\ to] \in [step : BOOLEAN, on : BOOLEAN]
  BY <1>1, <1>2
<1>5. [seen.want EXCEPT !.step = FALSE, !.on = FALSE] \in [step : BOOLEAN, on : BOOLEAN]
  BY <1>1
<1>6. Wants(kind, to) \in {seen.want, [seen.want EXCEPT !.step = seen.want.step /\ to],
                           [seen.want EXCEPT !.on = seen.want.on /\ to],
                           [seen.want EXCEPT !.step = FALSE, !.on = FALSE]}
  BY DEF Wants, EditKinds, Rescans
<1> QED
  BY <1>1, <1>3, <1>4, <1>5, <1>6

(* What a call notes is at most an upset *)
LEMMA CallsNote ==
  ASSUME NEW c, CallMoves(c) \/ MeterMoves(c)
  PROVE  seen' = seen \/ Upset
<1>1. CASE CallMoves(c)
  BY <1>1, Zenon DEF CallMoves, CannotConnect, Arrive, BudgetUnread, ApplyPre, HookAnswers, ApplyPost,
       FilterAnswers, GetToken, RefreshToken, Send, Lose, RefuseInput, CheckInput, UseKept,
       PluginMissing, Unreachable, TimeOut, Fail, Reply
<1>2. CASE MeterMoves(c)
  BY <1>2, Zenon DEF MeterMoves, MeterSelect, MeterInsert, MeterUpdate, MeterFault
<1> QED
  BY <1>1, <1>2

LEMMA SeenTypesStep ==
  ASSUME Chosen, BookTypes, PluginTypes, SeenTypes, [Next]_vars
  PROVE  SeenTypes'
<1>0. /\ seen.upsets + 1 \in Nat /\ seen.edits + 1 \in Nat /\ seen.revoked + 1 \in Nat
      /\ seen.editor \in SUBSET Replicas /\ seen.writers \in SUBSET Replicas
      /\ seen.want \in [step : BOOLEAN, on : BOOLEAN]
  BY DEF SeenTypes
<1>1. seen' = seen => SeenTypes'
  BY DEF SeenTypes
<1>2. ASSUME NEW e \in Editors, EditSteps(e) PROVE SeenTypes'
  <2>1. CASE \E r \in Replicas, kind \in EditKinds, to \in BOOLEAN : StartEdit(e, r, kind, to)
    <3>1. PICK r \in Replicas, kind \in EditKinds, to \in BOOLEAN : StartEdit(e, r, kind, to)
      BY <2>1
    <3> DEFINE want == Wants(kind, to)
               editor == seen.editor \cap {r}
               overlap == seen.overlap \/ \E f \in Editors \ {e} : edit[f].at # "idle"
    <3>2. seen' = [seen EXCEPT !.edits = seen.edits + 1, !.editor = editor, !.want = want, !.overlap = overlap]
      BY <3>1, Zenon DEF StartEdit
    <3>3. want \in [step : BOOLEAN, on : BOOLEAN] /\ editor \in SUBSET Replicas /\ overlap \in BOOLEAN
      BY WantsTyped
    <3> HIDE DEF want, editor, overlap
    <3> QED
      BY <1>0, <3>2, <3>3 DEF SeenTypes
  <2>2. CASE LoadPipeline(e)
    <3> DEFINE want == IF \E f \in Editors \ {e} : edit[f].at # "idle" THEN seen.want ELSE Settled
               editor == IF RereadsAll(edit[e].kind) THEN {edit[e].rep} ELSE seen.editor
    <3>1. seen' = [seen EXCEPT !.editor = editor, !.want = want]
      BY <2>2, Zenon DEF LoadPipeline
    <3>2. want \in [step : BOOLEAN, on : BOOLEAN]
      BY <1>0 DEF Settled, BookTypes
    <3>3. editor \in SUBSET Replicas
      BY <1>0, <2>2 DEF PluginTypes, LoadPipeline, EditAt
    <3> HIDE DEF want, editor
    <3> QED
      BY <3>1, <3>2, <3>3 DEF SeenTypes
  <2>3. CASE EditFails(e)
    BY <1>0, <2>3 DEF EditFails, SeenTypes
  <2>4. CASE \/ DeleteSteps(e) \/ InsertSteps(e) \/ SwitchPlugin(e) \/ ClearLoaded(e) \/ Configure(e)
             \/ Import(e) \/ DropPlugin(e) \/ DropSteps(e) \/ Seed(e) \/ LoadModules(e) \/ RefreshRecords(e)
    <3>1. seen' = seen
      BY <2>4, Zenon DEF DeleteSteps, InsertSteps, SwitchPlugin, ClearLoaded, Configure, Import, DropPlugin,
           DropSteps, Seed, LoadModules, RefreshRecords
    <3> QED
      BY <1>1, <3>1
  <2> QED
    BY <1>2, <2>1, <2>2, <2>3, <2>4, Zenon DEF EditSteps, EditKinds
<1>3. ASSUME NEW r \in Replicas, Restart(r) PROVE SeenTypes'
  <2> DEFINE torn == seen.torn \/ \E e \in Editors : edit[e].rep = r
             editor == IF \A e \in Editors : edit[e].at = "idle" THEN seen.editor \cup {r} ELSE seen.editor
  <2>1. seen' = [seen EXCEPT !.upsets = seen.upsets + 1, !.torn = torn, !.editor = editor]
    BY <1>3, Zenon DEF Restart
  <2>2. torn \in BOOLEAN /\ editor \in SUBSET Replicas
    BY <1>0
  <2> HIDE DEF torn, editor
  <2> QED
    BY <1>0, <2>1, <2>2 DEF SeenTypes
<1>4. ASSUME NEW r \in Replicas, AppendRecord(r) PROVE SeenTypes'
  BY <1>0, <1>4 DEF AppendRecord, SeenTypes
<1>5. ASSUME NEW r \in Replicas, AppendFails(r) PROVE SeenTypes'
  <2> DEFINE unacked == seen.unacked \/ trail' # trail
  <2>1. seen' = [seen EXCEPT !.upsets = seen.upsets + 1, !.unacked = unacked]
    BY <1>5, Zenon DEF AppendFails
  <2>2. unacked \in BOOLEAN
    OBVIOUS
  <2> HIDE DEF unacked
  <2> QED
    BY <1>0, <2>1, <2>2 DEF SeenTypes
<1>6. CASE Revoke
  BY <1>0, <1>6 DEF Revoke, SeenTypes
<1>7. CASE UNCHANGED vars
  BY <1>1, <1>7, Zenon DEF vars
<1> QED
  BY <1>1, <1>2, <1>3, <1>4, <1>5, <1>6, <1>7, CallStepsSplit, CallsNote, UpsetNoted, Zenon DEF Next

(* Every step of a call, an edit or the books leaves records of the kinds they   *)
(* are declared as; a plan is never read past its end (gmail.ts and the other    *)
(* connectors' callTool, manager.ts, audit.service.ts, repos.ts UsageRepo)       *)
THEOREM TypeInvariance == Spec => []ToolCallTypes
<1>1. Init => ToolCallTypes
  <2> SUFFICES ASSUME Init PROVE ToolCallTypes
    OBVIOUS
  <2>1. Chosen
    BY Zenon DEF Init, Chosen
  <2>2. BookTypes
    BY DEF Init, BookTypes, Tips, NoRow
  <2>3. PluginTypes
    <3>1. edit = [e \in Editors |-> NoEdit] /\ NoEdit \in EditRecords /\ NoEdit.at = "idle"
      BY DEF Init, NoEdit, EditRecords, EditAts, EditKinds, Rescans
    <3>2. mem \in [Replicas -> [row : BOOLEAN, step : BOOLEAN, on : BOOLEAN, loaded : BOOLEAN]]
      BY DEF Init
    <3> HIDE DEF EditRecords
    <3> QED
      BY <3>1, <3>2 DEF PluginTypes
  <2>4. VendorTypes
    BY DEF Init, VendorTypes, NoToken
  <2>5. SeenTypes
    BY DEF Init, SeenTypes
  <2>6. CallTypes
    <3>1. call = [c \in Calls |-> NoCall]
      BY DEF Init
    <3>2. [n \in 1..LongestPlan |-> 0] \in [Places -> Nat] /\ 1 \in 1..(LongestPlan + 1) /\ NoToken \in Int
      BY DEF Places, LongestPlan, NoToken
    <3>3. NoCall \in CallRecords /\ NoCall.at = "new"
      BY <3>2 DEF NoCall, CallRecords, CallAts, Answers, Outcomes
    <3> QED
      BY <3>1, <3>3 DEF CallTypes
  <2> QED
    BY <2>1, <2>2, <2>3, <2>4, <2>5, <2>6 DEF ToolCallTypes
<1>2. ToolCallTypes /\ [Next]_vars => ToolCallTypes'
  <2> SUFFICES ASSUME ToolCallTypes, [Next]_vars PROVE ToolCallTypes'
    OBVIOUS
  <2> USE DEF ToolCallTypes
  <2>1. Chosen'
    BY ConstantVars DEF Chosen
  <2>2. BookTypes'
    BY DbTypesStep, TrailTypesStep, MeterTypesStep DEF BookTypes
  <2> QED
    BY <2>1, <2>2, PluginTypesStep, VendorTypesStep, SeenTypesStep, CallTypesStep, Zenon
<1> QED
  BY <1>1, <1>2, PTL DEF Spec

-------------------------------------------------------------------------------
(* The audit trail.  As long as one replica wrote all of it and no answer was    *)
(* lost, that replica's head is the trail's tail.                                *)
Tip == IF trail = <<>> THEN Genesis ELSE trail[Len(trail)].id
OneWriter == \A r, q \in seen.writers : r = q
Chained ==
  /\ IsFiniteSet(seen.writers)
  /\ (OneWriter /\ ~seen.unacked) =>
       /\ Verifies
       /\ \A r \in seen.writers : audit[r].last = Tip
       /\ seen.writers = {} => trail = <<>> /\ \A r \in Replicas : audit[r].last = Genesis

LEMMA CardOne ==
  ASSUME NEW S, IsFiniteSet(S), Cardinality(S) <= 1
  PROVE  \A a, b \in S : a = b
<1> SUFFICES ASSUME NEW a \in S, NEW b \in S, a # b PROVE FALSE
  OBVIOUS
<1>1. S \ {a} # {} /\ IsFiniteSet(S \ {a}) /\ Cardinality(S \ {a}) = Cardinality(S) - 1
  BY FS_RemoveElement
<1>2. Cardinality(S \ {a}) \in Nat /\ Cardinality(S \ {a}) # 0 /\ Cardinality(S) \in Nat
  BY <1>1, FS_CardinalityType, FS_EmptySet
<1> QED
  BY <1>1, <1>2

(* What does not write leaves the chain *)
LEMMA TrailFrame ==
  ASSUME ToolCallTypes, Next \/ UNCHANGED vars
  PROVE  \/ \E r \in Replicas : AppendRecord(r) \/ AppendFails(r) \/ Restart(r)
         \/ /\ trail' = trail /\ seen'.writers = seen.writers /\ seen'.unacked = seen.unacked
            /\ \A r \in Replicas : audit'[r].last = audit[r].last
<1> USE DEF ToolCallTypes
<1>1. ASSUME NEW r, NEW id, Enqueue(r, id)
      PROVE  \A q \in Replicas : audit'[q].last = audit[q].last
  BY <1>1 DEF Enqueue, BookTypes
<1>2. ASSUME NEW c, CallMoves(c) \/ MeterMoves(c)
      PROVE  /\ trail' = trail /\ seen'.writers = seen.writers /\ seen'.unacked = seen.unacked
             /\ \A r \in Replicas : audit'[r].last = audit[r].last
  <2>1. seen'.writers = seen.writers /\ seen'.unacked = seen.unacked
    BY <1>2, CallsNote, UpsetNoted
  <2>2. CASE CallMoves(c)
    BY <1>1, <2>1, <2>2, CallsBooks, Zenon
  <2>3. CASE MeterMoves(c)
    BY <2>1, <2>3, Zenon DEF MeterMoves, MeterSelect, MeterInsert, MeterUpdate, MeterFault
  <2> QED
    BY <1>2, <2>2, <2>3
<1>3. ASSUME NEW e, EditSteps(e)
      PROVE  /\ trail' = trail /\ audit' = audit
             /\ seen'.writers = seen.writers /\ seen'.unacked = seen.unacked
  <2>1. trail' = trail /\ audit' = audit
    BY <1>3, EditsBooks
  <2>2. CASE \E r \in Replicas, kind \in EditKinds, to \in BOOLEAN : StartEdit(e, r, kind, to)
    BY <2>1, <2>2 DEF StartEdit, SeenTypes
  <2>3. CASE LoadPipeline(e) \/ EditFails(e)
    BY <2>1, <2>3, ZenonT(40) DEF LoadPipeline, EditFails, SeenTypes
  <2>4. CASE \/ DeleteSteps(e) \/ InsertSteps(e) \/ SwitchPlugin(e) \/ ClearLoaded(e) \/ Configure(e)
             \/ Import(e) \/ DropPlugin(e) \/ DropSteps(e) \/ Seed(e) \/ LoadModules(e) \/ RefreshRecords(e)
    BY <2>1, <2>4, Zenon DEF DeleteSteps, InsertSteps, SwitchPlugin, ClearLoaded, Configure, Import, DropPlugin,
           DropSteps, Seed, LoadModules, RefreshRecords
  <2> QED
    BY <1>3, <2>2, <2>3, <2>4, Zenon DEF EditSteps, EditKinds
<1>4. CASE Revoke
  <2>1. seen'.writers = seen.writers /\ seen'.unacked = seen.unacked
    BY <1>4 DEF Revoke, SeenTypes
  <2> QED
    BY <1>4, <2>1, Zenon DEF Revoke, books
<1>5. CASE UNCHANGED vars
  BY <1>5, Zenon DEF vars
<1> QED
  BY <1>2, <1>3, <1>4, <1>5, CallStepsSplit, Zenon DEF Next

LEMMA ChainedStep ==
  ASSUME ToolCallTypes, Chained, [Next]_vars
  PROVE  Chained'
<1> USE DEF ToolCallTypes
<1>0. /\ trail \in Seq([id : Ids, prev : Tips]) /\ seen.writers \subseteq Replicas
      /\ seen.unacked \in BOOLEAN
      /\ audit \in [Replicas -> [last : Tips, queue : Seq(Ids)]]
  BY DEF BookTypes, SeenTypes
<1>1. ASSUME NEW r \in Replicas, AppendRecord(r) PROVE Chained'
  <2>1. /\ trail' = Append(trail, Row(r)) /\ Row(r).prev = audit[r].last
        /\ Row(r) \in [id : Ids, prev : Tips]
        /\ seen'.writers = seen.writers \cup {r} /\ seen'.unacked = seen.unacked
        /\ audit'[r].last = Row(r).id
    BY <1>0, <1>1, RowTyped DEF AppendRecord, Advance, SeenTypes
  <2>2. IsFiniteSet(seen'.writers)
    BY <2>1, FS_AddElement DEF Chained
  <2>3. ASSUME OneWriter', ~seen'.unacked PROVE Verifies' /\ audit'[r].last = Tip' /\ seen'.writers = {r}
    <3>1. OneWriter /\ ~seen.unacked /\ \A q \in seen.writers : q = r
      BY <2>1, <2>3 DEF OneWriter
    <3>2. Verifies /\ audit[r].last = Tip
      <4>1. CASE seen.writers = {}
        BY <3>1, <4>1 DEF Chained, Tip
      <4>2. CASE seen.writers # {}
        BY <3>1, <4>2 DEF Chained
      <4> QED
        BY <4>1, <4>2
    <3>3. /\ trail' # <<>> /\ Len(trail') = Len(trail) + 1 /\ trail'[Len(trail) + 1] = Row(r)
          /\ Len(trail) \in Nat /\ DOMAIN trail = 1..Len(trail) /\ DOMAIN trail' = 1..(Len(trail) + 1)
          /\ \A n \in 1..Len(trail) : trail'[n] = trail[n]
      BY <1>0, <2>1, AppendProperties
    <3>4. Verifies'
      <4> SUFFICES ASSUME NEW n \in 1..(Len(trail) + 1)
                   PROVE  trail'[n].prev = IF n = 1 THEN Genesis ELSE trail'[n - 1].id
        BY <3>3 DEF Verifies
      <4>1. CASE n \in 1..Len(trail)
        <5>1. trail[n].prev = IF n = 1 THEN Genesis ELSE trail[n - 1].id
          BY <3>2, <3>3, <4>1 DEF Verifies
        <5> QED
          BY <3>3, <4>1, <5>1
      <4>2. CASE n = Len(trail) + 1
        <5>1. trail = <<>> <=> Len(trail) = 0
          BY <1>0
        <5>2. trail'[n] = Row(r) /\ trail'[n].prev = Tip
          BY <2>1, <3>2, <3>3, <4>2
        <5>3. CASE trail = <<>>
          BY <5>1, <5>2, <5>3, <4>2 DEF Tip
        <5>4. CASE trail # <<>>
          <6>1. Len(trail) \in 1..Len(trail) /\ n - 1 = Len(trail) /\ n # 1
            BY <3>3, <4>2, <5>1, <5>4
          <6>2. trail'[n - 1].id = Tip
            BY <3>3, <5>4, <6>1 DEF Tip
          <6> QED
            BY <5>2, <6>1, <6>2
        <5> QED
          BY <5>3, <5>4
      <4> QED
        BY <3>3, <4>1, <4>2
    <3> QED
      BY <2>1, <3>1, <3>3, <3>4 DEF Tip
  <2> QED
    BY <2>2, <2>3 DEF Chained
<1>2. ASSUME NEW r \in Replicas, AppendFails(r) PROVE Chained'
  <2>1. /\ seen'.writers = seen.writers /\ seen'.unacked = (seen.unacked \/ trail' # trail)
        /\ \A q \in Replicas : audit'[q].last = audit[q].last
    BY <1>0, <1>2 DEF AppendFails, Advance, HeadAfterFailure, SeenTypes
  <2>2. IsFiniteSet(seen'.writers) /\ (OneWriter' <=> OneWriter)
    BY <2>1 DEF Chained, OneWriter
  <2>3. ASSUME ~seen'.unacked PROVE trail' = trail /\ ~seen.unacked
    BY <2>1, <2>3
  <2>4. trail' = trail => (Verifies' <=> Verifies) /\ Tip' = Tip
    BY DEF Verifies, Tip
  <2> QED
    BY <1>0, <2>1, <2>2, <2>3, <2>4 DEF Chained
<1>3. ASSUME NEW r \in Replicas, Restart(r) PROVE Chained'
  <2>1. /\ trail' = trail /\ seen'.writers = seen.writers /\ seen'.unacked = seen.unacked
        /\ audit' = [audit EXCEPT ![r] = [last |-> Tip, queue |-> <<>>]]
    BY <1>3 DEF Restart, SeenTypes, Tip
  <2>2. \A q \in Replicas : audit'[q].last = IF q = r THEN Tip ELSE audit[q].last
    BY <1>0, <2>1
  <2>3. Tip' = Tip /\ (Verifies <=> Verifies') /\ (OneWriter <=> OneWriter')
    BY <2>1 DEF Tip, Verifies, OneWriter
  <2> QED
    BY <1>0, <2>1, <2>2, <2>3 DEF Chained, Tip
<1>4. CASE /\ trail' = trail /\ seen'.writers = seen.writers /\ seen'.unacked = seen.unacked
           /\ \A r \in Replicas : audit'[r].last = audit[r].last
  BY <1>0, <1>4 DEF Chained, Verifies, Tip, OneWriter
<1> QED
  BY <1>1, <1>2, <1>3, <1>4, TrailFrame, Zenon

(* Verifying the trail finds no fault with it: each record is chained to the one *)
(* before, as long as one replica at a time wrote it and no append was stored    *)
(* whose acknowledgement was lost (AuditService.doRecord, verify)                *)
THEOREM ChainIsOneWritersWork == Spec => []TrailVerifies
<1>1. Init => Chained
  BY FS_EmptySet DEF Init, Chained, Verifies, Tip, OneWriter
<1>2. ToolCallTypes /\ Chained /\ [Next]_vars => Chained'
  BY ChainedStep
<1>3. Chained => TrailVerifies
  BY CardOne DEF Chained, TrailVerifies, OneWriter
<1> QED
  BY <1>1, <1>2, <1>3, TypeInvariance, PTL DEF Spec

-------------------------------------------------------------------------------
(* Writes.  Up to the request a call is at, what the tool needs was written      *)
(* once; from it on, nothing was.                                                *)
Doing == {"new", "pre", "hook", "token", "send", "force"}
SomeWritten(c, k) == (\E n \in DOMAIN Plan(c) : Plan(c)[n] = SomeWrite)
                       => \E n \in Places : k.applied[n] = 1
WroteTo(c, k, last) ==
  /\ k.result # "ok"
  /\ \A n \in Places : n > last => k.applied[n] = 0
  /\ \A n \in Needed(c) : n <= last => k.applied[n] = 1
  /\ k.some > 0 => SomeWritten(c, k)
Wrote(c, k) ==
  /\ \A n \in Places : k.applied[n] <= 1
  /\ k.at \in Doing => k.i \in DOMAIN Plan(c) /\ WroteTo(c, k, k.i - 1)
  /\ k.result = "ok" => (\A n \in Needed(c) : k.applied[n] = 1) /\ SomeWritten(c, k)
WritesKept == \A c \in bound.calls : Wrote(c, call[c])

LEMMA PlanPlaces ==
  ASSUME Chosen, NEW c \in bound.calls
  PROVE  /\ Plan(c) \in Seq(Making) /\ Len(Plan(c)) \in Places
         /\ DOMAIN Plan(c) = 1..Len(Plan(c)) /\ DOMAIN Plan(c) \subseteq Places
         /\ 1 \in DOMAIN Plan(c) /\ Needed(c) \subseteq DOMAIN Plan(c)
         /\ \A n \in DOMAIN Plan(c) : Plan(c)[n] \in Making
         /\ \A m, n \in DOMAIN Plan(c) : ~(Plan(c)[m] = SomeRead /\ Plan(c)[n] = SomeWrite)
<1> DEFINE P == job[c].plan
<1>1. P \in Seq(Making) /\ Len(P) \in Places
  BY ScenarioOf
<1>2. \A m, n \in DOMAIN P : <<P[m], P[n]>> # <<SomeRead, SomeWrite>>
  BY ScenarioOf
<1>3. Len(P) \in Nat /\ DOMAIN P = 1..Len(P) /\ \A n \in 1..Len(P) : P[n] \in Making
  BY <1>1, ElementOfSeq, LenProperties
<1>4. DOMAIN P \subseteq Places /\ 1 \in DOMAIN P
  <2>1. \A n \in Places : 1..n \subseteq Places /\ 1 \in 1..n
    BY ONLY SMT DEF Places, LongestPlan
  <2> QED
    BY <1>1, <1>3, <2>1, Zenon
<1>5. \A m, n \in DOMAIN P : ~(P[m] = SomeRead /\ P[n] = SomeWrite)
  BY <1>2, Zenon
<1>6. Plan(c) = P
  BY DEF Plan
<1>7. Needed(c) \subseteq DOMAIN Plan(c)
  BY DEF Needed
<1> HIDE DEF P
<1> QED
  BY <1>1, <1>3, <1>4, <1>5, <1>6, <1>7

LEMMA GoesOnFields ==
  ASSUME NEW c, NEW k \in CallRecords, NEW noted
  PROVE  LET next == NextRequest(c, noted)
             ends == next > Len(Plan(c))
             g == GoesOn(c, k, noted)
         IN /\ g.applied = k.applied /\ g.some = k.some /\ g.i = next
            /\ g.at = IF ~ends THEN "token" ELSE IF k.late THEN "done" ELSE "post"
            /\ ~ends \/ k.late => g.result = k.result
            /\ ends /\ ~k.late => g.result \in {"ok", "error"}
            /\ ends /\ ~k.late /\ g.result = "ok" =>
                 ~(k.some = 0 /\ \E n \in DOMAIN Plan(c) : Plan(c)[n] \in {SomeRead, SomeWrite})
  BY DEF GoesOn, CallRecords, Plan

LEMMA GoesOnWrote ==
  ASSUME Chosen, NEW c \in bound.calls, NEW k \in CallRecords, NEW noted \in BOOLEAN,
         call[c].i \in DOMAIN Plan(c),
         \A n \in Places : k.applied[n] <= 1, WroteTo(c, k, call[c].i)
  PROVE  Wrote(c, GoesOn(c, k, noted))
<1>0. PICK L \in Places : /\ L = Len(Plan(c)) /\ DOMAIN Plan(c) = 1..L
                          /\ DOMAIN Plan(c) \subseteq Places /\ Needed(c) \subseteq DOMAIN Plan(c)
  BY PlanPlaces
<1> DEFINE next == NextRequest(c, noted)
           g == GoesOn(c, k, noted)
           ends == next > L
<1>1. /\ next \in 2..(L + 1) /\ next \in Nat
      /\ next <= L => next > call[c].i
      /\ \A m \in DOMAIN Plan(c) : call[c].i < m /\ m < next => Plan(c)[m] = ElseRead
  <2>1. call[c].i \in 1..(LongestPlan + 1)
    BY <1>0 DEF Places, LongestPlan
  <2>2. /\ next \in 2..(L + 1)
        /\ next <= L => next > call[c].i
        /\ \A m \in DOMAIN Plan(c) : call[c].i < m /\ m < next => Plan(c)[m] = ElseRead
    BY <1>0, <2>1, NextPlace, Zenon DEF Plan, Skipped
  <2>3. \A l \in Places : 2..(l + 1) \subseteq Nat
    BY ONLY SMT DEF Places, LongestPlan
  <2> QED
    BY <2>2, <2>3, Zenon
<1>2. /\ g.applied = k.applied /\ g.some = k.some /\ g.i = next
      /\ g.at = IF ~ends THEN "token" ELSE IF k.late THEN "done" ELSE "post"
      /\ ~ends \/ k.late => g.result = k.result
      /\ ends /\ ~k.late /\ g.result = "ok" =>
           ~(k.some = 0 /\ \E n \in DOMAIN Plan(c) : Plan(c)[n] \in {SomeRead, SomeWrite})
  BY <1>0, GoesOnFields
<1> SUFFICES Wrote(c, g)
  OBVIOUS
<1> HIDE DEF g, next
<1>6. call[c].i \in Places
  BY <1>0
<1> USE DEF Places, LongestPlan
<1>3. \A n \in Needed(c) : n < next => k.applied[n] = 1
  <2> SUFFICES ASSUME NEW n \in Needed(c), n < next PROVE k.applied[n] = 1
    OBVIOUS
  <2>1. n \in DOMAIN Plan(c) /\ Plan(c)[n] = Write /\ Plan(c)[n] # ElseRead /\ n \in Nat
    BY <1>0 DEF Needed, Write, ElseRead
  <2>2. n <= call[c].i
    BY <1>0, <1>1, <1>6, <2>1
  <2> QED
    BY <2>2 DEF WroteTo
<1>4. CASE ~ends
  <2>1. g.at = "token" /\ g.result = k.result /\ next <= Len(Plan(c)) /\ next > call[c].i /\ next \in DOMAIN Plan(c)
    BY <1>0, <1>1, <1>2, <1>4, <1>6
  <2>2. \A n \in Places : n > next - 1 => k.applied[n] = 0
    BY <1>0, <1>1, <1>6, <2>1 DEF WroteTo
  <2>3. \A n \in Needed(c) : n <= next - 1 => k.applied[n] = 1
    BY <1>0, <1>1, <1>3
  <2>4. g.some > 0 => SomeWritten(c, g)
    BY <1>2 DEF WroteTo, SomeWritten
  <2> QED
    BY <1>2, <2>1, <2>2, <2>3, <2>4 DEF Wrote, WroteTo
<1>5. CASE ends
  <2>1. g.at \notin Doing
    BY <1>2, <1>5 DEF Doing
  <2>2. CASE k.late
    BY <1>2, <2>1, <2>2 DEF Wrote, WroteTo
  <2>3. CASE ~k.late
    <3>1. \A n \in Needed(c) : g.applied[n] = 1
      BY <1>0, <1>1, <1>2, <1>3, <1>5
    <3>2. ASSUME g.result = "ok" PROVE SomeWritten(c, g)
      <4>1. ~(k.some = 0 /\ \E n \in DOMAIN Plan(c) : Plan(c)[n] \in {SomeRead, SomeWrite})
        BY <1>2, <1>5, <2>3, <3>2
      <4>2. k.some # 0 => k.some > 0
        BY DEF CallRecords
      <4>3. SomeWritten(c, k)
        BY <4>1, <4>2 DEF WroteTo, SomeWritten
      <4> QED
        BY <1>2, <4>3 DEF SomeWritten
    <3> QED
      BY <1>2, <2>1, <3>1, <3>2 DEF Wrote
  <2> QED
    BY <2>2, <2>3
<1> QED
  BY <1>4, <1>5

LEMMA EndsWrote ==
  ASSUME NEW c, NEW k \in CallRecords, \A n \in Places : k.applied[n] <= 1, k.result # "ok"
  PROVE  Wrote(c, EndsInError(k)) /\ Wrote(c, Throws(k))
<1>1. /\ EndsInError(k).applied = k.applied /\ EndsInError(k).at \in {"done", "post"}
      /\ EndsInError(k).result # "ok"
  BY DEF EndsInError, CallRecords
<1>2. Throws(k).applied = k.applied /\ Throws(k).at \in {"done", "fail"} /\ Throws(k).result # "ok"
  BY DEF Throws, CallRecords
<1> QED
  BY <1>1, <1>2 DEF Wrote, Doing

LEMMA SentFields ==
  ASSUME Chosen, CallTypes, NEW c \in bound.calls, Wrote(c, call[c]), call[c].at \in Doing
  PROVE  LET k == Applied(c, Sent(c)) IN
         /\ call[c].i \in DOMAIN Plan(c) /\ call[c].i \in Places /\ Request(c) = Plan(c)[call[c].i]
         /\ Sent(c).applied = call[c].applied /\ Sent(c).some = call[c].some
         /\ Sent(c).result = call[c].result /\ Sent(c).i = call[c].i
         /\ k.some = call[c].some /\ k.result = call[c].result
         /\ k.applied = IF Request(c) \in Writing THEN [call[c].applied EXCEPT ![call[c].i] = 1]
                        ELSE call[c].applied
<1>1. c \in Calls /\ call[c] \in CallRecords
  BY ScenarioOf DEF CallTypes
<1>2. call[c].i \in DOMAIN Plan(c) /\ call[c].i \in Places
  BY PlanPlaces DEF Wrote
<1>3. Request(c) = Plan(c)[call[c].i]
  BY DEF Request, Plan
<1>4. /\ Sent(c).applied = call[c].applied /\ Sent(c).some = call[c].some
      /\ Sent(c).result = call[c].result /\ Sent(c).i = call[c].i
  BY <1>1 DEF Sent, CallRecords
<1>5. call[c].applied[call[c].i] = 0
  BY <1>2 DEF Wrote, WroteTo, Places, LongestPlan
<1>6. CASE Request(c) \in Writing
  <2> DEFINE f == [Sent(c).applied EXCEPT ![call[c].i] = Sent(c).applied[call[c].i] + 1]
  <2>1. Applied(c, Sent(c)) = [Sent(c) EXCEPT !.applied = f]
    BY <1>6, SentTyped, <1>1 DEF Applied, CallRecords
  <2>2. f = [call[c].applied EXCEPT ![call[c].i] = 1]
    BY <1>4, <1>5
  <2> HIDE DEF f
  <2>3. /\ Applied(c, Sent(c)).applied = f /\ Applied(c, Sent(c)).some = Sent(c).some
        /\ Applied(c, Sent(c)).result = Sent(c).result
    BY <2>1, SentTyped, <1>1 DEF CallRecords
  <2> QED
    BY <1>2, <1>3, <1>4, <1>6, <2>2, <2>3
<1>7. CASE Request(c) \notin Writing
  BY <1>2, <1>3, <1>4, <1>7 DEF Applied
<1> QED
  BY <1>6, <1>7

(* What is written when the request a call is at was answered, or failed *)
LEMMA PassedWrote ==
  ASSUME Chosen, NEW c \in bound.calls, NEW k, NEW i \in Places, i \in DOMAIN Plan(c),
         WroteTo(c, k, i - 1), Plan(c)[i] # Write
  PROVE  WroteTo(c, k, i)
<1> USE DEF Places, LongestPlan
<1>1. \A n \in Needed(c) : n \in Places /\ n # i
  BY PlanPlaces DEF Needed
<1> QED
  BY <1>1 DEF WroteTo

LEMMA AppliedWrote ==
  ASSUME Chosen, NEW c \in bound.calls, NEW k \in CallRecords, NEW k2 \in CallRecords,
         NEW i \in Places, i \in DOMAIN Plan(c), \A n \in Places : k.applied[n] <= 1,
         WroteTo(c, k, i - 1), k2.result = k.result, k2.applied = [k.applied EXCEPT ![i] = 1],
         k2.some \in Nat, Plan(c)[i] \in Writing
  PROVE  WroteTo(c, k2, i) /\ \A n \in Places : k2.applied[n] <= 1
<1> USE DEF Places, LongestPlan
<1>1. k.applied \in [Places -> Nat]
  BY DEF CallRecords
<1>2. \A n \in Places : k2.applied[n] = IF n = i THEN 1 ELSE k.applied[n]
  BY <1>1
<1>3. Needed(c) \subseteq Places
  BY PlanPlaces
<1>4. \A n \in Needed(c) : n <= i => k2.applied[n] = 1
  BY <1>2, <1>3 DEF WroteTo
<1>5. \A n \in Places : n > i => k2.applied[n] = 0
  BY <1>2 DEF WroteTo
<1>6. SomeWritten(c, k2)
  BY <1>2 DEF SomeWritten
<1>7. \A n \in Places : k2.applied[n] <= 1
  BY <1>2
<1>8. k2.result # "ok"
  BY DEF WroteTo
<1> QED
  BY <1>4, <1>5, <1>6, <1>7, <1>8 DEF WroteTo

LEMMA SentWrote ==
  ASSUME Chosen, CallTypes, NEW c \in bound.calls, Wrote(c, call[c]), call[c].at \in Doing
  PROVE  \A k \in {Sent(c), Applied(c, Sent(c))} :
           /\ k \in CallRecords /\ k.result # "ok"
           /\ \A n \in Places : k.applied[n] <= 1
           /\ Request(c) # Write => WroteTo(c, k, call[c].i)
<1> DEFINE i == call[c].i
           P == Plan(c)
<1>1. c \in Calls /\ call[c] \in CallRecords
  BY ScenarioOf DEF CallTypes
<1>2. /\ i \in Places /\ i \in DOMAIN P /\ Request(c) = P[i]
      /\ WroteTo(c, call[c], i - 1) /\ \A n \in Places : call[c].applied[n] <= 1
  BY SentFields DEF Wrote
<1>3. /\ Sent(c) \in CallRecords /\ Sent(c).applied = call[c].applied /\ Sent(c).some = call[c].some
      /\ Sent(c).result = call[c].result
  BY <1>1, SentFields, SentTyped
<1>4. WroteTo(c, Sent(c), i - 1) /\ \A n \in Places : Sent(c).applied[n] <= 1
  BY <1>2, <1>3 DEF WroteTo, SomeWritten
<1>5. Request(c) # Write => WroteTo(c, Sent(c), i)
  BY <1>2, <1>4, PassedWrote
<1>6. /\ Applied(c, Sent(c)) \in CallRecords /\ Applied(c, Sent(c)).result = call[c].result
      /\ Applied(c, Sent(c)).some \in Nat
      /\ Applied(c, Sent(c)).applied = IF Request(c) \in Writing THEN [call[c].applied EXCEPT ![i] = 1]
                                       ELSE call[c].applied
      /\ Applied(c, Sent(c)).some = call[c].some
  BY <1>1, SentFields, SentTyped DEF CallRecords
<1>7. CASE Request(c) \in Writing
  <2>1. WroteTo(c, Applied(c, Sent(c)), i) /\ \A n \in Places : Applied(c, Sent(c)).applied[n] <= 1
    BY <1>1, <1>2, <1>6, <1>7, AppliedWrote
  <2> QED
    BY <1>3, <1>4, <1>5, <1>6, <2>1 DEF WroteTo
<1>8. CASE Request(c) \notin Writing
  <2>1. Applied(c, Sent(c)) = Sent(c)
    BY <1>8 DEF Applied
  <2> QED
    BY <1>3, <1>4, <1>5, <2>1 DEF WroteTo
<1> QED
  BY <1>7, <1>8

(* ... and was done: a write the tool needs is written, and of the requests of    *)
(* which some must be done this one counts                                       *)
LEMMA AnsweredWrote ==
  ASSUME Chosen, CallTypes, NEW c \in bound.calls, Wrote(c, call[c]), call[c].at \in Doing,
         NEW some \in Nat,
         some > 0 => call[c].some > 0 \/ Request(c) \in {SomeRead, SomeWrite}
  PROVE  LET k == [Applied(c, Sent(c)) EXCEPT !.some = some] IN
           /\ k \in CallRecords /\ \A n \in Places : k.applied[n] <= 1
           /\ WroteTo(c, k, call[c].i)
<1> DEFINE i == call[c].i
           P == Plan(c)
           k == [Applied(c, Sent(c)) EXCEPT !.some = some]
<1>1. c \in Calls /\ call[c] \in CallRecords
  BY ScenarioOf DEF CallTypes
<1>2. /\ i \in Places /\ i \in DOMAIN P /\ Request(c) = P[i]
      /\ WroteTo(c, call[c], i - 1) /\ \A n \in Places : call[c].applied[n] <= 1
  BY SentFields DEF Wrote
<1>3. /\ k \in CallRecords /\ k.result = call[c].result /\ k.some = some
      /\ k.applied = IF Request(c) \in Writing THEN [call[c].applied EXCEPT ![i] = 1]
                     ELSE call[c].applied
  <2>1. Applied(c, Sent(c)) \in CallRecords
    BY <1>1, SentTyped
  <2>2. /\ k \in CallRecords /\ k.result = Applied(c, Sent(c)).result /\ k.some = some
        /\ k.applied = Applied(c, Sent(c)).applied
    BY <2>1 DEF CallRecords
  <2> QED
    BY <2>2, SentFields
<1> HIDE DEF k
<1>4. CASE Request(c) \in Writing
  <2>1. WroteTo(c, k, i) /\ \A n \in Places : k.applied[n] <= 1
    BY <1>1, <1>2, <1>3, <1>4, AppliedWrote
  <2> QED
    BY <1>3, <2>1 DEF k
<1>5. CASE Request(c) \notin Writing
  <2>1. some > 0 => SomeWritten(c, k)
    <3> SUFFICES ASSUME some > 0 PROVE SomeWritten(c, k)
      OBVIOUS
    <3>1. CASE call[c].some > 0
      BY <1>2, <1>3, <1>5, <3>1 DEF WroteTo, SomeWritten
    <3>2. CASE Request(c) = SomeRead
      BY <1>2, <3>2, PlanPlaces DEF SomeWritten
    <3> QED
      BY <3>1, <3>2, <1>5 DEF Writing
  <2>2. WroteTo(c, k, i - 1)
    BY <1>2, <1>3, <1>5, <2>1 DEF WroteTo
  <2>3. Write \in Writing
    BY DEF Writing
  <2>4. WroteTo(c, k, i)
    BY <1>2, <1>5, <2>2, <2>3, PassedWrote
  <2>5. \A n \in Places : k.applied[n] <= 1
    BY <1>2, <1>3, <1>5
  <2> QED
    BY <1>3, <2>4, <2>5 DEF k
<1> QED
  BY <1>4, <1>5

LEMMA CallWrote ==
  ASSUME ToolCallTypes, NEW c \in bound.calls, Wrote(c, call[c]), CallMoves(c)
  PROVE  Wrote(c, call'[c])
<1> USE DEF ToolCallTypes
<1> DEFINE k == call[c]
           Alike == /\ call'[c].i = k.i /\ call'[c].applied = k.applied /\ call'[c].some = k.some
                    /\ call'[c].at \in Doing => k.at \in Doing
                    /\ call'[c].result = k.result \/ call'[c].result # "ok"
<1>1. c \in Calls /\ k \in CallRecords /\ DOMAIN call = Calls
  BY ScenarioOf DEF CallTypes
<1>2. \A k2 : call' = [call EXCEPT ![c] = k2] => call'[c] = k2
  BY <1>1
<1>3. Alike => Wrote(c, call'[c])
  BY DEF Wrote, WroteTo, SomeWritten
<1>4. CASE \E r \in Replicas : CannotConnect(c, r) \/ Arrive(c, r) \/ BudgetUnread(c, r)
  <2>1. PICK r \in Replicas : CannotConnect(c, r) \/ Arrive(c, r) \/ BudgetUnread(c, r)
    BY <1>4
  <2>2. /\ k.at = "new"
        /\ \/ call'[c] = [k EXCEPT !.at = "done", !.rep = r, !.result = "unreachable"]
           \/ call'[c] = [k EXCEPT !.at = "done", !.rep = r, !.result = "budget"]
           \/ call'[c] = [k EXCEPT !.at = "pre", !.rep = r]
    BY <1>2, <2>1, Zenon DEF CannotConnect, Arrive, BudgetUnread
  <2>3. Alike
    BY <1>1, <2>2 DEF CallRecords, Doing
  <2> QED
    BY <1>3, <2>3
<1>5. CASE ApplyPre(c) \/ ApplyPost(c)
  <2>1. ASSUME NEW point, NEW asking, NEW next, Junction(c, point, asking, next),
               asking \in Doing \/ next \in Doing => k.at \in Doing
        PROVE  Alike
    <3> DEFINE here == hook.point = point
               asks == here /\ Hooked(k.rep) /\ Asks(c)
               at == IF asks THEN asking ELSE next
               due == IF here THEN Owed(k.rep) ELSE k.due
               asked == IF asks THEN "asked" ELSE k.asked
    <3>1. call'[c] = [k EXCEPT !.at = at, !.due = due, !.asked = asked]
      BY <1>2, <2>1, Zenon DEF Junction
    <3>2. at \in Doing => k.at \in Doing
      BY <2>1
    <3> HIDE DEF at, due, asked
    <3> QED
      BY <1>1, <3>1, <3>2 DEF CallRecords
  <2>2. CASE ApplyPre(c)
    <3>1. k.at \in Doing
      BY <2>2 DEF ApplyPre, Doing
    <3> QED
      BY <1>3, <2>1, <2>2, <3>1, Zenon DEF ApplyPre
  <2>3. CASE ApplyPost(c)
    <3>1. "filter" \notin Doing /\ "reply" \notin Doing
      BY DEF Doing
    <3> QED
      BY <1>3, <2>1, <2>3, <3>1, Zenon DEF ApplyPost
  <2> QED
    BY <1>5, <2>2, <2>3
<1>6. CASE HookAnswers(c) \/ FilterAnswers(c) \/ GetToken(c) \/ RefreshToken(c)
  <2>1. \/ /\ k.at \in {"hook", "token", "force"}
           /\ \/ call'[c] = [k EXCEPT !.at = "token", !.asked = "allowed"]
              \/ call'[c] = [k EXCEPT !.at = "done", !.asked = "denied", !.result = "denied"]
              \/ call'[c] = [k EXCEPT !.at = "token", !.asked = "threw"]
              \/ \E token : call'[c] = [k EXCEPT !.at = "send", !.token = token]
              \/ \E retried : call'[c] = [k EXCEPT !.at = "token", !.retried = retried]
        \/ call'[c] = [k EXCEPT !.at = "reply", !.asked = "allowed"]
        \/ call'[c] = [k EXCEPT !.at = "reply", !.asked = "threw"]
    <3>1. CASE HookAnswers(c)
      BY <1>2, <3>1 DEF HookAnswers
    <3>2. CASE FilterAnswers(c)
      BY <1>2, <3>2, Zenon DEF FilterAnswers
    <3>3. CASE GetToken(c)
      BY <1>2, <3>3 DEF GetToken
    <3>4. CASE RefreshToken(c)
      BY <1>2, <3>4 DEF RefreshToken
    <3> QED
      BY <1>6, <3>1, <3>2, <3>3, <3>4
  <2>2. Alike
    BY <1>1, <2>1 DEF CallRecords, Doing
  <2> QED
    BY <1>3, <2>2
<1>7. CASE Lose(c) \/ Send(c)
  <2>1. k.at \in Doing /\ k.i \in DOMAIN Plan(c) /\ k.i \in 1..(LongestPlan + 1) /\ Request(c) = Plan(c)[k.i]
    BY <1>1, <1>7 DEF Lose, Send, Doing, Wrote, CallRecords, Request, Plan
  <2>2. ASSUME NEW k2 \in {Sent(c), Applied(c, Sent(c))}, NEW refused \in BOOLEAN,
               NEW k3 \in Failed(c, k2, refused)
        PROVE  Wrote(c, k3)
    <3>1. /\ k2 \in CallRecords /\ k2.result # "ok" /\ \A n \in Places : k2.applied[n] <= 1
          /\ Request(c) # Write => WroteTo(c, k2, k.i)
      BY <2>1, SentWrote
    <3>2. CASE Survives(c, refused)
      <4>1. Request(c) # Write
        BY <3>2 DEF Survives, Write, OptRead, SomeRead, SomeWrite, FirstRead
      <4>2. k3 = GoesOn(c, k2, TRUE)
        BY <3>2 DEF Failed
      <4> QED
        BY <2>1, <3>1, <4>1, <4>2, GoesOnWrote
    <3>3. CASE ~Survives(c, refused)
      <4>1. k3 = Throws(k2) \/ k3 = EndsInError(k2)
        BY <3>3 DEF Failed
      <4> QED
        BY <3>1, <4>1, EndsWrote
    <3> QED
      BY <3>2, <3>3
  <2>3. CASE Lose(c)
    <3>1. \E k2 \in {Sent(c), Applied(c, Sent(c))} : \E k3 \in Failed(c, k2, FALSE) : call'[c] = k3
      BY <1>2, <2>3, Zenon DEF Lose, Becomes, AfterLoss
    <3> QED
      BY <2>2, <3>1
  <2>4. CASE Send(c) /\ Unauthorized(c)
    <3>1. call'[c] = [Sent(c) EXCEPT !.at = "force"] \/ \E k3 \in Failed(c, Sent(c), TRUE) : call'[c] = k3
      BY <1>2, <2>4, Zenon DEF Send, Becomes
    <3>2. CASE call'[c] = [Sent(c) EXCEPT !.at = "force"]
      <4>1. call'[c] = [k EXCEPT !.sent = TRUE, !.at = "force"]
        BY <3>2, Zenon DEF Sent
      <4>2. Alike
        BY <1>1, <2>1, <4>1 DEF CallRecords
      <4> QED
        BY <1>3, <4>2
    <3> QED
      BY <2>2, <3>1, <3>2
  <2>5. CASE Send(c) /\ ~Unauthorized(c)
    <3> DEFINE sent == Applied(c, Sent(c))
               some == IF Request(c) \in {SomeRead, SomeWrite} THEN sent.some + 1 ELSE sent.some
    <3>1. call'[c] = GoesOn(c, [sent EXCEPT !.some = some], FALSE) \/ \E k3 \in Failed(c, Sent(c), TRUE) : call'[c] = k3
      BY <1>2, <2>5, Zenon DEF Send, Becomes
    <3>2. sent.some = k.some /\ k.some \in Nat
      BY <1>1, <2>1, SentFields DEF CallRecords
    <3>3. some \in Nat /\ (some > 0 => k.some > 0 \/ Request(c) \in {SomeRead, SomeWrite})
      BY <3>2
    <3> HIDE DEF some
    <3>4. LET k2 == [sent EXCEPT !.some = some] IN
            k2 \in CallRecords /\ (\A n \in Places : k2.applied[n] <= 1) /\ WroteTo(c, k2, k.i)
      BY <2>1, <3>3, AnsweredWrote
    <3>5. Wrote(c, GoesOn(c, [sent EXCEPT !.some = some], FALSE))
      BY <2>1, <3>4, GoesOnWrote
    <3> QED
      BY <2>2, <3>1, <3>5
  <2> QED
    BY <1>7, <2>3, <2>4, <2>5
<1>8. CASE RefuseInput(c) \/ CheckInput(c) \/ UseKept(c)
  <2>1. k.at \in Doing /\ k.i \in DOMAIN Plan(c) /\ k.i \in Places /\ Request(c) = Plan(c)[k.i]
        /\ WroteTo(c, k, k.i - 1) /\ (\A n \in Places : k.applied[n] <= 1) /\ k.result # "ok"
    <3>1. k.at \in Doing
      BY <1>8 DEF RefuseInput, CheckInput, UseKept, Fresh, Doing
    <3> QED
      BY <3>1, SentFields DEF Wrote, WroteTo
  <2>2. \/ call'[c] = EndsInError(k)
        \/ call'[c] = GoesOn(c, k, FALSE) /\ Request(c) \in {Check, KeptRead}
    BY <1>2, <1>8 DEF RefuseInput, CheckInput, UseKept
  <2>3. CASE call'[c] = EndsInError(k)
    BY <1>1, <2>1, <2>3, EndsWrote
  <2>4. CASE call'[c] = GoesOn(c, k, FALSE) /\ Request(c) \in {Check, KeptRead}
    <3>1. Request(c) # Write
      BY <2>4 DEF Check, KeptRead, Write
    <3>2. WroteTo(c, k, k.i)
      BY <2>1, <3>1, PassedWrote
    <3> QED
      BY <1>1, <2>1, <2>4, <3>2, GoesOnWrote
  <2> QED
    BY <2>2, <2>3, <2>4
<1>9. CASE PluginMissing(c) \/ Unreachable(c) \/ TimeOut(c) \/ Fail(c) \/ Reply(c)
  <2>1. \/ call'[c] = [k EXCEPT !.at = "fail"]
        \/ call'[c] = [k EXCEPT !.late = TRUE, !.result = "threw"]
        \/ call'[c] = [k EXCEPT !.at = "done", !.result = "threw"]
        \/ call'[c] = [k EXCEPT !.at = "done"]
    <3>1. \A at : Goes(c, at) => call'[c] = [k EXCEPT !.at = at]
      BY <1>1 DEF Goes
    <3> QED
      BY <1>2, <1>9, <3>1, Zenon DEF PluginMissing, Unreachable, TimeOut, Fail, Reply
  <2>2. Alike
    BY <1>1, <2>1 DEF CallRecords, Doing
  <2> QED
    BY <1>3, <2>2
<1> QED
  BY <1>4, <1>5, <1>6, <1>7, <1>8, <1>9, Zenon DEF CallMoves

(* How a step changes one call *)
LEMMA OneCallMoves ==
  ASSUME ToolCallTypes, [Next]_vars, NEW c \in bound.calls
  PROVE  \/ CallMoves(c)
         \/ call'[c] = call[c]
         \/ call[c].at # "new" /\ call'[c] = [call[c] EXCEPT !.at = "gone"]
<1> USE DEF ToolCallTypes
<1>1. c \in Calls /\ call \in [Calls -> CallRecords]
  BY ScenarioOf DEF CallTypes
<1>2. CASE \E d \in bound.calls : CallMoves(d)
  <2>1. PICK d \in bound.calls : CallMoves(d)
    BY <1>2
  <2>2. PICK k : call' = [call EXCEPT ![d] = k]
    BY <2>1, CallBecomes
  <2> QED
    BY <1>1, <2>1, <2>2
<1>3. CASE \E r \in Replicas : Restart(r)
  <2>1. PICK r \in Replicas :
          call' = [d \in Calls |-> IF call[d].rep = r /\ call[d].at # "new"
                                   THEN [call[d] EXCEPT !.at = "gone"] ELSE call[d]]
    BY <1>3, Zenon DEF Restart
  <2> QED
    BY <1>1, <2>1
<1> QED
  BY <1>2, <1>3, CallsUntouched

(* No write of a tool takes effect twice, and a tool that reports success has    *)
(* written all it was to write, whatever tokens the vendor revokes and whatever  *)
(* answers get lost (gmail.ts gmailApi and the other connectors' requests)       *)
THEOREM WritesOnceAndAsReported == Spec => []WritesAsReported
<1>1. Init => WritesKept
  <2> SUFFICES ASSUME Init PROVE WritesKept
    OBVIOUS
  <2>1. Chosen /\ call = [c \in Calls |-> NoCall]
    BY Zenon DEF Init, Chosen
  <2>2. ASSUME NEW c \in bound.calls PROVE Wrote(c, NoCall)
    <3>1. /\ NoCall.at = "new" /\ NoCall.i = 1 /\ NoCall.some = 0 /\ NoCall.result = "none"
          /\ \A n \in Places : NoCall.applied[n] = 0
      BY DEF NoCall, Places
    <3>2. 1 \in DOMAIN Plan(c) /\ Needed(c) \subseteq Places
      BY <2>1, PlanPlaces
    <3>3. \A n \in Needed(c) : ~(n <= 1 - 1)
      BY <3>2 DEF Places, LongestPlan
    <3> QED
      BY <3>1, <3>2, <3>3 DEF Wrote, WroteTo
  <2>3. bound.calls \subseteq Calls
    BY <2>1, ScenarioOf
  <2> QED
    BY <2>1, <2>2, <2>3 DEF WritesKept
<1>2. ToolCallTypes /\ WritesKept /\ [Next]_vars => WritesKept'
  <2> SUFFICES ASSUME ToolCallTypes, WritesKept, [Next]_vars PROVE WritesKept'
    OBVIOUS
  <2>1. bound' = bound /\ job' = job
    BY ConstantVars
  <2>2. ASSUME NEW c \in bound.calls PROVE Wrote(c, call'[c])
    <3>1. Wrote(c, call[c])
      BY DEF WritesKept
    <3>2. CASE call'[c] = [call[c] EXCEPT !.at = "gone"]
      <4>1. call[c] \in CallRecords
        BY ScenarioOf DEF ToolCallTypes, CallTypes
      <4>2. /\ call'[c].at \notin Doing /\ call'[c].result = call[c].result
            /\ call'[c].applied = call[c].applied
        BY <3>2, <4>1 DEF CallRecords, Doing
      <4> QED
        BY <3>1, <4>2 DEF Wrote, SomeWritten
    <3> QED
      BY <3>1, <3>2, CallWrote, OneCallMoves
  <2> QED
    BY <2>1, <2>2, Zenon DEF WritesKept, Wrote, WroteTo, SomeWritten, Needed, Plan
<1>3. WritesKept => WritesAsReported
  BY DEF WritesKept, WritesAsReported, Wrote, SomeWritten, Places
<1> QED
  BY <1>1, <1>2, <1>3, TypeInvariance, PTL DEF Spec

-------------------------------------------------------------------------------
(* What a replica knows of the pipeline.  While edits come one at a time and     *)
(* none stops halfway, a replica that made all of them since it last read what   *)
(* is on record agrees with it when nobody edits, and when somebody does, sees   *)
(* the hook that was there before and is to stay.                                *)
Serial   == ~seen.overlap /\ ~seen.torn
Agrees(r) == mem[r].on = db.on /\ mem[r].step = db.step /\ (db.on => AtHand(r))
Kept     == seen.want.step = db.step /\ seen.want.on = db.on
AtRest   == /\ seen.want = Settled
            /\ \A r \in seen.editor : Agrees(r)

(* ... the edit x of a replica r under way *)
ChainSaved(x, r) ==
  /\ x.at \in {"delete", "insert", "load"}
  /\ r \in seen.editor => /\ mem[r].on = db.on /\ seen.want.on = db.on /\ (db.on => AtHand(r))
                          /\ seen.want.step => mem[r].step
Switched(x, r) ==
  /\ x.at \in {"update", "records", "load"}
  /\ x.to => AtHand(r)
  /\ r \in seen.editor => /\ seen.want.step = db.step /\ mem[r].step = db.step
                          /\ seen.want.on => mem[r].on /\ AtHand(r) /\ x.to /\ db.on
  /\ x.at # "update" => (db.on => x.to)
  /\ x.at = "load" => mem[r].on = db.on
Configured(x, r) ==
  /\ x.at \in {"configure", "records", "load"}
  /\ r \in seen.editor => Kept /\ Agrees(r)
  /\ x.at = "load" => mem[r].on = db.on
Rescanned(x, r) ==
  /\ x.at \in {"ingest", "drop", "dropSteps", "seed", "clear", "modules", "records", "load"}
  /\ x.at \in {"ingest", "drop", "dropSteps"} => x.kind # "scan"
  /\ x.kind # "scan" => ~hook.native
  /\ hook.native /\ r \in seen.editor => Kept /\ Agrees(r)
  /\ x.at = "ingest" => seen.want = Settled /\ (r \in seen.editor => Agrees(r))
  /\ x.at \in {"records", "load"} => (db.on => AtHand(r))
  /\ x.at = "load" => mem[r].on = db.on
UnderWay(x, r) ==
  /\ seen.editor \subseteq {r}
  /\ x.kind = "pipeline" => ChainSaved(x, r)
  /\ x.kind = "switch" => Switched(x, r)
  /\ x.kind = "configure" => Configured(x, r)
  /\ x.kind \in Rescans => Rescanned(x, r)

Known ==
  /\ db.on => db.row
  /\ Serial =>
       /\ \A e, f \in Editors : edit[e].at # "idle" /\ edit[f].at # "idle" => e = f
       /\ (\A e \in Editors : edit[e].at = "idle") => AtRest
       /\ \A e \in Editors : edit[e].at # "idle" => UnderWay(edit[e], edit[e].rep)

LEMMA KnownHooked ==
  ASSUME ToolCallTypes, Known, NEW r \in Replicas, Owed(r)
  PROVE  Hooked(r)
<1> USE DEF ToolCallTypes
<1>1. Serial /\ seen.want.step /\ seen.want.on /\ r \in seen.editor
  BY DEF Owed, Serial
<1>2. CASE \A e \in Editors : edit[e].at = "idle"
  <2>1. AtRest
    BY <1>1, <1>2 DEF Known
  <2>2. db.step /\ db.on /\ Agrees(r)
    BY <1>1, <2>1 DEF AtRest, Settled
  <2> QED
    BY <2>2 DEF Agrees, Hooked
<1>3. CASE \E e \in Editors : edit[e].at # "idle"
  <2>1. PICK e \in Editors : edit[e].at # "idle"
    BY <1>3
  <2>2. UnderWay(edit[e], edit[e].rep) /\ edit[e].kind \in EditKinds
    BY <1>1, <2>1 DEF Known, PluginTypes, EditRecords
  <2>3. edit[e].rep = r
    BY <1>1, <2>2 DEF UnderWay
  <2>4. edit[e].kind \in Rescans => hook.native
    BY <2>1 DEF Owed
  <2> QED
    BY <1>1, <2>2, <2>3, <2>4 DEF UnderWay, ChainSaved, Switched, Configured, Rescanned, Kept, Agrees,
       Hooked, EditKinds
<1> QED
  BY <1>2, <1>3

(* What the steps that are no edit leave alone *)
LEMMA KnownFrame ==
  ASSUME ToolCallTypes, Known, hook' = hook, mem' = mem, edit' = edit,
         db'.row = db.row, db'.step = db.step, db'.on = db.on,
         seen'.want = seen.want, seen'.editor = seen.editor,
         seen'.overlap = seen.overlap, seen'.torn = seen.torn
  PROVE  Known'
<1>1. /\ Serial' = Serial /\ Settled' = Settled /\ Kept' = Kept
      /\ \A r : AtHand(r)' = AtHand(r)
  BY Zenon DEF Serial, Settled, Kept, AtHand
<1>2. \A r : Agrees(r)' = Agrees(r)
  BY <1>1, Zenon DEF Agrees
<1>3. AtRest' = AtRest
  BY <1>1, <1>2, Zenon DEF AtRest
<1>4. ASSUME NEW e \in Editors PROVE UnderWay(edit[e], edit[e].rep)' = UnderWay(edit[e], edit[e].rep)
  <2>1. ChainSaved(edit[e], edit[e].rep)' = ChainSaved(edit[e], edit[e].rep)
    BY <1>1 DEF ChainSaved
  <2>2. Switched(edit[e], edit[e].rep)' = Switched(edit[e], edit[e].rep)
    BY <1>1 DEF Switched
  <2>3. Configured(edit[e], edit[e].rep)' = Configured(edit[e], edit[e].rep)
    BY <1>1, <1>2 DEF Configured
  <2>4. Rescanned(edit[e], edit[e].rep)' = Rescanned(edit[e], edit[e].rep)
    BY <1>1, <1>2 DEF Rescanned
  <2> QED
    BY <2>1, <2>2, <2>3, <2>4 DEF UnderWay
<1> QED
  BY <1>1, <1>3, <1>4, Zenon DEF Known

(* An edit alone moves on *)
LEMMA EditMoved ==
  ASSUME ToolCallTypes, NEW e \in Editors, NEW at \in EditAts, EditTo(e, at)
  PROVE  /\ edit'[e].at = at /\ edit'[e].rep = edit[e].rep /\ edit'[e].kind = edit[e].kind
         /\ edit'[e].to = edit[e].to /\ edit[e].kind \in EditKinds
         /\ \A f \in Editors : f # e => edit'[f] = edit[f]
  BY DEF EditTo, ToolCallTypes, PluginTypes, EditRecords

LEMMA KnownAdvance ==
  ASSUME ToolCallTypes, Known, NEW e \in Editors, edit[e].at # "idle",
         NEW at \in EditAts, at # "idle", EditTo(e, at),
         seen' = seen, db'.on => db'.row,
         Serial /\ UnderWay(edit[e], edit[e].rep) => UnderWay(edit[e], edit[e].rep)'
  PROVE  Known'
<1>1. Serial' = Serial
  BY Zenon DEF Serial
<1>2. edit'[e].at # "idle" /\ \A f \in Editors : f # e => edit'[f] = edit[f]
  BY EditMoved
<1>3. ASSUME Serial PROVE \A f \in Editors : f # e => edit[f].at = "idle"
  BY <1>3 DEF Known
<1>4. Serial => UnderWay(edit[e], edit[e].rep)'
  BY DEF Known
<1>5. ASSUME Serial, NEW f \in Editors, edit'[f].at # "idle" PROVE f = e
  BY <1>2, <1>3, <1>5
<1> QED
  BY <1>1, <1>2, <1>4, <1>5, Zenon DEF Known

(* Saving the chain *)
LEMMA KnownChain ==
  ASSUME ToolCallTypes, Known, NEW e \in Editors, DeleteSteps(e) \/ InsertSteps(e)
  PROVE  Known'
<1> DEFINE r == edit[e].rep
           x == edit[e]
<1>1. PICK at \in {"insert", "load"} : EditTo(e, at)
  BY DEF DeleteSteps, InsertSteps
<1>2. /\ seen' = seen /\ mem' = mem /\ hook' = hook /\ db'.on = db.on /\ db'.row = db.row
      /\ x.at \in {"delete", "insert"}
  BY DEF DeleteSteps, InsertSteps, EditAt, ToolCallTypes, BookTypes
<1>3. at \in EditAts /\ at # "idle"
  BY DEF EditAts
<1>4. ASSUME UnderWay(x, r) PROVE UnderWay(x, r)'
  <2>1. /\ edit'[e].at = at /\ edit'[e].rep = r /\ edit'[e].kind = x.kind
        /\ edit'[e].to = x.to /\ x.kind \in EditKinds
    BY <1>1, <1>3, EditMoved
  <2>2. x.kind = "pipeline"
    BY <1>2, <1>4, <2>1 DEF UnderWay, Switched, Configured, Rescanned, EditKinds
  <2>3. ChainSaved(x, r)
    BY <1>4, <2>2 DEF UnderWay
  <2>4. \A q : AtHand(q)' = AtHand(q)
    BY <1>2, Zenon DEF AtHand
  <2>5. ChainSaved(x, r)'
    BY <1>2, <2>1, <2>3, <2>4 DEF ChainSaved
  <2> QED
    BY <1>2, <1>4, <2>1, <2>2, <2>5 DEF UnderWay, Rescans
<1> QED
  BY <1>1, <1>2, <1>3, <1>4, KnownAdvance DEF Known

(* Switching the plugin, and storing its configuration *)
LEMMA KnownSwitch ==
  ASSUME ToolCallTypes, Known, NEW e \in Editors, SwitchPlugin(e)
  PROVE  Known'
<1> DEFINE r == edit[e].rep
           x == edit[e]
<1>1. EditTo(e, "records") /\ "records" \in EditAts
  BY DEF SwitchPlugin, EditAts
<1>2. /\ seen' = seen /\ mem' = mem /\ hook' = hook /\ db'.on = (x.to /\ db.row) /\ db'.row = db.row
      /\ db'.step = db.step /\ x.at = "update"
  BY DEF SwitchPlugin, EditAt, ToolCallTypes, BookTypes
<1>3. ASSUME UnderWay(x, r) PROVE UnderWay(x, r)'
  <2>1. /\ edit'[e].at = "records" /\ edit'[e].rep = r /\ edit'[e].kind = x.kind
        /\ edit'[e].to = x.to /\ x.kind \in EditKinds
    BY <1>1, EditMoved
  <2>2. x.kind = "switch"
    BY <1>2, <1>3, <2>1 DEF UnderWay, ChainSaved, Configured, Rescanned, EditKinds
  <2>3. Switched(x, r)
    BY <1>3, <2>2 DEF UnderWay
  <2>4. \A q : AtHand(q)' = AtHand(q)
    BY <1>2, Zenon DEF AtHand
  <2>5. db.on => db.row
    BY DEF Known
  <2>6. Switched(x, r)'
    BY <1>2, <2>1, <2>3, <2>4, <2>5 DEF Switched
  <2> QED
    BY <1>2, <1>3, <2>1, <2>2, <2>6 DEF UnderWay, Rescans
<1> QED
  BY <1>1, <1>2, <1>3, KnownAdvance DEF Known

LEMMA KnownConfigure ==
  ASSUME ToolCallTypes, Known, NEW e \in Editors, Configure(e)
  PROVE  Known'
<1> DEFINE r == edit[e].rep
           x == edit[e]
<1>1. EditTo(e, "records") /\ "records" \in EditAts
  BY DEF Configure, EditAts
<1>2. seen' = seen /\ mem' = mem /\ hook' = hook /\ db' = db /\ x.at = "configure"
  BY DEF Configure, EditAt, books
<1>3. ASSUME UnderWay(x, r) PROVE UnderWay(x, r)'
  <2>1. /\ edit'[e].at = "records" /\ edit'[e].rep = r /\ edit'[e].kind = x.kind
        /\ edit'[e].to = x.to /\ x.kind \in EditKinds
    BY <1>1, EditMoved
  <2>2. x.kind = "configure"
    BY <1>2, <1>3, <2>1 DEF UnderWay, ChainSaved, Switched, Rescanned, EditKinds
  <2>3. Configured(x, r)
    BY <1>3, <2>2 DEF UnderWay
  <2>4. Configured(x, r)'
    BY <1>2, <2>1, <2>3 DEF Configured, Kept, Agrees, AtHand
  <2> QED
    BY <1>2, <1>3, <2>1, <2>2, <2>4 DEF UnderWay, Rescans
<1> QED
  BY <1>1, <1>2, <1>3, KnownAdvance DEF Known

(* Importing, removing and the first steps of a scan *)
LEMMA KnownRescan ==
  ASSUME ToolCallTypes, Known, NEW e \in Editors,
         (Import(e) /\ EditTo(e, "seed")) \/ DropPlugin(e) \/ DropSteps(e) \/ Seed(e)
  PROVE  Known'
<1> DEFINE r == edit[e].rep
           x == edit[e]
<1>1. PICK at \in {"seed", "dropSteps", "clear"} : EditTo(e, at) /\ (at = "dropSteps" => x.at = "drop")
  <2>1. CASE Import(e) /\ EditTo(e, "seed")
    BY <2>1
  <2>2. CASE DropPlugin(e)
    BY <2>2 DEF DropPlugin, EditAt
  <2>3. CASE DropSteps(e) \/ Seed(e)
    BY <2>3 DEF DropSteps, Seed
  <2> QED
    BY <2>1, <2>2, <2>3
<1>2. at \in EditAts /\ at # "idle" /\ at \notin {"records", "load", "ingest"}
  BY DEF EditAts
<1>3. seen' = seen /\ mem' = mem /\ hook' = hook /\ x.at \in {"ingest", "drop", "dropSteps", "seed"}
  BY Zenon DEF Import, DropPlugin, DropSteps, Seed, EditAt
<1>4. db'.on => db'.row
  <2>1. Ingested.row
    BY DEF Ingested, ToolCallTypes, BookTypes
  <2>2. CASE db' = db \/ db' = Ingested
    BY <2>1, <2>2 DEF Known
  <2>3. CASE DropPlugin(e) \/ DropSteps(e)
    BY <2>3 DEF DropPlugin, DropSteps, Known, ToolCallTypes, BookTypes
  <2>4. Import(e) \/ Seed(e) => db' = db \/ db' = Ingested
    BY Zenon DEF Import, Seed, Seeded
  <2> QED
    BY <2>2, <2>3, <2>4
<1>5. ASSUME UnderWay(x, r) PROVE UnderWay(x, r)'
  <2>1. /\ edit'[e].at = at /\ edit'[e].rep = r /\ edit'[e].kind = x.kind
        /\ edit'[e].to = x.to /\ x.kind \in EditKinds
    BY <1>1, <1>2, EditMoved
  <2>2. x.kind \in Rescans
    BY <1>3, <1>5, <2>1 DEF UnderWay, ChainSaved, Switched, Configured, EditKinds
  <2>3. Rescanned(x, r)
    BY <1>5, <2>2 DEF UnderWay
  <2>4. \A q : AtHand(q)' = AtHand(q)
    BY <1>3, Zenon DEF AtHand
  <2>5. hook.native => x.at = "seed" /\ db' = db
    BY <1>3, <2>3, Zenon DEF Rescanned, Import, DropPlugin, DropSteps, Seed, Seeded, EditAt
  <2>6. at = "dropSteps" => x.kind # "scan"
    BY <1>1, <2>3 DEF Rescanned
  <2>7. ASSUME hook.native, r \in seen.editor PROVE Kept' /\ Agrees(r)'
    <3>1. Kept /\ Agrees(r) /\ db' = db
      BY <2>3, <2>5, <2>7 DEF Rescanned
    <3>2. Kept'
      BY <1>3, <3>1, Zenon DEF Kept
    <3>3. Agrees(r)'
      BY <1>3, <2>1, <2>4, <3>1, Zenon DEF Agrees
    <3> QED
      BY <3>2, <3>3
  <2>8. Rescanned(x, r)'
    BY <1>1, <1>2, <1>3, <2>1, <2>3, <2>6, <2>7 DEF Rescanned
  <2> QED
    BY <1>3, <1>5, <2>1, <2>2, <2>8 DEF UnderWay, Rescans
<1> QED
  BY <1>1, <1>2, <1>3, <1>4, <1>5, KnownAdvance

(* Loading the modules and the records again *)
LEMMA KnownReload ==
  ASSUME ToolCallTypes, Known, NEW e \in Editors,
         ClearLoaded(e) \/ LoadModules(e) \/ RefreshRecords(e)
  PROVE  Known'
<1> DEFINE r == edit[e].rep
           x == edit[e]
<1>1. PICK at \in {"modules", "records", "load"} : EditTo(e, at)
  BY DEF ClearLoaded, LoadModules, RefreshRecords
<1>2. at \in EditAts /\ at # "idle" /\ at \notin {"ingest", "drop", "dropSteps", "update"}
  BY DEF EditAts
<1>3. seen' = seen /\ db' = db /\ hook' = hook /\ x.at \in {"clear", "modules", "records"}
  BY Zenon DEF ClearLoaded, LoadModules, RefreshRecords, EditAt, books
<1>4. /\ edit'[e].at = at /\ edit'[e].rep = r /\ edit'[e].kind = x.kind
      /\ edit'[e].to = x.to /\ x.kind \in EditKinds
  BY <1>1, <1>2, EditMoved
<1>5. r \in Replicas
  BY <1>3 DEF ToolCallTypes, PluginTypes
<1>6. /\ mem'[r].step = mem[r].step
      /\ at = "modules" => x.at = "clear" /\ mem'[r].on = mem[r].on
      /\ at = "records" => x.at = "modules" /\ mem'[r].on = mem[r].on /\ mem'[r].loaded = db.row
      /\ at = "load"    => x.at = "records" /\ mem'[r].on = db.on /\ mem'[r].loaded = mem[r].loaded
  <2>1. ClearLoaded(e) => at = "modules" /\ x.at = "clear" /\ mem' = [mem EXCEPT ![r].loaded = FALSE]
    BY <1>1, <1>4, EditMoved DEF ClearLoaded, EditAt, EditAts
  <2>2. LoadModules(e) => at = "records" /\ x.at = "modules" /\ mem' = [mem EXCEPT ![r].loaded = db.row]
    BY <1>1, <1>4, EditMoved DEF LoadModules, EditAt, EditAts
  <2>3. RefreshRecords(e) => /\ at = "load" /\ x.at = "records"
                             /\ mem' = [mem EXCEPT ![r].row = db.row, ![r].on = db.on]
    BY <1>1, <1>4, EditMoved DEF RefreshRecords, EditAt, EditAts
  <2>4. mem[r] \in [row : BOOLEAN, step : BOOLEAN, on : BOOLEAN, loaded : BOOLEAN]
    BY <1>5 DEF ToolCallTypes, PluginTypes
  <2>5. CASE ClearLoaded(e)
    BY <1>5, <2>1, <2>4, <2>5 DEF ToolCallTypes, PluginTypes
  <2>6. CASE LoadModules(e)
    BY <1>5, <2>2, <2>4, <2>6 DEF ToolCallTypes, PluginTypes
  <2>7. CASE RefreshRecords(e)
    <3>1. mem'[r].step = mem[r].step /\ mem'[r].on = db.on /\ mem'[r].loaded = mem[r].loaded
      BY <1>5, <2>3, <2>4, <2>7 DEF ToolCallTypes, PluginTypes
    <3> QED
      BY <2>3, <2>7, <3>1
  <2> QED
    BY <2>5, <2>6, <2>7
<1>7. ASSUME UnderWay(x, r) PROVE UnderWay(x, r)'
  <2>1. x.kind # "pipeline"
    BY <1>3, <1>7 DEF UnderWay, ChainSaved
  <2>2. (at # "load" => x.kind \in Rescans) /\ x.at # "update"
    BY <1>4, <1>6, <1>7, <2>1, <1>3 DEF UnderWay, Switched, Configured, EditKinds
  <2>3. hook.native => AtHand(r)'
    BY <1>3, Zenon DEF AtHand
  <2>4. at = "load" /\ AtHand(r) => AtHand(r)'
    BY <1>3, <1>4, <1>6, Zenon DEF AtHand
  <2>5. at = "records" /\ db.on => AtHand(r)'
    BY <1>3, <1>4, <1>6, Zenon DEF AtHand, Known
  <2>6. Kept' = Kept
    BY <1>3, Zenon DEF Kept
  <2>7. ASSUME Agrees(r), hook.native \/ at = "load" PROVE Agrees(r)'
    <3>1. mem'[r].on = db.on /\ mem'[r].step = db.step /\ (db.on => AtHand(r)')
      BY <1>1, <1>6, <2>3, <2>4, <2>7 DEF Agrees
    <3> QED
      BY <1>3, <1>4, <3>1, Zenon DEF Agrees
  <2>8. ASSUME x.kind = "switch" PROVE Switched(x, r)'
    <3>1. at = "load" /\ Switched(x, r)
      BY <1>7, <2>2, <2>8 DEF UnderWay, Rescans
    <3> QED
      BY <1>3, <1>4, <1>6, <2>2, <2>4, <3>1 DEF Switched
  <2>9. ASSUME x.kind = "configure" PROVE Configured(x, r)'
    <3>1. at = "load" /\ Configured(x, r)
      BY <1>7, <2>2, <2>9 DEF UnderWay, Rescans
    <3> QED
      BY <1>3, <1>4, <1>6, <2>6, <2>7, <3>1 DEF Configured
  <2>10. ASSUME x.kind \in Rescans PROVE Rescanned(x, r)'
    <3>1. Rescanned(x, r)
      BY <1>7, <2>10 DEF UnderWay
    <3>2. hook.native /\ r \in seen.editor => Kept' /\ Agrees(r)'
      BY <2>6, <2>7, <3>1 DEF Rescanned
    <3>3. at \in {"records", "load"} => (db.on => AtHand(r)')
      BY <1>6, <2>4, <2>5, <3>1 DEF Rescanned
    <3> QED
      BY <1>1, <1>2, <1>3, <1>4, <1>6, <3>1, <3>2, <3>3 DEF Rescanned
  <2> QED
    BY <1>3, <1>4, <1>7, <2>1, <2>8, <2>9, <2>10 DEF UnderWay
<1>8. db'.on => db'.row
  BY <1>3 DEF Known
<1> QED
  BY <1>1, <1>2, <1>3, <1>7, <1>8, KnownAdvance

(* An edit begins *)
LEMMA KnownStart ==
  ASSUME ToolCallTypes, Known, NEW e \in Editors, NEW r \in Replicas, NEW kind \in EditKinds,
         NEW to \in BOOLEAN, StartEdit(e, r, kind, to)
  PROVE  Known'
<1> DEFINE x == [at |-> First(kind), rep |-> r, kind |-> kind, to |-> to]
<1>1. /\ edit' = [edit EXCEPT ![e] = x] /\ edit[e].at = "idle"
      /\ db' = db /\ mem' = mem /\ hook' = hook
  BY Zenon DEF StartEdit, books
<1>2. /\ seen'.editor = seen.editor \cap {r} /\ seen'.want = Wants(kind, to) /\ seen'.torn = seen.torn
      /\ seen'.overlap = (seen.overlap \/ \E f \in Editors \ {e} : edit[f].at # "idle")
  BY DEF StartEdit, ToolCallTypes, SeenTypes
<1>3. edit'[e] = x /\ \A f \in Editors : f # e => edit'[f] = edit[f]
  BY <1>1 DEF ToolCallTypes, PluginTypes
<1>4. SUFFICES ASSUME Serial' PROVE UnderWay(edit[e], edit[e].rep)' /\ \A f \in Editors : f # e => edit[f].at = "idle"
  <2>1. db'.on => db'.row
    BY <1>1 DEF Known
  <2>2. x.at # "idle"
    BY DEF First, EditKinds, Rescans
  <2> QED
    BY <1>3, <1>4, <2>1, <2>2, Zenon DEF Known
<1>5. Serial /\ \A f \in Editors : edit[f].at = "idle"
  BY <1>1, <1>2, <1>4 DEF Serial, ToolCallTypes, SeenTypes
<1>6. AtRest
  BY <1>5 DEF Known
<1>7. /\ seen.want = [step |-> db.step, on |-> db.on]
      /\ seen.want \in [step : BOOLEAN, on : BOOLEAN]
      /\ \A q \in seen'.editor : q = r /\ Agrees(r) /\ Agrees(r)'
  <2>1. Agrees(r)' = Agrees(r)
    BY <1>1, Zenon DEF Agrees, AtHand
  <2> QED
    BY <1>2, <1>6, <2>1 DEF AtRest, Settled, ToolCallTypes, SeenTypes
<1>8. /\ kind \in {"pipeline", "switch"} /\ to => AtHand(r)
      /\ kind \in {"import", "remove"} => ~hook.native
  BY Zenon DEF StartEdit
<1>9. AtHand(r)' = AtHand(r)
  BY <1>1, Zenon DEF AtHand
<1>10. UnderWay(x, r)'
  <2>1. seen'.editor \subseteq {r}
    BY <1>2
  <2>2. CASE kind = "pipeline"
    <3>1. /\ First(kind) = "delete"
          /\ seen'.want.step = (db.step /\ to) /\ seen'.want.on = db.on
      BY <1>2, <1>7, <2>2 DEF First, Wants
    <3>2. ChainSaved(x, r)'
      BY <1>1, <1>7, <1>9, <3>1 DEF ChainSaved, Agrees
    <3> QED
      BY <2>1, <2>2, <3>2 DEF UnderWay, Rescans
  <2>3. CASE kind = "switch"
    <3>1. /\ First(kind) = "update"
          /\ seen'.want.step = db.step /\ seen'.want.on = (db.on /\ to)
      BY <1>2, <1>7, <2>3 DEF First, Wants
    <3>2. Switched(x, r)'
      BY <1>1, <1>7, <1>8, <1>9, <2>3, <3>1 DEF Switched, Agrees
    <3> QED
      BY <2>1, <2>3, <3>2 DEF UnderWay, Rescans
  <2>4. CASE kind = "configure"
    <3>1. First(kind) = "configure" /\ seen'.want = seen.want
      BY <1>2, <2>4 DEF First, Wants
    <3>2. Kept'
      BY <1>1, <1>7, <3>1 DEF Kept
    <3>3. Configured(x, r)'
      BY <1>7, <3>1, <3>2 DEF Configured
    <3> QED
      BY <2>1, <2>4, <3>3 DEF UnderWay, Rescans
  <2>5. CASE kind \in {"import", "scan"}
    <3>1. /\ First(kind) = (IF kind = "import" THEN "ingest" ELSE "seed") /\ seen'.want = seen.want
      BY <1>2, <2>5 DEF First, Wants
    <3>2. Kept' /\ seen'.want = Settled'
      BY <1>1, <1>7, <3>1 DEF Kept, Settled
    <3>3. Rescanned(x, r)'
      BY <1>1, <1>7, <1>8, <2>5, <3>1, <3>2 DEF Rescanned
    <3> QED
      BY <2>1, <2>5, <3>3 DEF UnderWay, Rescans
  <2>6. CASE kind = "remove"
    <3>1. First(kind) = "drop" /\ ~hook'.native
      BY <1>1, <1>8, <2>6 DEF First
    <3>2. Rescanned(x, r)'
      BY <2>6, <3>1 DEF Rescanned
    <3> QED
      BY <2>1, <2>6, <3>2 DEF UnderWay, Rescans
  <2> QED
    BY <2>2, <2>3, <2>4, <2>5, <2>6 DEF EditKinds, Rescans
<1>11. UnderWay(edit[e], edit[e].rep)'
  BY <1>3, <1>10 DEF UnderWay, ChainSaved, Switched, Configured, Rescanned
<1> QED
  BY <1>5, <1>11

(* An edit ends: what it read last is what it left *)
LEMMA KnownEnd ==
  ASSUME ToolCallTypes, Known, NEW e \in Editors, edit[e].at # "idle",
         edit' = [edit EXCEPT ![e] = NoEdit], db' = db, hook' = hook,
         seen'.overlap = seen.overlap, seen'.torn = seen.torn,
         Serial /\ UnderWay(edit[e], edit[e].rep) => AtRest'
  PROVE  Known'
<1>1. Serial' = Serial /\ edit'[e].at = "idle" /\ \A f \in Editors : f # e => edit'[f] = edit[f]
  BY DEF Serial, ToolCallTypes, PluginTypes, NoEdit
<1>2. ASSUME Serial PROVE AtRest' /\ \A f \in Editors : edit'[f].at = "idle"
  BY <1>1, <1>2 DEF Known
<1>3. db'.on => db'.row
  BY DEF Known
<1> QED
  BY <1>1, <1>2, <1>3, Zenon DEF Known

LEMMA KnownLoad ==
  ASSUME ToolCallTypes, Known, NEW e \in Editors, LoadPipeline(e)
  PROVE  Known'
<1> DEFINE r == edit[e].rep
           x == edit[e]
<1>1. /\ x.at = "load" /\ edit' = [edit EXCEPT ![e] = NoEdit] /\ db' = db /\ hook' = hook
      /\ mem' = [mem EXCEPT ![r].step = db.step]
  BY Zenon DEF LoadPipeline, EditAt, books
<1>2. /\ seen'.overlap = seen.overlap /\ seen'.torn = seen.torn
      /\ seen'.editor = IF RereadsAll(x.kind) THEN {r} ELSE seen.editor
      /\ seen'.want = IF \E f \in Editors \ {e} : edit[f].at # "idle" THEN seen.want ELSE Settled
  BY DEF LoadPipeline, ToolCallTypes, SeenTypes
<1>3. r \in Replicas /\ x.kind \in EditKinds
  BY <1>1 DEF ToolCallTypes, PluginTypes, EditRecords
<1>4. mem'[r].step = db.step /\ mem'[r].on = mem[r].on /\ mem'[r].loaded = mem[r].loaded
  BY <1>1, <1>3 DEF ToolCallTypes, PluginTypes
<1>5. ASSUME Serial, UnderWay(x, r) PROVE AtRest'
  <2>1. \A f \in Editors \ {e} : edit[f].at = "idle"
    BY <1>1, <1>5 DEF Known
  <2>2. seen'.want = Settled'
    BY <1>1, <1>2, <2>1 DEF Settled
  <2>3. seen.editor \subseteq {r}
    BY <1>5 DEF UnderWay
  <2>4. ASSUME r \in seen'.editor PROVE mem[r].on = db.on /\ (db.on => AtHand(r))
    <3>1. CASE x.kind \in Rescans
      BY <1>1, <1>5, <3>1 DEF UnderWay, Rescanned
    <3>2. CASE x.kind = "pipeline"
      BY <1>2, <1>5, <2>4, <3>2 DEF UnderWay, ChainSaved, RereadsAll, Rescans
    <3>3. CASE x.kind = "switch"
      BY <1>1, <1>5, <3>3 DEF UnderWay, Switched
    <3>4. CASE x.kind = "configure"
      <4>1. Configured(x, r) /\ mem[r].on = db.on
        BY <1>1, <1>5, <3>4 DEF UnderWay, Configured
      <4>2. hook.native => AtHand(r)
        BY DEF AtHand
      <4> QED
        BY <1>2, <2>4, <3>4, <4>1, <4>2 DEF Configured, Agrees, RereadsAll, Rescans
    <3> QED
      BY <1>3, <3>1, <3>2, <3>3, <3>4 DEF EditKinds
  <2>5. ASSUME NEW q \in seen'.editor PROVE Agrees(q)'
    <3>1. q = r
      BY <1>2, <2>3
    <3>2. AtHand(q)' = AtHand(q)
      BY <1>1, <1>4, <3>1, Zenon DEF AtHand
    <3> QED
      BY <1>1, <1>4, <2>4, <3>1, <3>2, Zenon DEF Agrees
  <2> QED
    BY <2>2, <2>5, Zenon DEF AtRest
<1> QED
  BY <1>1, <1>2, <1>5, KnownEnd

(* An import that is refused, and an edit of which a statement fails *)
LEMMA KnownStop ==
  ASSUME ToolCallTypes, Known, NEW e \in Editors,
         (Import(e) /\ edit' = [edit EXCEPT ![e] = NoEdit]) \/ EditFails(e)
  PROVE  Known'
<1>1. CASE EditFails(e)
  <2>1. seen'.torn /\ db' = db
    BY <1>1 DEF EditFails, books, ToolCallTypes, SeenTypes
  <2> QED
    BY <2>1 DEF Known, Serial
<1>2. CASE Import(e) /\ edit' = [edit EXCEPT ![e] = NoEdit]
  <2>1. edit[e].at = "ingest" /\ mem' = mem /\ seen' = seen /\ hook' = hook
    BY <1>2, Zenon DEF Import, EditAt
  <2>2. db' = db
    <3>1. edit'[e].at = "idle"
      BY <1>2 DEF NoEdit, ToolCallTypes, PluginTypes
    <3>2. EditTo(e, "seed") => edit'[e].at = "seed"
      BY EditMoved DEF EditAts
    <3> QED
      BY <1>2, <3>1, <3>2 DEF Import
  <2>3. ASSUME Serial, UnderWay(edit[e], edit[e].rep) PROVE AtRest'
    <3>1. edit[e].kind \in EditKinds
      BY DEF ToolCallTypes, PluginTypes, EditRecords
    <3>2. Rescanned(edit[e], edit[e].rep) /\ seen.editor \subseteq {edit[e].rep}
      BY <2>1, <2>3, <3>1 DEF UnderWay, ChainSaved, Switched, Configured, EditKinds
    <3>3. AtRest
      BY <2>1, <3>2 DEF Rescanned, AtRest
    <3>4. \A q : Agrees(q)' = Agrees(q)
      BY <2>1, <2>2, Zenon DEF Agrees, AtHand
    <3> QED
      BY <2>1, <2>2, <3>3, <3>4, Zenon DEF AtRest, Settled
  <2> QED
    BY <1>2, <2>1, <2>2, <2>3, KnownEnd
<1> QED
  BY <1>1, <1>2

(* A replica starts again and reads what is on record *)
LEMMA KnownRestart ==
  ASSUME ToolCallTypes, Known, NEW r \in Replicas, Restart(r)
  PROVE  Known'
<1>1. /\ edit' = [e \in Editors |-> IF edit[e].rep = r THEN NoEdit ELSE edit[e]]
      /\ mem' = [mem EXCEPT ![r] = [row |-> db'.row, step |-> db.step, on |-> db.on, loaded |-> db'.row]]
      /\ hook' = hook
  BY Zenon DEF Restart
<1>2. /\ seen'.overlap = seen.overlap /\ seen'.want = seen.want
      /\ seen'.torn = (seen.torn \/ \E e \in Editors : edit[e].rep = r)
      /\ seen'.editor = IF \A e \in Editors : edit[e].at = "idle" THEN seen.editor \cup {r} ELSE seen.editor
  BY DEF Restart, ToolCallTypes, SeenTypes
<1>3. db'.on = db.on /\ db'.step = db.step /\ (db.row => db'.row)
  <2>1. db' = db \/ db' = Ingested
    BY Zenon DEF Restart, Seeded
  <2> QED
    BY <2>1 DEF Ingested, ToolCallTypes, BookTypes
<1>4. db'.on => db'.row
  BY <1>3 DEF Known
<1>5. SUFFICES ASSUME Serial'
      PROVE  /\ \A e, f \in Editors : edit'[e].at # "idle" /\ edit'[f].at # "idle" => e = f
             /\ (\A e \in Editors : edit'[e].at = "idle") => AtRest'
             /\ \A e \in Editors : edit'[e].at # "idle" => UnderWay(edit[e], edit[e].rep)'
  BY <1>4, <1>5, Zenon DEF Known
<1>6. Serial /\ edit' = edit /\ \A e \in Editors : edit[e].rep # r
  BY <1>1, <1>2, <1>5 DEF Serial, ToolCallTypes, PluginTypes
<1>7. /\ mem'[r].step = db.step /\ mem'[r].on = db.on /\ mem'[r].loaded = db'.row
      /\ \A q \in Replicas : q # r => mem'[q] = mem[q]
  BY <1>1 DEF ToolCallTypes, PluginTypes
<1>8. \A q \in Replicas : q # r => AtHand(q)' = AtHand(q) /\ Agrees(q)' = Agrees(q)
  BY <1>1, <1>3, <1>7, Zenon DEF AtHand, Agrees
<1>9. Agrees(r)'
  <2>1. db.on => AtHand(r)'
    BY <1>3, <1>4, <1>7, Zenon DEF AtHand
  <2> QED
    BY <1>3, <1>7, <2>1, Zenon DEF Agrees
<1>10. ASSUME \A e \in Editors : edit'[e].at = "idle" PROVE AtRest'
  <2>1. AtRest
    BY <1>6, <1>10 DEF Known
  <2>2. seen'.want = Settled'
    BY <1>2, <1>3, <2>1 DEF AtRest, Settled
  <2>3. \A q \in seen'.editor : Agrees(q)'
    BY <1>2, <1>8, <1>9, <2>1 DEF AtRest, ToolCallTypes, SeenTypes
  <2> QED
    BY <2>2, <2>3, Zenon DEF AtRest
<1>11. ASSUME NEW e \in Editors, edit'[e].at # "idle" PROVE UnderWay(edit[e], edit[e].rep)'
  <2>1. UnderWay(edit[e], edit[e].rep) /\ edit[e].rep # r /\ edit[e].rep \in Replicas
        /\ seen'.editor = seen.editor
    BY <1>2, <1>6, <1>11 DEF Known, ToolCallTypes, PluginTypes
  <2>2. mem'[edit[e].rep] = mem[edit[e].rep] /\ AtHand(edit[e].rep)' = AtHand(edit[e].rep)
        /\ Agrees(edit[e].rep)' = Agrees(edit[e].rep) /\ Kept' = Kept /\ Settled' = Settled
    <3>1. AtHand(edit[e].rep)' = AtHand(edit[e].rep)
      BY <1>1, <1>6, <1>7, <2>1, Zenon DEF AtHand
    <3>2. Agrees(edit[e].rep)' = Agrees(edit[e].rep)
      BY <1>3, <1>6, <1>7, <2>1, <3>1, Zenon DEF Agrees
    <3>3. Kept' = Kept /\ Settled' = Settled
      BY <1>2, <1>3, Zenon DEF Kept, Settled
    <3> QED
      BY <1>7, <2>1, <3>1, <3>2, <3>3
  <2>3. ChainSaved(edit[e], edit[e].rep)' = ChainSaved(edit[e], edit[e].rep)
    BY <1>2, <1>3, <1>6, <2>1, <2>2 DEF ChainSaved
  <2>4. Switched(edit[e], edit[e].rep)' = Switched(edit[e], edit[e].rep)
    BY <1>2, <1>3, <1>6, <2>1, <2>2 DEF Switched
  <2>5. Configured(edit[e], edit[e].rep)' = Configured(edit[e], edit[e].rep)
    BY <1>2, <1>3, <1>6, <2>1, <2>2 DEF Configured
  <2>6. Rescanned(edit[e], edit[e].rep)' = Rescanned(edit[e], edit[e].rep)
    BY <1>1, <1>2, <1>3, <1>6, <2>1, <2>2 DEF Rescanned
  <2> QED
    BY <1>6, <2>1, <2>3, <2>4, <2>5, <2>6 DEF UnderWay
<1>12. \A e, f \in Editors : edit'[e].at # "idle" /\ edit'[f].at # "idle" => e = f
  BY <1>6 DEF Known
<1> QED
  BY <1>10, <1>11, <1>12

LEMMA KnownStep ==
  ASSUME ToolCallTypes, Known, [Next]_vars
  PROVE  Known'
<1> USE DEF ToolCallTypes
<1>1. hook' = hook
  BY ConstantVars
<1>2. ASSUME NEW c \in bound.calls, CallSteps(c) PROVE Known'
  <2>1. CallMoves(c) \/ MeterMoves(c)
    BY <1>2, CallStepsSplit
  <2>2. mem' = mem /\ edit' = edit
    BY <2>1, CallsAndPlugins
  <2>3. /\ seen'.want = seen.want /\ seen'.editor = seen.editor
        /\ seen'.overlap = seen.overlap /\ seen'.torn = seen.torn
    BY <2>1, CallsNote, UpsetNoted
  <2>4. db'.row = db.row /\ db'.step = db.step /\ db'.on = db.on
    <3>1. db' \in {db, Counted, [db EXCEPT !.used = 1], [db EXCEPT !.used = IF @ = NoRow THEN 1 ELSE @]}
      BY <2>1, CallsCount
    <3>2. db \in [row : BOOLEAN, step : BOOLEAN, on : BOOLEAN, used : Int]
      BY DEF BookTypes
    <3>3. \A n : LET d == [db EXCEPT !.used = n]
                 IN d.row = db.row /\ d.step = db.step /\ d.on = db.on
      BY <3>2
    <3>4. db' = db \/ \E n : db' = [db EXCEPT !.used = n]
      BY <3>1, Zenon DEF Counted
    <3> QED
      BY <3>3, <3>4, Zenon
  <2> QED
    BY <1>1, <2>2, <2>3, <2>4, KnownFrame
<1>3. ASSUME NEW e \in Editors, EditSteps(e) PROVE Known'
  <2>1. CASE \E r \in Replicas, kind \in EditKinds, to \in BOOLEAN : StartEdit(e, r, kind, to)
    BY <2>1, KnownStart
  <2>2. CASE DeleteSteps(e) \/ InsertSteps(e)
    BY <2>2, KnownChain
  <2>3. CASE SwitchPlugin(e)
    BY <2>3, KnownSwitch
  <2>4. CASE Configure(e)
    BY <2>4, KnownConfigure
  <2>5. CASE (Import(e) /\ EditTo(e, "seed")) \/ DropPlugin(e) \/ DropSteps(e) \/ Seed(e)
    BY <2>5, KnownRescan
  <2>6. CASE ClearLoaded(e) \/ LoadModules(e) \/ RefreshRecords(e)
    BY <2>6, KnownReload
  <2>7. CASE LoadPipeline(e)
    BY <2>7, KnownLoad
  <2>8. CASE (Import(e) /\ ~EditTo(e, "seed")) \/ EditFails(e)
    <3>1. Import(e) /\ ~EditTo(e, "seed") => edit' = [edit EXCEPT ![e] = NoEdit]
      BY Zenon DEF Import
    <3> QED
      BY <2>8, <3>1, KnownStop
  <2> QED
    BY <1>3, <2>1, <2>2, <2>3, <2>4, <2>5, <2>6, <2>7, <2>8, Zenon DEF EditSteps, EditKinds
<1>4. ASSUME NEW r \in Replicas, AppendRecord(r) \/ AppendFails(r) PROVE Known'
  <2>1. mem' = mem /\ edit' = edit /\ db' = db
    BY <1>4, Zenon DEF AppendRecord, AppendFails
  <2>2. /\ seen'.want = seen.want /\ seen'.editor = seen.editor
        /\ seen'.overlap = seen.overlap /\ seen'.torn = seen.torn
    BY <1>4 DEF AppendRecord, AppendFails, SeenTypes
  <2> QED
    BY <1>1, <2>1, <2>2, KnownFrame
<1>5. CASE Revoke \/ UNCHANGED vars
  <2>1. mem' = mem /\ edit' = edit /\ db' = db
    BY <1>5, Zenon DEF Revoke, vars, plugins, books
  <2>2. /\ seen'.want = seen.want /\ seen'.editor = seen.editor
        /\ seen'.overlap = seen.overlap /\ seen'.torn = seen.torn
    BY <1>5 DEF Revoke, vars, SeenTypes
  <2> QED
    BY <1>1, <2>1, <2>2, KnownFrame
<1> QED
  BY <1>2, <1>3, <1>4, <1>5, KnownRestart, Zenon DEF Next

-------------------------------------------------------------------------------
(* What a call has to do with the hook.  Until the hook of calls has answered,   *)
(* nothing was sent; a call due the hook was put to it.                          *)
Unsent(k)   == k.i = 1 /\ ~k.sent
Awaiting    == {"asked", "denied"}
Overseen(c) == hook.listed => job[c].documented /\ Writes(Plan(c))

Gated(c, k) ==
  /\ k.at \in {"new", "pre"} => k.asked = "no" /\ ~k.due /\ Unsent(k)
  /\ k.at = "hook" => k.asked = "asked" /\ hook.point = "onToolCall"
  /\ k.at = "filter" => k.asked = "asked" /\ hook.point # "onToolCall"
  /\ k.asked \in Awaiting /\ hook.point = "onToolCall" => k.at \in {"hook", "done", "gone"} /\ Unsent(k)
  /\ k.asked \in Awaiting /\ hook.point # "onToolCall" => k.at \in {"filter", "gone"}
  /\ k.asked = "threw" => ~hook.native
  /\ k.due /\ Overseen(c) => k.asked # "no"

LEMMA GatedPlain ==
  ASSUME NEW c, NEW k, NEW k2, Gated(c, k), k2.asked = k.asked, k2.due = k.due,
         k.at \in {"new", "pre", "token", "send", "force", "post", "fail", "reply"},
         k2.at \notin {"new", "pre", "hook", "filter"}
  PROVE  Gated(c, k2)
  BY DEF Gated, Awaiting

(* The requests of a call leave alone what it has to do with the hook, and it    *)
(* has a result as soon as they are over                                         *)
Onward(k, g) ==
  /\ g.asked = k.asked /\ g.due = k.due /\ g.late = k.late
  /\ g.at \in {"token", "send", "force", "post", "fail", "done"}
  /\ g.at = "post" => g.result \in {"ok", "error"}
  /\ g.at = "done" => k.late
  /\ g.at \in {"token", "send", "force", "fail"} => g.result = k.result

LEMMA EndsOnward ==
  ASSUME NEW c, NEW k \in CallRecords, NEW noted
  PROVE  Onward(k, GoesOn(c, k, noted)) /\ Onward(k, EndsInError(k)) /\ Onward(k, Throws(k))
<1>1. Onward(k, GoesOn(c, k, noted))
  <2>1. PICK at, i, result :
          /\ GoesOn(c, k, noted) = [k EXCEPT !.at = at, !.i = i, !.retried = FALSE, !.sent = FALSE, !.noted = noted,
                                             !.result = result]
          /\ \/ at = "token" /\ result = k.result
             \/ at = "done" /\ k.late
             \/ at = "post" /\ result \in {"ok", "error"}
    <3>1. PICK i, ends, failed :
            GoesOn(c, k, noted) =
              [k EXCEPT !.at = IF ~ends THEN "token" ELSE IF k.late THEN "done" ELSE "post", !.i = i,
                        !.retried = FALSE, !.sent = FALSE, !.noted = noted,
                        !.result = IF ~ends \/ k.late THEN k.result ELSE IF failed THEN "error" ELSE "ok"]
      BY Zenon DEF GoesOn
    <3>2. CASE ~ends
      BY <3>1, <3>2, Zenon
    <3>3. CASE ends /\ k.late
      BY <3>1, <3>3, Zenon
    <3>4. CASE ends /\ ~k.late /\ failed
      BY <3>1, <3>4, Zenon
    <3>5. CASE ends /\ ~k.late /\ ~failed
      BY <3>1, <3>5, Zenon
    <3> QED
      BY <3>2, <3>3, <3>4, <3>5
  <2> QED
    BY <2>1 DEF Onward, CallRecords
<1>2. Onward(k, EndsInError(k)) /\ Onward(k, Throws(k))
  BY DEF EndsInError, Throws, CallRecords, Onward
<1> QED
  BY <1>1, <1>2

LEMMA SentOnward ==
  ASSUME CallTypes, NEW c \in Calls, NEW s \in {Sent(c), Applied(c, Sent(c))}, NEW g
  PROVE  s \in CallRecords /\ (Onward(s, g) => Onward(call[c], g))
<1>1. s \in CallRecords
  BY SentTyped
<1>2. Sent(c) \in CallRecords /\ Sent(c).asked = call[c].asked /\ Sent(c).due = call[c].due
      /\ Sent(c).late = call[c].late /\ Sent(c).result = call[c].result
  BY SentTyped DEF Sent, CallTypes, CallRecords
<1>3. ASSUME NEW n
      PROVE  LET a == [Sent(c) EXCEPT !.applied[n] = @ + 1] IN
             a.asked = Sent(c).asked /\ a.due = Sent(c).due /\ a.late = Sent(c).late /\ a.result = Sent(c).result
  BY <1>2 DEF CallRecords
<1>4. s.asked = call[c].asked /\ s.due = call[c].due /\ s.late = call[c].late /\ s.result = call[c].result
  BY <1>2, <1>3 DEF Applied
<1> QED
  BY <1>1, <1>4 DEF Onward

LEMMA ConnectorMoves ==
  ASSUME Chosen, CallTypes, NEW c \in bound.calls,
         \/ GetToken(c) \/ RefreshToken(c) \/ Send(c) \/ Lose(c)
         \/ RefuseInput(c) \/ CheckInput(c) \/ UseKept(c) \/ PluginMissing(c) \/ Unreachable(c)
  PROVE  call[c].at \in {"token", "send", "force"} /\ Onward(call[c], call'[c])
<1> DEFINE k == call[c]
<1>1. c \in Calls /\ k \in CallRecords /\ call \in [Calls -> CallRecords]
  BY ScenarioOf DEF CallTypes
<1>2. ASSUME NEW g, call' = [call EXCEPT ![c] = g] PROVE call'[c] = g
  BY <1>1, <1>2
<1>3. call[c].at \in {"token", "send", "force"}
  BY DEF GetToken, RefreshToken, Send, Lose, RefuseInput, CheckInput, UseKept, PluginMissing, Unreachable, Fresh
<1>4. CASE GetToken(c) \/ RefreshToken(c) \/ PluginMissing(c) \/ Unreachable(c)
  <2>1. \/ \E token : call'[c] = [k EXCEPT !.at = "send", !.token = token]
        \/ \E retried : call'[c] = [k EXCEPT !.at = "token", !.retried = retried]
        \/ call'[c] = [k EXCEPT !.at = "fail"]
    <3>1. Goes(c, "fail") => call'[c] = [k EXCEPT !.at = "fail"]
      BY <1>1 DEF Goes
    <3> QED
      BY <1>2, <1>4, <3>1, Zenon DEF GetToken, RefreshToken, PluginMissing, Unreachable
  <2> QED
    BY <1>1, <1>3, <2>1 DEF CallRecords, Onward
<1>5. ASSUME NEW s \in {Sent(c), Applied(c, Sent(c))}, NEW refused, NEW g \in Failed(c, s, refused)
      PROVE  Onward(k, g)
  <2>1. g \in {GoesOn(c, s, TRUE), EndsInError(s), Throws(s)}
    BY <1>5 DEF Failed
  <2>2. s \in CallRecords
    BY <1>1, SentOnward
  <2> QED
    BY <1>1, <2>1, <2>2, EndsOnward, SentOnward
<1>7. CASE Send(c)
  <2>1. CASE Unauthorized(c)
    <3>1. call'[c] = [Sent(c) EXCEPT !.at = "force"] \/ call'[c] \in Failed(c, Sent(c), TRUE)
      BY <1>2, <1>7, <2>1, Zenon DEF Send, Becomes
    <3>2. Onward(Sent(c), [Sent(c) EXCEPT !.at = "force"])
      BY <1>1, SentTyped DEF CallRecords, Onward
    <3> QED
      BY <1>1, <1>3, <1>5, SentOnward, <3>1, <3>2
  <2>2. CASE ~Unauthorized(c)
    <3> DEFINE some == IF Request(c) \in {SomeRead, SomeWrite} THEN Applied(c, Sent(c)).some + 1
                       ELSE Applied(c, Sent(c)).some
               s == [Applied(c, Sent(c)) EXCEPT !.some = some]
    <3>1. call'[c] = GoesOn(c, s, FALSE) \/ call'[c] \in Failed(c, Sent(c), TRUE)
      BY <1>2, <1>7, <2>2, Zenon DEF Send, Becomes
    <3>2. Applied(c, Sent(c)) \in CallRecords /\ some \in Nat
      BY <1>1, SentTyped DEF CallRecords
    <3> HIDE DEF some
    <3>3. s \in CallRecords /\ \A g : Onward(s, g) => Onward(Applied(c, Sent(c)), g)
      BY <3>2 DEF CallRecords, Onward
    <3> HIDE DEF s
    <3>4. Onward(k, GoesOn(c, s, FALSE))
      BY <1>1, <3>3, EndsOnward, SentOnward
    <3> QED
      BY <1>3, <1>5, <3>1, <3>4
  <2> QED
    BY <2>1, <2>2
<1>8. CASE Lose(c)
  <2>1. call'[c] \in Failed(c, Sent(c), FALSE) \cup Failed(c, Applied(c, Sent(c)), FALSE)
    BY <1>2, <1>8, Zenon DEF Lose, Becomes, AfterLoss
  <2> QED
    BY <1>3, <1>5, <2>1
<1>9. CASE RefuseInput(c) \/ CheckInput(c) \/ UseKept(c)
  <2>1. call'[c] \in {EndsInError(k), GoesOn(c, k, FALSE)}
    BY <1>2, <1>9, Zenon DEF RefuseInput, CheckInput, UseKept
  <2> QED
    BY <1>1, <1>3, <2>1, EndsOnward
<1> QED
  BY <1>4, <1>7, <1>8, <1>9

LEMMA CallGated ==
  ASSUME ToolCallTypes, Known, NEW c \in bound.calls, Gated(c, call[c]), CallMoves(c)
  PROVE  Gated(c, call'[c])
<1> USE DEF ToolCallTypes
<1> DEFINE k == call[c]
<1>1. c \in Calls /\ k \in CallRecords /\ call \in [Calls -> CallRecords]
  BY ScenarioOf DEF CallTypes
<1>2. ASSUME NEW g, call' = [call EXCEPT ![c] = g] PROVE call'[c] = g
  BY <1>1, <1>2
<1>3. CASE \E r \in Replicas : CannotConnect(c, r) \/ Arrive(c, r) \/ BudgetUnread(c, r)
  <2>1. PICK r \in Replicas : CannotConnect(c, r) \/ Arrive(c, r) \/ BudgetUnread(c, r)
    BY <1>3
  <2>2. /\ k.at = "new"
        /\ \/ call'[c] = [k EXCEPT !.at = "done", !.rep = r, !.result = "unreachable"]
           \/ call'[c] = [k EXCEPT !.at = "done", !.rep = r, !.result = "budget"]
           \/ call'[c] = [k EXCEPT !.at = "pre", !.rep = r]
    BY <1>2, <2>1, Zenon DEF CannotConnect, Arrive, BudgetUnread
  <2>3. k.asked = "no" /\ ~k.due /\ Unsent(k)
    BY <2>2 DEF Gated
  <2>4. /\ call'[c].asked = k.asked /\ call'[c].due = k.due /\ call'[c].at \in {"done", "pre"}
        /\ call'[c].i = k.i /\ call'[c].sent = k.sent
    BY <1>1, <2>2 DEF CallRecords
  <2> QED
    BY <2>3, <2>4 DEF Gated, Unsent, Awaiting
<1>4. ASSUME NEW point, NEW asking, NEW next, Junction(c, point, asking, next),
             k.at \in {"pre", "post"},
             \/ point = "onToolCall" /\ asking = "hook" /\ next = "token" /\ k.at = "pre"
             \/ point = "onToolResult" /\ asking = "filter" /\ next = "reply" /\ k.at = "post"
      PROVE  Gated(c, call'[c])
  <2> DEFINE here == hook.point = point
             asks == here /\ Hooked(k.rep) /\ Asks(c)
             at == IF asks THEN asking ELSE next
             due == IF here THEN Owed(k.rep) ELSE k.due
             asked == IF asks THEN "asked" ELSE k.asked
  <2>1. call'[c] = [k EXCEPT !.at = at, !.due = due, !.asked = asked]
    BY <1>2, <1>4, Zenon DEF Junction
  <2>2. k.rep \in Replicas
    BY <1>1, <1>4 DEF CallTypes
  <2>3. ASSUME here, due, Overseen(c) PROVE asks
    <3>1. Hooked(k.rep)
      BY <2>2, <2>3, KnownHooked
    <3>2. Asks(c)
      BY <2>3, ScenarioOf DEF Overseen, Asks, Plan
    <3> QED
      BY <2>3, <3>1, <3>2
  <2>4. k.asked \notin Awaiting /\ (k.at = "pre" => Unsent(k))
    BY <1>4 DEF Gated, Awaiting
  <2>5. /\ asks => at = asking /\ asked = "asked" /\ hook.point = point
        /\ ~asks => at = next /\ asked = k.asked
        /\ ~here => due = k.due
    OBVIOUS
  <2> HIDE DEF at, due, asked, asks, here
  <2>6. /\ call'[c].at = at /\ call'[c].due = due /\ call'[c].asked = asked
        /\ call'[c].i = k.i /\ call'[c].sent = k.sent
    BY <1>1, <2>1 DEF CallRecords
  <2>7. due /\ Overseen(c) => asked # "no"
    <3>1. CASE asks
      BY <2>5, <3>1
    <3>2. CASE ~asks
      BY <2>3, <2>5, <3>2 DEF Gated
    <3> QED
      BY <3>1, <3>2
  <2>8. CASE asks
    BY <1>4, <2>4, <2>5, <2>6, <2>7, <2>8 DEF Gated, Unsent, Awaiting
  <2>9. CASE ~asks
    BY <1>4, <2>4, <2>5, <2>6, <2>7, <2>9 DEF Gated, Unsent, Awaiting
  <2> QED
    BY <2>8, <2>9
<1>5. CASE ApplyPre(c) \/ ApplyPost(c)
  BY <1>4, <1>5, Zenon DEF ApplyPre, ApplyPost
<1>6. CASE HookAnswers(c) \/ FilterAnswers(c)
  <2>1. \/ k.at = "hook" /\ call'[c] = [k EXCEPT !.at = "token", !.asked = "allowed"]
        \/ k.at = "hook" /\ call'[c] = [k EXCEPT !.at = "done", !.asked = "denied", !.result = "denied"]
        \/ k.at = "hook" /\ call'[c] = [k EXCEPT !.at = "token", !.asked = "threw"] /\ ~hook.native
        \/ k.at = "filter" /\ call'[c] = [k EXCEPT !.at = "reply", !.asked = "allowed"]
        \/ k.at = "filter" /\ call'[c] = [k EXCEPT !.at = "reply", !.asked = "threw"] /\ ~hook.native
    BY <1>2, <1>6, Zenon DEF HookAnswers, FilterAnswers
  <2>2. /\ call'[c].i = k.i /\ call'[c].sent = k.sent
        /\ \/ call'[c].at \in {"token", "reply"} /\ call'[c].asked = "allowed"
           \/ call'[c].at \in {"token", "reply"} /\ call'[c].asked = "threw" /\ ~hook.native
           \/ k.at = "hook" /\ call'[c].at = "done" /\ call'[c].asked = "denied"
    BY <1>1, <2>1 DEF CallRecords
  <2> QED
    BY <2>2 DEF Gated, Unsent, Awaiting
<1>7. CASE \/ GetToken(c) \/ RefreshToken(c) \/ Send(c) \/ Lose(c)
           \/ RefuseInput(c) \/ CheckInput(c) \/ UseKept(c) \/ PluginMissing(c) \/ Unreachable(c)
  BY <1>7, ConnectorMoves, GatedPlain DEF Onward
<1>8. CASE TimeOut(c) \/ Fail(c) \/ Reply(c)
  <2>1. \/ call'[c] = [k EXCEPT !.late = TRUE, !.result = "threw"] /\ k.at \in {"token", "send", "force"}
        \/ call'[c] = [k EXCEPT !.at = "done", !.result = "threw"] /\ k.at = "fail"
        \/ call'[c] = [k EXCEPT !.at = "done"] /\ k.at = "reply"
    BY <1>1, <1>2, <1>8, Zenon DEF TimeOut, Fail, Reply, Goes
  <2>2. /\ call'[c].asked = k.asked /\ call'[c].due = k.due
        /\ k.at \in {"token", "send", "force", "fail", "reply"}
        /\ call'[c].at \in {"token", "send", "force", "done"}
    BY <1>1, <2>1 DEF CallRecords
  <2> QED
    BY <2>2, GatedPlain
<1> QED
  BY <1>3, <1>5, <1>6, <1>7, <1>8, Zenon DEF CallMoves

GateKept == \A c \in bound.calls : Gated(c, call[c])

LEMMA GateKeptStep ==
  ASSUME ToolCallTypes, Known, GateKept, [Next]_vars
  PROVE  GateKept'
<1>1. bound' = bound /\ job' = job /\ hook' = hook
  BY ConstantVars
<1>2. ASSUME NEW c \in bound.calls PROVE Gated(c, call'[c])
  <2>1. Gated(c, call[c])
    BY DEF GateKept
  <2>2. CASE call'[c] = [call[c] EXCEPT !.at = "gone"]
    <3>1. call[c] \in CallRecords
      BY ScenarioOf DEF ToolCallTypes, CallTypes
    <3>2. /\ call'[c].at = "gone" /\ call'[c].asked = call[c].asked /\ call'[c].due = call[c].due
          /\ call'[c].i = call[c].i /\ call'[c].sent = call[c].sent
      BY <2>2, <3>1 DEF CallRecords
    <3> QED
      BY <2>1, <3>2 DEF Gated, Unsent, Awaiting
  <2> QED
    BY <2>1, <2>2, CallGated, OneCallMoves
<1>3. ASSUME NEW c \in bound.calls PROVE Gated(c, call[c])'
  <2>1. Overseen(c)' = Overseen(c)
    BY <1>1, Zenon DEF Overseen, Plan
  <2> QED
    BY <1>1, <1>2, <1>3, <2>1 DEF Gated, Unsent
<1> QED
  BY <1>1, <1>3, Zenon DEF GateKept

(* No call and no result gets past a hook it was owed to: whoever stores, scans, *)
(* imports, switches, configures and loads meanwhile, a step that stays in the   *)
(* pipeline runs (manager.ts enabledHooks, setPipeline, scan, setEnabled)        *)
THEOREM HookNotBypassed == Spec => []GateNotBypassed
<1>1. Init => Known /\ GateKept
  <2> SUFFICES ASSUME Init PROVE Known /\ GateKept
    OBVIOUS
  <2>1. Chosen /\ call = [c \in Calls |-> NoCall] /\ edit = [e \in Editors |-> NoEdit]
    BY Zenon DEF Init, Chosen
  <2>2. /\ db.row /\ db.step /\ db.on /\ seen.want = [step |-> TRUE, on |-> TRUE]
        /\ db.step = TRUE /\ db.on = TRUE
        /\ \A r \in Replicas : mem[r].step = TRUE /\ mem[r].on = TRUE /\ mem[r].loaded = TRUE
        /\ seen.editor = Replicas
    BY DEF Init
  <2>3. AtRest
    BY <2>2 DEF AtRest, Settled, Agrees, AtHand
  <2>4. \A e \in Editors : edit[e].at = "idle"
    BY <2>1 DEF NoEdit
  <2>5. Known
    BY <2>2, <2>3, <2>4 DEF Known
  <2>6. ASSUME NEW c PROVE Gated(c, NoCall)
    BY DEF NoCall, Gated, Unsent, Awaiting
  <2>7. bound.calls \subseteq Calls
    BY <2>1, ScenarioOf
  <2> QED
    BY <2>1, <2>5, <2>6, <2>7 DEF GateKept
<1>2. ToolCallTypes /\ Known /\ GateKept /\ [Next]_vars => Known' /\ GateKept'
  BY KnownStep, GateKeptStep
<1>3. ToolCallTypes /\ GateKept => GateNotBypassed
  <2> SUFFICES ASSUME ToolCallTypes, GateKept, NEW c \in bound.calls, call[c].due, Passed(c),
                      hook.listed => job[c].documented /\ Writes(Plan(c))
               PROVE  call[c].asked \in (IF hook.native THEN {"allowed"} ELSE {"allowed", "threw"})
    BY DEF GateNotBypassed
  <2>1. Gated(c, call[c]) /\ call[c].asked \in Answers /\ call[c].i \in Nat
    BY ScenarioOf DEF GateKept, ToolCallTypes, CallTypes, CallRecords
  <2>2. call[c].asked # "no"
    BY <2>1 DEF Gated, Overseen
  <2>3. call[c].asked \notin Awaiting
    BY <2>1 DEF Gated, Passed, Reached, Unsent
  <2> QED
    BY <2>1, <2>2, <2>3 DEF Gated, Awaiting, Answers
<1> QED
  BY <1>1, <1>2, <1>3, TypeInvariance, PTL DEF Spec

-------------------------------------------------------------------------------
(* The books, while nothing has failed.  A call whose answer is being given has  *)
(* a result, and is metered and recorded from its end on.                        *)
AnsweredCall(k) == k.at = "done" /\ k.result \in {"ok", "error"}
Noted(k) ==
  /\ ~k.late /\ k.at # "gone"
  /\ k.at \in Doing \cup {"fail"} => k.result = "none"
  /\ k.at \in {"post", "filter", "reply"} => k.result \in {"ok", "error"}

(* The counter *)
Metered == {c \in Calls : meter[c] = "done"}
CountKept ==
  /\ \A c \in Calls : meter[c] # "none" <=> c \in Answered
  /\ \A c \in Calls : meter[c] \in {"update", "done"} => db.used # NoRow
  /\ db.used # NoRow => db.used = Cardinality(Metered)

(* The records *)
Success(c) == <<c, "success">>
InTrail(c, n)  == n \in DOMAIN trail /\ trail[n].id = Success(c)
Waits(c, r, n) == n \in DOMAIN audit[r].queue /\ audit[r].queue[n] = Success(c)
Somewhere(c) == (\E n \in Nat : InTrail(c, n)) \/ \E r \in Replicas, n \in Nat : Waits(c, r, n)
AtMostOnce(c) ==
  /\ \A m, n \in Nat : InTrail(c, m) /\ InTrail(c, n) => m = n
  /\ \A q, r \in Replicas, m, n \in Nat : Waits(c, q, m) /\ Waits(c, r, n) => q = r /\ m = n
  /\ \A n, m \in Nat, r \in Replicas : ~(InTrail(c, n) /\ Waits(c, r, m))
RecordsKept == \A c \in Calls : AtMostOnce(c) /\ (Somewhere(c) <=> c \in Answered)

BooksKept ==
  seen.upsets = 0 => /\ \A c \in bound.calls : Noted(call[c])
                     /\ CountKept
                     /\ RecordsKept

LEMMA NoUpset ==
  ASSUME SeenTypes, Next, seen'.upsets = 0
  PROVE  /\ seen.upsets = 0 /\ ~Upset
         /\ \A e \in Editors : ~EditFails(e)
         /\ \A r \in Replicas : ~AppendFails(r) /\ ~Restart(r)
<1>1. ~Upset
  BY DEF Upset, SeenTypes
<1> DEFINE n == seen.upsets
<1>0. n \in Nat /\ n + 1 # 0
  BY DEF SeenTypes
<1>2. ASSUME NEW e \in Editors PROVE ~EditFails(e)
  <2>1. EditFails(e) => seen' = [seen EXCEPT !.upsets = n + 1, !.torn = TRUE]
    BY Zenon DEF EditFails
  <2> QED
    BY <1>0, <2>1 DEF SeenTypes
<1>3. ASSUME NEW r \in Replicas PROVE ~AppendFails(r) /\ ~Restart(r)
  <2>1. AppendFails(r) => \E u : seen' = [seen EXCEPT !.upsets = n + 1, !.unacked = u]
    BY Zenon DEF AppendFails
  <2> DEFINE t == seen.torn \/ \E e \in Editors : edit[e].rep = r
             d == IF \A e \in Editors : edit[e].at = "idle" THEN seen.editor \cup {r} ELSE seen.editor
  <2>2. Restart(r) => seen' = [seen EXCEPT !.upsets = n + 1, !.torn = t, !.editor = d]
    BY Zenon DEF Restart
  <2> HIDE DEF t, d
  <2> QED
    BY <1>0, <2>1, <2>2 DEF SeenTypes
<1>4. seen.upsets = 0
  <2>1. CASE \E c \in bound.calls : CallSteps(c)
    BY <1>1, <2>1, CallStepsSplit, CallsNote
  <2>2. CASE \E e \in Editors : EditSteps(e)
    <3>1. PICK e \in Editors : EditSteps(e)
      BY <2>2
    <3>2. CASE \E r \in Replicas, kind \in EditKinds, to \in BOOLEAN : StartEdit(e, r, kind, to)
      BY <3>2 DEF StartEdit, SeenTypes
    <3>3. CASE LoadPipeline(e)
      BY <3>3 DEF LoadPipeline, SeenTypes
    <3>4. CASE \/ DeleteSteps(e) \/ InsertSteps(e) \/ SwitchPlugin(e) \/ ClearLoaded(e) \/ Configure(e)
               \/ Import(e) \/ DropPlugin(e) \/ DropSteps(e) \/ Seed(e) \/ LoadModules(e) \/ RefreshRecords(e)
      BY <3>4, Zenon DEF DeleteSteps, InsertSteps, SwitchPlugin, ClearLoaded, Configure, Import, DropPlugin,
             DropSteps, Seed, LoadModules, RefreshRecords
    <3> QED
      BY <1>2, <3>1, <3>2, <3>3, <3>4, Zenon DEF EditSteps, EditKinds
  <2>3. ASSUME NEW r \in Replicas, AppendRecord(r) PROVE seen.upsets = 0
    BY <2>3 DEF AppendRecord, SeenTypes
  <2>4. CASE Revoke
    BY <2>4 DEF Revoke, SeenTypes
  <2> QED
    BY <1>3, <2>1, <2>2, <2>3, <2>4, Zenon DEF Next
<1> QED
  BY <1>1, <1>2, <1>3, <1>4

(* A call that moves has not ended; it is answered by Reply alone *)
LEMMA CallNoted ==
  ASSUME ToolCallTypes, ~Upset, NEW c \in bound.calls, Noted(call[c]), CallMoves(c)
  PROVE  /\ Noted(call'[c]) /\ ~AnsweredCall(call[c])
         /\ Reply(c) <=> AnsweredCall(call'[c])
<1> USE DEF ToolCallTypes, Doing
<1> DEFINE k == call[c]
<1>1. c \in Calls /\ k \in CallRecords /\ call \in [Calls -> CallRecords]
  BY ScenarioOf DEF CallTypes
<1>2. ASSUME NEW g, call' = [call EXCEPT ![c] = g] PROVE call'[c] = g
  BY <1>1, <1>2
<1>3. Reply(c) => k.at = "reply" /\ call'[c] = [k EXCEPT !.at = "done"]
  BY <1>1, <1>2 DEF Reply, Goes
<1>4. CASE Reply(c)
  BY <1>1, <1>3, <1>4 DEF Noted, AnsweredCall, CallRecords
<1>5. ASSUME k.at # "reply", k.at # "done", Noted(call'[c]), ~AnsweredCall(call'[c])
      PROVE  /\ Noted(call'[c]) /\ ~AnsweredCall(call[c])
             /\ Reply(c) <=> AnsweredCall(call'[c])
  BY <1>3, <1>5 DEF AnsweredCall
<1>6. CASE \E r \in Replicas : CannotConnect(c, r) \/ Arrive(c, r) \/ BudgetUnread(c, r)
  <2>1. PICK r \in Replicas : CannotConnect(c, r) \/ Arrive(c, r) \/ BudgetUnread(c, r)
    BY <1>6
  <2>2. /\ k.at = "new"
        /\ \/ call'[c] = [k EXCEPT !.at = "done", !.rep = r, !.result = "unreachable"]
           \/ call'[c] = [k EXCEPT !.at = "done", !.rep = r, !.result = "budget"]
           \/ call'[c] = [k EXCEPT !.at = "pre", !.rep = r]
    BY <1>2, <2>1, Zenon DEF CannotConnect, Arrive, BudgetUnread
  <2> QED
    BY <1>1, <1>5, <2>2, ZenonT(40) DEF Noted, AnsweredCall, CallRecords
<1>7. CASE ApplyPre(c) \/ ApplyPost(c)
  <2>1. ASSUME NEW point, NEW asking, NEW next, Junction(c, point, asking, next),
               \/ k.at = "pre" /\ asking = "hook" /\ next = "token"
               \/ k.at = "post" /\ asking = "filter" /\ next = "reply"
        PROVE  /\ k.at # "reply" /\ k.at # "done" /\ Noted(call'[c]) /\ ~AnsweredCall(call'[c])
    <3> DEFINE here == hook.point = point
               asks == here /\ Hooked(k.rep) /\ Asks(c)
               at == IF asks THEN asking ELSE next
               due == IF here THEN Owed(k.rep) ELSE k.due
               asked == IF asks THEN "asked" ELSE k.asked
    <3>1. call'[c] = [k EXCEPT !.at = at, !.due = due, !.asked = asked] /\ at \in {asking, next}
      BY <1>2, <2>1, Zenon DEF Junction
    <3> HIDE DEF at, due, asked
    <3>2. call'[c].at = at /\ call'[c].late = k.late /\ call'[c].result = k.result
      BY <1>1, <3>1 DEF CallRecords
    <3> QED
      BY <2>1, <3>1, <3>2 DEF Noted, AnsweredCall
  <2>2. k.at # "reply" /\ k.at # "done" /\ Noted(call'[c]) /\ ~AnsweredCall(call'[c])
    <3>1. \/ k.at = "pre" /\ Junction(c, "onToolCall", "hook", "token")
          \/ k.at = "post" /\ Junction(c, "onToolResult", "filter", "reply")
      BY <1>7, Zenon DEF ApplyPre, ApplyPost
    <3> QED
      BY <2>1, <3>1
  <2> QED
    BY <1>5, <2>2
<1>8. CASE HookAnswers(c) \/ FilterAnswers(c)
  <2>1. \/ /\ k.at = "hook"
           /\ \/ \E asked : call'[c] = [k EXCEPT !.at = "token", !.asked = asked]
              \/ call'[c] = [k EXCEPT !.at = "done", !.asked = "denied", !.result = "denied"]
        \/ k.at = "filter" /\ \E asked : call'[c] = [k EXCEPT !.at = "reply", !.asked = asked]
    BY <1>2, <1>8, Zenon DEF HookAnswers, FilterAnswers
  <2> QED
    BY <1>1, <1>5, <2>1 DEF Noted, AnsweredCall, CallRecords
<1>9. CASE \/ GetToken(c) \/ RefreshToken(c) \/ Send(c) \/ Lose(c)
           \/ RefuseInput(c) \/ CheckInput(c) \/ UseKept(c) \/ PluginMissing(c) \/ Unreachable(c)
  <2>1. k.at \in {"token", "send", "force"} /\ Onward(k, call'[c])
    BY <1>9, ConnectorMoves
  <2> QED
    BY <1>5, <2>1 DEF Onward, Noted, AnsweredCall
<1>10. CASE TimeOut(c)
  BY <1>10 DEF TimeOut
<1>11. CASE Fail(c)
  <2>1. k.at = "fail" /\ call'[c] = [k EXCEPT !.at = "done", !.result = "threw"]
    BY <1>2, <1>11, Zenon DEF Fail
  <2> QED
    BY <1>1, <1>5, <2>1 DEF Noted, AnsweredCall, CallRecords
<1> QED
  BY <1>4, <1>6, <1>7, <1>8, <1>9, <1>10, <1>11, Zenon DEF CallMoves

(* The calls that were answered, after a step *)
LEMMA AnsweredStep ==
  ASSUME ToolCallTypes, BooksKept, Next, seen'.upsets = 0
  PROVE  /\ seen.upsets = 0 /\ \A c \in bound.calls : Noted(call'[c])
         /\ \/ \E c \in bound.calls : /\ Reply(c) /\ c \notin Answered /\ Answered' = Answered \cup {c}
            \/ Answered' = Answered /\ \A c \in bound.calls : ~Reply(c)
<1> USE DEF ToolCallTypes
<1>1. /\ seen.upsets = 0 /\ ~Upset
      /\ \A r \in Replicas : ~AppendFails(r) /\ ~Restart(r)
  BY NoUpset
<1>2. \A c \in bound.calls : Noted(call[c])
  BY <1>1 DEF BooksKept
<1>3. bound' = bound /\ call \in [Calls -> CallRecords] /\ bound.calls \subseteq Calls
  BY ConstantVars, ScenarioOf DEF CallTypes
<1>4. Answered = {c \in bound.calls : AnsweredCall(call[c])}
  BY DEF Answered, AnsweredCall
<1>5. Answered' = {c \in bound.calls : AnsweredCall(call'[c])}
  BY <1>3 DEF Answered, AnsweredCall
<1>6. CASE \E c \in bound.calls : CallMoves(c)
  <2>1. PICK c \in bound.calls : CallMoves(c)
    BY <1>6
  <2>2. /\ Noted(call'[c]) /\ ~AnsweredCall(call[c])
        /\ Reply(c) <=> AnsweredCall(call'[c])
    BY <1>1, <1>2, <2>1, CallNoted
  <2>3. PICK k : call' = [call EXCEPT ![c] = k]
    BY <2>1, CallBecomes
  <2>4. \A d \in bound.calls : d # c => call'[d] = call[d]
    BY <1>3, <2>3
  <2>5. \A d \in bound.calls : Noted(call'[d])
    BY <1>2, <2>2, <2>4
  <2>6. CASE Reply(c)
    <3>1. Answered' = Answered \cup {c} /\ c \notin Answered
      BY <1>4, <1>5, <2>2, <2>4, <2>6
    <3> QED
      BY <1>1, <2>5, <2>6, <3>1
  <2>7. CASE ~Reply(c)
    <3>1. Answered' = Answered
      BY <1>4, <1>5, <2>2, <2>4, <2>7
    <3>2. ASSUME NEW d \in bound.calls, Reply(d) PROVE FALSE
      <4>1. call[d].at = "reply" /\ call' = [call EXCEPT ![d].at = "done"]
        BY <3>2, Zenon DEF Reply, Goes
      <4>2. call'[d].at = "done"
        BY <1>3, <4>1 DEF CallRecords
      <4>3. d = c
        BY <2>4, <4>1, <4>2
      <4> QED
        BY <2>7, <3>2, <4>3
    <3> QED
      BY <1>1, <2>5, <3>1, <3>2
  <2> QED
    BY <2>6, <2>7
<1>7. CASE call' = call
  <2>1. Answered' = Answered
    BY <1>4, <1>5, <1>7
  <2>2. ASSUME NEW d \in bound.calls, Reply(d) PROVE FALSE
    <3>1. call[d].at = "reply" /\ call' = [call EXCEPT ![d].at = "done"]
      BY <2>2, Zenon DEF Reply, Goes
    <3>2. call'[d].at = "done"
      BY <1>3, <3>1 DEF CallRecords
    <3> QED
      BY <1>7, <3>1, <3>2
  <2> QED
    BY <1>1, <1>2, <1>7, <2>1, <2>2
<1> QED
  BY <1>1, <1>6, <1>7, CallsUntouched

(* What is metered *)
LEMMA MeterFrame ==
  ASSUME Next
  PROVE  \/ \E c \in bound.calls : MeterMoves(c)
         \/ \E r \in Replicas : Restart(r)
         \/ \E c \in bound.calls : Reply(c) /\ meter' = [meter EXCEPT ![c] = "select"] /\ db' = db
         \/ meter' = meter /\ (db' = db \/ \E e \in Editors : EditSteps(e))
<1>1. CASE \E c \in bound.calls : CallSteps(c)
  BY <1>1, CallStepsSplit, CallsBooks
<1>2. CASE \E e \in Editors : EditSteps(e)
  BY <1>2, EditsBooks
<1>3. ASSUME NEW r, AppendRecord(r) \/ AppendFails(r) PROVE meter' = meter /\ db' = db
  BY <1>3, Zenon DEF AppendRecord, AppendFails
<1>4. Revoke => meter' = meter /\ db' = db
  BY Zenon DEF Revoke, books
<1> QED
  BY <1>1, <1>2, <1>3, <1>4, Zenon DEF Next

LEMMA EditsUsed ==
  ASSUME BookTypes, NEW e, EditSteps(e)
  PROVE  db'.used = db.used
<1>1. CASE DeleteSteps(e) \/ InsertSteps(e) \/ SwitchPlugin(e) \/ DropPlugin(e) \/ DropSteps(e)
  BY <1>1 DEF BookTypes, DeleteSteps, InsertSteps, SwitchPlugin, DropPlugin, DropSteps
<1>2. CASE db' = db \/ db' = Ingested
  BY <1>2 DEF BookTypes, Ingested
<1> QED
  BY <1>1, <1>2, EditsBooks

LEMMA CountStep ==
  ASSUME ToolCallTypes, BooksKept, Next, seen'.upsets = 0
  PROVE  CountKept'
<1> USE DEF ToolCallTypes
<1>1. /\ seen.upsets = 0 /\ ~Upset /\ \A r \in Replicas : ~Restart(r)
  BY NoUpset
<1>2. CountKept /\ IsFiniteSet(Calls)
  BY <1>1, ToolCallConstants DEF BooksKept
<1>3. /\ meter \in [Calls -> {"none", "select", "insert", "update", "done"}]
      /\ db \in [row : BOOLEAN, step : BOOLEAN, on : BOOLEAN, used : Int]
      /\ bound.calls \subseteq Calls
  BY ScenarioOf DEF BookTypes
<1>4. \A c \in bound.calls : ~Reply(c) => Answered' = Answered \/ \E d \in bound.calls : Reply(d)
  BY AnsweredStep
<1>5. ASSUME NEW c \in bound.calls, MeterMoves(c) PROVE CountKept'
  <2>1. call' = call /\ bound' = bound /\ Answered' = Answered
    <3>1. call' = call /\ bound' = bound
      BY <1>5, Zenon DEF MeterMoves, MeterSelect, MeterInsert, MeterUpdate, MeterFault
    <3> QED
      BY <3>1 DEF Answered
  <2>2. c \in Calls
    BY <1>3
  <2>3. CASE MeterSelect(c)
    <3>1. /\ meter[c] = "select" /\ db' = db
          /\ meter' = [meter EXCEPT ![c] = IF db.used = NoRow THEN "insert" ELSE "update"]
      BY <2>3, Zenon DEF MeterSelect
    <3>2. Metered' = Metered
      BY <1>3, <2>2, <3>1 DEF Metered
    <3> QED
      BY <1>2, <1>3, <2>1, <2>2, <3>1, <3>2 DEF CountKept
  <2>4. CASE MeterInsert(c) /\ db.used = NoRow
    <3>1. meter[c] = "insert" /\ db' = [db EXCEPT !.used = 1] /\ meter' = [meter EXCEPT ![c] = "done"]
      BY <2>4, Zenon DEF MeterInsert
    <3>2. db'.used = 1 /\ db'.used # NoRow
      BY <1>3, <3>1 DEF NoRow
    <3>3. Metered' = {c}
      BY <1>2, <1>3, <2>2, <2>4, <3>1 DEF Metered, CountKept
    <3>4. Cardinality(Metered') = 1
      BY <3>3, FS_Singleton
    <3>5. \A d \in Calls : meter'[d] # "none" <=> d \in Answered'
      BY <1>2, <1>3, <2>1, <2>2, <3>1 DEF CountKept
    <3> QED
      BY <3>2, <3>4, <3>5 DEF CountKept
  <2>5. CASE MeterInsert(c) /\ db.used # NoRow
    <3>1. meter[c] = "insert" /\ db' = db /\ meter' = [meter EXCEPT ![c] = "update"]
      BY <2>5, Zenon DEF MeterInsert, AfterConflict
    <3>2. Metered' = Metered
      BY <1>3, <2>2, <3>1 DEF Metered
    <3> QED
      BY <1>2, <1>3, <2>1, <2>2, <2>5, <3>1, <3>2 DEF CountKept
  <2>6. CASE MeterUpdate(c)
    <3>1. meter[c] = "update" /\ db' = Counted /\ meter' = [meter EXCEPT ![c] = "done"] /\ db.used # NoRow
      BY <1>2, <2>2, <2>6 DEF MeterUpdate, CountKept
    <3>2. db.used = Cardinality(Metered) /\ c \notin Metered /\ IsFiniteSet(Metered)
      BY <1>2, <3>1, FS_Subset DEF CountKept, Metered
    <3>3. Metered' = Metered \cup {c}
      BY <1>3, <2>2, <3>1 DEF Metered
    <3>4. Cardinality(Metered') = Cardinality(Metered) + 1 /\ Cardinality(Metered) \in Nat
      BY <3>2, <3>3, FS_AddElement, FS_CardinalityType
    <3>5. db'.used = db.used + 1 /\ db'.used # NoRow
      BY <1>3, <3>1, <3>2, <3>4 DEF Counted, NoRow
    <3>6. \A d \in Calls : meter'[d] # "none" <=> d \in Answered'
      BY <1>2, <1>3, <2>1, <2>2, <3>1 DEF CountKept
    <3> QED
      BY <3>2, <3>4, <3>5, <3>6 DEF CountKept
  <2>7. ~MeterFault(c)
    BY <1>1 DEF MeterFault
  <2> QED
    BY <1>5, <2>3, <2>4, <2>5, <2>6, <2>7 DEF MeterMoves
<1>6. ASSUME NEW c \in bound.calls, Reply(c), meter' = [meter EXCEPT ![c] = "select"], db' = db PROVE CountKept'
  <2>1. PICK d \in bound.calls : Reply(d) /\ d \notin Answered /\ Answered' = Answered \cup {d}
    BY <1>6, AnsweredStep
  <2>2. meter' = [meter EXCEPT ![d] = "select"]
    BY <2>1, CallsBooks DEF Reply
  <2>3. c \in Calls /\ d \in Calls
    BY <1>3
  <2>4. meter[d] = "none"
    BY <1>2, <2>1, <2>3 DEF CountKept
  <2>5. Metered' = Metered
    BY <1>3, <2>2, <2>3, <2>4 DEF Metered
  <2> QED
    BY <1>2, <1>3, <1>6, <2>1, <2>2, <2>3, <2>4, <2>5 DEF CountKept
<1>7. CASE meter' = meter /\ (db' = db \/ \E e \in Editors : EditSteps(e))
  <2>1. db'.used = db.used
    BY <1>7, EditsUsed
  <2>2. Answered' = Answered
    <3>1. ASSUME NEW c \in bound.calls, Reply(c), c \notin Answered PROVE FALSE
      <4>1. meter' = [meter EXCEPT ![c] = "select"] /\ c \in Calls
        BY <1>3, <3>1, Zenon DEF Reply
      <4>2. meter'[c] = "select" /\ meter[c] = "none"
        BY <1>2, <1>3, <3>1, <4>1 DEF CountKept
      <4> QED
        BY <1>7, <4>2
    <3> QED
      BY <3>1, AnsweredStep
  <2>3. Metered' = Metered
    BY <1>7 DEF Metered
  <2> QED
    BY <1>2, <1>7, <2>1, <2>2, <2>3 DEF CountKept
<1> QED
  BY <1>1, <1>5, <1>6, <1>7, MeterFrame

(* What is recorded *)
LEMMA RecordsFrame ==
  ASSUME Chosen, CallTypes, Next
  PROVE  \/ \E r \in Replicas : AppendRecord(r) \/ AppendFails(r) \/ Restart(r)
         \/ \E c \in bound.calls : Reply(c)
         \/ /\ trail' = trail
            /\ \/ audit' = audit
               \/ \E c \in bound.calls, r \in Replicas, kind \in {"budget", "failure"} : Enqueue(r, <<c, kind>>)
<1>1. ASSUME NEW c \in bound.calls, CallMoves(c), ~Reply(c)
      PROVE  /\ trail' = trail
             /\ \/ audit' = audit
                \/ \E r \in Replicas, kind \in {"budget", "failure"} : Enqueue(r, <<c, kind>>)
  <2>1. /\ trail' = trail
        /\ \/ audit' = audit
           \/ \E r \in Replicas : Enqueue(r, <<c, "budget">>)
           \/ (TimeOut(c) \/ Fail(c)) /\ Enqueue(call[c].rep, <<c, "failure">>)
    BY <1>1, CallsBooks, Zenon
  <2>2. TimeOut(c) \/ Fail(c) => call[c].rep \in Replicas
    BY ScenarioOf DEF TimeOut, Fail, CallTypes
  <2> QED
    BY <2>1, <2>2
<1>2. ASSUME NEW c, MeterMoves(c) PROVE trail' = trail /\ audit' = audit
  BY <1>2, Zenon DEF MeterMoves, MeterSelect, MeterInsert, MeterUpdate, MeterFault
<1>3. ASSUME NEW e, EditSteps(e) PROVE trail' = trail /\ audit' = audit
  BY <1>3, EditsBooks
<1>4. Revoke => trail' = trail /\ audit' = audit
  BY Zenon DEF Revoke, books
<1> QED
  BY <1>1, <1>2, <1>3, <1>4, CallStepsSplit, Zenon DEF Next

(* A record joins a replica's queue *)
LEMMA Queued ==
  ASSUME BookTypes, NEW r \in Replicas, NEW id \in Ids, Enqueue(r, id)
  PROVE  LET last == Len(audit[r].queue) + 1
         IN /\ last \in Nat
            /\ \A c \in Calls, q \in Replicas, n \in Nat :
                 Waits(c, q, n)' <=> Waits(c, q, n) \/ (q = r /\ n = last /\ id = Success(c))
<1> DEFINE Q == audit[r].queue
           Q2 == Append(Q, id)
           L == Len(Q)
<1>1. Q \in Seq(Ids) /\ audit \in [Replicas -> [last : Tips, queue : Seq(Ids)]]
  BY DEF BookTypes
<1>2. /\ audit[r].queue = Q /\ audit'[r].queue = Q2
      /\ \A q \in Replicas : q # r => audit'[q].queue = audit[q].queue
  BY <1>1 DEF Enqueue
<1>3. /\ L \in Nat /\ DOMAIN Q = 1..L /\ DOMAIN Q2 = 1..(L + 1)
      /\ Q2[L + 1] = id /\ \A n \in 1..L : Q2[n] = Q[n]
  BY <1>1, AppendProperties
<1>4. L + 1 = Len(audit[r].queue) + 1
  OBVIOUS
<1> HIDE DEF Q, Q2, L
<1>5. ASSUME NEW c \in Calls, NEW q \in Replicas, NEW n \in Nat
      PROVE  Waits(c, q, n)' <=> Waits(c, q, n) \/ (q = r /\ n = L + 1 /\ id = Success(c))
  <2>1. CASE q # r
    BY <1>2, <2>1 DEF Waits
  <2>2. n \in DOMAIN Q2 <=> n \in DOMAIN Q \/ n = L + 1
    BY <1>3
  <2>3. L + 1 \notin DOMAIN Q
    BY <1>3
  <2>4. CASE q = r
    <3>1. n \in DOMAIN Q => Q2[n] = Q[n]
      BY <1>3
    <3>2. Waits(c, q, n)' <=> n \in DOMAIN Q2 /\ Q2[n] = Success(c)
      BY <1>2, <2>4, Zenon DEF Waits
    <3>3. Waits(c, q, n) <=> n \in DOMAIN Q /\ Q[n] = Success(c)
      BY <1>2, <2>4, Zenon DEF Waits
    <3> QED
      BY <1>3, <2>2, <2>3, <2>4, <3>1, <3>2, <3>3
  <2> QED
    BY <2>1, <2>4
<1> QED
  BY <1>3, <1>4, <1>5

(* A record leaves its replica's queue for the trail *)
LEMMA Stored ==
  ASSUME BookTypes, NEW r \in Replicas, AppendRecord(r)
  PROVE  LET last == Len(trail) + 1
         IN /\ last \in Nat
            /\ \A c \in Calls, n \in Nat : InTrail(c, n) => n < last
            /\ \A c \in Calls, n \in Nat : InTrail(c, n)' <=> InTrail(c, n) \/ (n = last /\ Waits(c, r, 1))
            /\ \A c \in Calls, q \in Replicas, n \in Nat :
                 Waits(c, q, n)' <=> IF q = r THEN n > 0 /\ Waits(c, r, n + 1) ELSE Waits(c, q, n)
<1> DEFINE Q == audit[r].queue
           Q2 == Tail(Q)
           M == Len(Q) - 1
           L == Len(trail)
           row == Row(r)
<1>1. /\ Q \in Seq(Ids) /\ Q # <<>> /\ audit \in [Replicas -> [last : Tips, queue : Seq(Ids)]]
      /\ trail \in Seq([id : Ids, prev : Tips]) /\ row \in [id : Ids, prev : Tips] /\ row.id = Head(Q)
      /\ trail' = Append(trail, row)
  BY RowTyped DEF BookTypes, AppendRecord
<1>2. /\ audit[r].queue = Q /\ audit'[r].queue = Q2
      /\ \A q \in Replicas : q # r => audit'[q].queue = audit[q].queue
  BY <1>1 DEF AppendRecord, Advance
<1>3. /\ L \in Nat /\ DOMAIN trail = 1..L /\ DOMAIN trail' = 1..(L + 1)
      /\ trail'[L + 1] = row /\ \A n \in 1..L : trail'[n] = trail[n]
  BY <1>1, AppendProperties
<1>4. /\ M \in Nat /\ DOMAIN Q = 1..(M + 1) /\ Head(Q) = Q[1]
      /\ DOMAIN Q2 = 1..M /\ \A n \in 1..M : Q2[n] = Q[n + 1]
  BY <1>1, HeadTailProperties, EmptySeq
<1>5. L + 1 = Len(trail) + 1
  OBVIOUS
<1> HIDE DEF Q, Q2, M, L, row
<1>6. ASSUME NEW c \in Calls, NEW n \in Nat
      PROVE  /\ InTrail(c, n) => n < L + 1
             /\ InTrail(c, n)' <=> InTrail(c, n) \/ (n = L + 1 /\ Waits(c, r, 1))
  <2>1. InTrail(c, n) <=> n \in 1..L /\ trail[n].id = Success(c)
    BY <1>3, Zenon DEF InTrail
  <2>2. InTrail(c, n)' <=> n \in 1..(L + 1) /\ trail'[n].id = Success(c)
    BY <1>3, Zenon DEF InTrail
  <2>3. Waits(c, r, 1) <=> row.id = Success(c)
    <3>1. 1 \in DOMAIN Q
      BY <1>4
    <3> QED
      BY <1>1, <1>2, <1>4, <3>1, Zenon DEF Waits
  <2>4. CASE n \in 1..L
    BY <1>3, <2>1, <2>2, <2>4
  <2>5. CASE n = L + 1
    BY <1>3, <2>1, <2>2, <2>3, <2>5
  <2>6. CASE n \notin 1..(L + 1)
    BY <1>3, <2>1, <2>2, <2>6
  <2> QED
    BY <1>3, <2>4, <2>5, <2>6
<1>7. ASSUME NEW c \in Calls, NEW q \in Replicas, NEW n \in Nat
      PROVE  Waits(c, q, n)' <=> IF q = r THEN n > 0 /\ Waits(c, r, n + 1) ELSE Waits(c, q, n)
  <2>1. CASE q # r
    BY <1>2, <2>1 DEF Waits
  <2>2. CASE q = r
    <3>1. Waits(c, q, n)' <=> n \in DOMAIN Q2 /\ Q2[n] = Success(c)
      BY <1>2, <2>2, Zenon DEF Waits
    <3>2. Waits(c, r, n + 1) <=> n + 1 \in DOMAIN Q /\ Q[n + 1] = Success(c)
      BY <1>2, <2>2, Zenon DEF Waits
    <3>3. n \in DOMAIN Q2 <=> n > 0 /\ n + 1 \in DOMAIN Q
      BY <1>4
    <3>4. n \in DOMAIN Q2 => Q2[n] = Q[n + 1]
      BY <1>4
    <3> QED
      BY <2>2, <3>1, <3>2, <3>3, <3>4
  <2> QED
    BY <2>1, <2>2
<1> QED
  BY <1>3, <1>5, <1>6, <1>7

LEMMA RecordsStep ==
  ASSUME ToolCallTypes, BooksKept, Next, seen'.upsets = 0
  PROVE  RecordsKept'
<1> USE DEF ToolCallTypes
<1>1. /\ seen.upsets = 0 /\ \A r \in Replicas : ~AppendFails(r) /\ ~Restart(r)
  BY NoUpset
<1>2. RecordsKept /\ bound.calls \subseteq Calls
  BY <1>1, ScenarioOf DEF BooksKept
<1>3. ASSUME Answered' = Answered, trail' = trail, audit' = audit PROVE RecordsKept'
  BY <1>2, <1>3 DEF RecordsKept, AtMostOnce, Somewhere, InTrail, Waits
<1>4. ASSUME NEW r \in Replicas, AppendRecord(r) PROVE RecordsKept'
  <2> DEFINE last == Len(trail) + 1
  <2>1. call' = call /\ bound' = bound
    BY <1>4, Zenon DEF AppendRecord
  <2>2. Answered' = Answered
    BY <2>1 DEF Answered
  <2>3. /\ last \in Nat
        /\ \A c \in Calls, n \in Nat : InTrail(c, n) => n < last
        /\ \A c \in Calls, n \in Nat : InTrail(c, n)' <=> InTrail(c, n) \/ (n = last /\ Waits(c, r, 1))
        /\ \A c \in Calls, q \in Replicas, n \in Nat :
             Waits(c, q, n)' <=> IF q = r THEN n > 0 /\ Waits(c, r, n + 1) ELSE Waits(c, q, n)
    BY <1>4, Stored
  <2> HIDE DEF last
  <2>4. ASSUME NEW c \in Calls PROVE AtMostOnce(c)' /\ (Somewhere(c)' <=> Somewhere(c))
    <3>1. AtMostOnce(c)
      BY <1>2 DEF RecordsKept
    <3>2. \A m, n \in Nat : InTrail(c, m)' /\ InTrail(c, n)' => m = n
      BY <2>3, <3>1 DEF AtMostOnce
    <3>3. \A p, q \in Replicas, m, n \in Nat : Waits(c, p, m)' /\ Waits(c, q, n)' => p = q /\ m = n
      <4> SUFFICES ASSUME NEW p \in Replicas, NEW q \in Replicas, NEW m \in Nat, NEW n \in Nat,
                          Waits(c, p, m)', Waits(c, q, n)'
                   PROVE  p = q /\ m = n
        OBVIOUS
      <4>1. Waits(c, p, IF p = r THEN m + 1 ELSE m) /\ Waits(c, q, IF q = r THEN n + 1 ELSE n)
        BY <2>3
      <4> QED
        BY <3>1, <4>1 DEF AtMostOnce
    <3>4. \A n, m \in Nat, q \in Replicas : ~(InTrail(c, n)' /\ Waits(c, q, m)')
      <4> SUFFICES ASSUME NEW n \in Nat, NEW m \in Nat, NEW q \in Replicas, InTrail(c, n)', Waits(c, q, m)'
                   PROVE  FALSE
        OBVIOUS
      <4>1. Waits(c, q, IF q = r THEN m + 1 ELSE m) /\ (q = r => m > 0)
        BY <2>3
      <4>2. ~InTrail(c, n)
        BY <3>1, <4>1 DEF AtMostOnce
      <4>3. Waits(c, r, 1)
        BY <2>3, <4>2
      <4> QED
        BY <3>1, <4>1, <4>3 DEF AtMostOnce
    <3>5. Somewhere(c) => Somewhere(c)'
      <4>1. ASSUME NEW n \in Nat, InTrail(c, n) PROVE Somewhere(c)'
        BY <2>3, <4>1 DEF Somewhere
      <4>2. ASSUME NEW q \in Replicas, NEW n \in Nat, Waits(c, q, n) PROVE Somewhere(c)'
        <5>1. CASE q # r
          BY <2>3, <4>2, <5>1 DEF Somewhere
        <5>2. CASE q = r /\ n = 1
          BY <2>3, <4>2, <5>2 DEF Somewhere
        <5>3. CASE q = r /\ n # 1
          <6>1. n # 0
            BY <1>4, <4>2, <5>3 DEF Waits, BookTypes
          <6>2. n - 1 \in Nat /\ n - 1 > 0 /\ (n - 1) + 1 = n
            BY <5>3, <6>1
          <6>3. Waits(c, r, n - 1)'
            BY <2>3, <4>2, <5>3, <6>2
          <6> QED
            BY <6>2, <6>3, Zenon DEF Somewhere
        <5> QED
          BY <5>1, <5>2, <5>3
      <4> QED
        BY <4>1, <4>2 DEF Somewhere
    <3>6. Somewhere(c)' => Somewhere(c)
      <4>1. ASSUME NEW n \in Nat, InTrail(c, n)' PROVE Somewhere(c)
        BY <2>3, <4>1 DEF Somewhere
      <4>2. ASSUME NEW q \in Replicas, NEW n \in Nat, Waits(c, q, n)' PROVE Somewhere(c)
        <5>1. Waits(c, q, IF q = r THEN n + 1 ELSE n)
          BY <2>3, <4>2
        <5> QED
          BY <5>1 DEF Somewhere
      <4> QED
        BY <4>1, <4>2, Zenon DEF Somewhere
    <3>7. AtMostOnce(c)'
      BY <3>2, <3>3, <3>4, Zenon DEF AtMostOnce
    <3> QED
      BY <3>5, <3>6, <3>7
  <2> QED
    BY <1>2, <2>2, <2>4 DEF RecordsKept
<1>5. ASSUME NEW r \in Replicas, NEW id \in Ids, Enqueue(r, id), trail' = trail,
             \A c \in Calls : id # Success(c), Answered' = Answered
      PROVE  RecordsKept'
  <2>1. \A c \in Calls : \A n : InTrail(c, n)' <=> InTrail(c, n)
    BY <1>5 DEF InTrail
  <2>2. \A c \in Calls, q \in Replicas, n \in Nat : Waits(c, q, n)' <=> Waits(c, q, n)
    BY <1>5, Queued
  <2> QED
    BY <1>2, <1>5, <2>1, <2>2 DEF RecordsKept, AtMostOnce, Somewhere
<1>6. ASSUME NEW c \in bound.calls, Reply(c), c \notin Answered, Answered' = Answered \cup {c}
      PROVE  RecordsKept'
  <2> DEFINE r == call[c].rep
             last == Len(audit[r].queue) + 1
  <2>1. trail' = trail /\ Enqueue(r, Success(c))
    BY <1>6, Zenon DEF Reply, Success
  <2>2. r \in Replicas /\ Success(c) \in Ids /\ c \in Calls
    BY <1>2, <1>6 DEF CallTypes, Reply, Success, Ids
  <2>3. /\ last \in Nat
        /\ \A d \in Calls, q \in Replicas, n \in Nat :
             Waits(d, q, n)' <=> Waits(d, q, n) \/ (q = r /\ n = last /\ Success(c) = Success(d))
    BY <2>1, <2>2, Queued
  <2>4. \A d, n : InTrail(d, n)' <=> InTrail(d, n)
    BY <2>1 DEF InTrail
  <2> HIDE DEF last, r
  <2>5. ~Somewhere(c)
    BY <1>2, <1>6, <2>2 DEF RecordsKept
  <2>6. ASSUME NEW d \in Calls PROVE AtMostOnce(d)' /\ (Somewhere(d)' <=> d \in Answered')
    <3>1. CASE d = c
      <4>1. \A n \in Nat : ~InTrail(d, n)'
        BY <2>4, <2>5, <3>1 DEF Somewhere
      <4>2. \A q \in Replicas, n \in Nat : Waits(d, q, n)' <=> q = r /\ n = last
        BY <2>3, <2>5, <3>1 DEF Somewhere
      <4>3. AtMostOnce(d)' /\ Somewhere(d)'
        BY <2>2, <2>3, <4>1, <4>2 DEF AtMostOnce, Somewhere
      <4> QED
        BY <1>6, <3>1, <4>3
    <3>2. CASE d # c
      <4>1. Success(c) # Success(d)
        BY <3>2 DEF Success
      <4>2. \A q \in Replicas, n \in Nat : Waits(d, q, n)' <=> Waits(d, q, n)
        BY <2>3, <4>1
      <4>3. (AtMostOnce(d)' <=> AtMostOnce(d)) /\ (Somewhere(d)' <=> Somewhere(d))
        BY <2>4, <4>2 DEF AtMostOnce, Somewhere
      <4> QED
        BY <1>2, <1>6, <3>2, <4>3 DEF RecordsKept
    <3> QED
      BY <3>1, <3>2
  <2> QED
    BY <2>6 DEF RecordsKept
<1>7. ASSUME Answered' = Answered, \A c \in bound.calls : ~Reply(c) PROVE RecordsKept'
  <2>1. CASE \E c \in bound.calls, r \in Replicas, kind \in {"budget", "failure"} :
               trail' = trail /\ Enqueue(r, <<c, kind>>)
    <3>1. PICK c \in bound.calls, r \in Replicas, kind \in {"budget", "failure"} :
            trail' = trail /\ Enqueue(r, <<c, kind>>)
      BY <2>1
    <3>2. <<c, kind>> \in Ids /\ \A d \in Calls : <<c, kind>> # Success(d)
      BY <1>2 DEF Ids, Success
    <3> QED
      BY <1>5, <1>7, <3>1, <3>2
  <2> QED
    BY <1>1, <1>3, <1>4, <1>7, <2>1, RecordsFrame
<1> QED
  BY <1>6, <1>7, AnsweredStep

LEMMA BooksStep ==
  ASSUME ToolCallTypes, BooksKept, [Next]_vars
  PROVE  BooksKept'
<1>1. CASE Next
  <2> SUFFICES ASSUME seen'.upsets = 0
               PROVE  (\A c \in bound.calls : Noted(call[c]))' /\ CountKept' /\ RecordsKept'
    BY DEF BooksKept
  <2>1. \A c \in bound.calls : Noted(call'[c])
    BY <1>1, AnsweredStep
  <2>2. bound' = bound
    BY ConstantVars
  <2> QED
    BY <1>1, <2>1, <2>2, CountStep, RecordsStep
<1>2. CASE UNCHANGED vars
  <2>1. /\ bound' = bound /\ call' = call /\ seen' = seen /\ meter' = meter /\ db' = db
        /\ trail' = trail /\ audit' = audit
    BY <1>2, Zenon DEF vars
  <2>2. Answered' = Answered /\ Metered' = Metered
    BY <2>1, Zenon DEF Answered, Metered
  <2>3. CountKept' = CountKept
    BY <2>1, <2>2, Zenon DEF CountKept
  <2>4. \A c : AtMostOnce(c)' = AtMostOnce(c) /\ Somewhere(c)' = Somewhere(c)
    BY <2>1, ZenonT(40) DEF AtMostOnce, Somewhere, InTrail, Waits
  <2> QED
    BY <2>1, <2>2, <2>3, <2>4 DEF BooksKept, RecordsKept, Noted
<1> QED
  BY <1>1, <1>2

(* If nothing has failed, then once all is quiet the day's counter is the number *)
(* of calls that were answered and the trail holds one record of each, however   *)
(* the first inserts race (UsageRepo.add, AuditService.record, invokeTool)       *)
THEOREM BooksAgree == Spec => []BooksBalance
<1>1. Init => BooksKept
  <2> SUFFICES ASSUME Init PROVE BooksKept
    OBVIOUS
  <2>1. /\ Chosen /\ call = [c \in Calls |-> NoCall] /\ meter = [c \in Calls |-> "none"]
        /\ trail = <<>> /\ db.used = NoRow
        /\ audit = [r \in Replicas |-> [last |-> Genesis, queue |-> <<>>]]
    BY DEF Init, Chosen
  <2>2. bound.calls \subseteq Calls
    BY <2>1, ScenarioOf
  <2>3. Noted(NoCall) /\ NoCall.at = "new"
    BY DEF Noted, NoCall, Doing
  <2>4. Answered = {}
    BY <2>1, <2>2, <2>3 DEF Answered
  <2>5. CountKept
    BY <2>1, <2>4 DEF CountKept
  <2>6. \A c : (\A n \in Nat : ~InTrail(c, n)) /\ \A r \in Replicas, n \in Nat : ~Waits(c, r, n)
    BY <2>1 DEF InTrail, Waits
  <2>7. RecordsKept
    BY <2>4, <2>6 DEF RecordsKept, AtMostOnce, Somewhere
  <2> QED
    BY <2>1, <2>2, <2>3, <2>5, <2>7 DEF BooksKept
<1>2. ToolCallTypes /\ BooksKept /\ [Next]_vars => BooksKept'
  BY BooksStep
<1>3. ToolCallTypes /\ BooksKept => BooksBalance
  <2> SUFFICES ASSUME ToolCallTypes, BooksKept, Quiet, seen.upsets = 0
               PROVE  /\ Cardinality(Answered) = IF db.used = NoRow THEN 0 ELSE db.used
                      /\ \A c \in Answered :
                           Cardinality({n \in DOMAIN trail : trail[n].id = <<c, "success">>}) = 1
    BY DEF BooksBalance
  <2> USE DEF ToolCallTypes
  <2>1. CountKept /\ RecordsKept /\ bound.calls \subseteq Calls
    BY ScenarioOf DEF BooksKept
  <2>2. Answered = Metered
    BY <2>1 DEF CountKept, Metered, Quiet, Answered
  <2>3. Cardinality(Answered) = IF db.used = NoRow THEN 0 ELSE db.used
    <3>1. CASE db.used = NoRow
      <4>1. Metered = {}
        BY <2>1, <3>1 DEF CountKept, Metered
      <4> QED
        BY <2>2, <3>1, <4>1, FS_EmptySet
    <3>2. CASE db.used # NoRow
      BY <2>1, <2>2, <3>2 DEF CountKept
    <3> QED
      BY <3>1, <3>2
  <2>4. ASSUME NEW c \in Answered
        PROVE  Cardinality({n \in DOMAIN trail : trail[n].id = <<c, "success">>}) = 1
    <3>1. c \in Calls /\ AtMostOnce(c) /\ Somewhere(c)
      BY <2>1 DEF RecordsKept, Answered
    <3>2. \A r \in Replicas : \A n : ~Waits(c, r, n)
      BY DEF Quiet, Waits
    <3>3. PICK n \in Nat : InTrail(c, n)
      BY <3>1, <3>2 DEF Somewhere
    <3>4. \A m \in DOMAIN trail : m \in Nat
      BY DEF BookTypes
    <3>5. {m \in DOMAIN trail : trail[m].id = <<c, "success">>} = {n}
      BY <3>1, <3>3, <3>4 DEF AtMostOnce, InTrail, Success
    <3> QED
      BY <3>5, FS_Singleton
  <2> QED
    BY <2>3, <2>4
<1> QED
  BY <1>1, <1>2, <1>3, TypeInvariance, PTL DEF Spec
=============================================================================
