------------------------------- MODULE ToolCall -------------------------------
(* One tool call from the gateway to a vendor (RegistryService.invokeTool): the  *)
(* daily budget, the pipeline's hooks, the requests of the connector's plan with *)
(* the token they carry, and the books kept afterwards, the usage counter and    *)
(* the audit chain.  Around it: administrators who edit the pipeline, switch the *)
(* hook's plugin and rescan plugins on any replica, a vendor that revokes tokens,*)
(* lost answers, failing statements and replicas that die.                       *)
EXTENDS Connectors, HookPlugins

CONSTANTS
  Calls,           \* the calls
  Replicas,        \* gateway replicas over one database
  Editors,         \* administrators' requests that may overlap
  Budget,          \* governance.dailyCallBudget, with action "block"
  Scenarios        \* the bounds, one choice of them per behaviour: which calls are
                   \* made, of which jobs, and how many edits of plugins or
                   \* pipeline, revocations by the vendor, and upsets (lost
                   \* answers, failed statements, crashes) there are

NoRow   == 0 - 1      \* no usage row for today yet
NoToken == 0 - 1
Genesis == "genesis"

LongestPlan == 5

JobKinds == [plan : Seq(Making), cached : BOOLEAN, retries : Retries, throws : BOOLEAN,
             documented : BOOLEAN, held : BOOLEAN]

(* A connector that documents what to hold for approval names all its tools that *)
(* write, and no tool survives the failure of reads and of writes                *)
ASSUME ToolCallConstants ==
  /\ IsFiniteSet(Calls) /\ Budget \in Nat
  /\ \A b \in Scenarios :
       /\ b.calls \subseteq Calls
       /\ b.edits \in Nat /\ b.revocations \in Nat /\ b.upsets \in Nat
       /\ \A h \in b.hooks : h.native \in BOOLEAN /\ h.listed \in BOOLEAN /\ h.denies \in BOOLEAN
       /\ \A j \in b.jobs :
            /\ j \in JobKinds /\ Len(j.plan) \in 1..LongestPlan
            /\ j.documented /\ Writes(j.plan) => j.held
            /\ \A m, n \in DOMAIN j.plan : <<j.plan[m], j.plan[n]>> # <<SomeRead, SomeWrite>>

VARIABLES
  bound,   \* the scenario
  job,     \* job[c]: what the called tool does
  hook,    \* the one step the pipeline's chains have
  db,      \* the plugins row of the hook and whether it is enabled, its pipeline step,
           \* and the usage row
  trail,   \* the audit_log table in seq order
  mem,     \* mem[r]: PluginManager's records, pipeline and loaded modules
  cache,   \* cache[r]: the connector's cached token
  audit,   \* audit[r]: AuditService's lastHash and the records waiting for it
  call,    \* call[c]
  meter,   \* meter[c]: where its usage metering is
  edit,    \* edit[e]: an administrator's request under way
  vendor,  \* the oldest token it accepts, and whether it refuses all
  seen     \* bounds, and what happened, for the properties

vars == <<bound, job, hook, db, trail, mem, cache, audit, call, meter, edit, vendor, seen>>
books == <<db, trail, audit, meter>>
plugins == <<hook, mem, edit>>

-------------------------------------------------------------------------------
NoReplica == "none"
NoCall == [at |-> "new", rep |-> NoReplica, i |-> 1,
           token |-> NoToken, retried |-> FALSE, sent |-> FALSE, noted |-> FALSE,
           some |-> 0, applied |-> [n \in 1..LongestPlan |-> 0], asked |-> "no", due |-> FALSE, late |-> FALSE,
           result |-> "none"]
NoEdit == [at |-> "idle", rep |-> NoReplica, kind |-> "scan", to |-> FALSE]

Ends == {"done", "gone"}
Quiet == /\ \A c \in bound.calls : call[c].at \in Ends \cup {"new"}
         /\ \A c \in Calls : meter[c] \in {"none", "done"}
         /\ \A r \in Replicas : audit[r].queue = <<>>

Init ==
  /\ bound \in Scenarios
  /\ job \in [bound.calls -> bound.jobs]
  /\ hook \in bound.hooks
  /\ db = [row |-> TRUE, step |-> TRUE, on |-> TRUE, used |-> NoRow]
  /\ trail = <<>>
  /\ mem = [r \in Replicas |-> [row |-> TRUE, step |-> TRUE, on |-> TRUE, loaded |-> TRUE]]
  /\ cache = [r \in Replicas |-> NoToken]
  /\ audit = [r \in Replicas |-> [last |-> Genesis, queue |-> <<>>]]
  /\ call = [c \in Calls |-> NoCall]
  /\ meter = [c \in Calls |-> "none"]
  /\ edit = [e \in Editors |-> NoEdit]
  /\ vendor = [valid |-> 0, refuses |-> FALSE]
  /\ seen = [upsets |-> 0, edits |-> 0, revoked |-> 0, want |-> [step |-> TRUE, on |-> TRUE],
             editor |-> Replicas, overlap |-> FALSE, torn |-> FALSE, writers |-> {}, unacked |-> FALSE]

Upset == /\ seen.upsets < bound.upsets
         /\ seen' = [seen EXCEPT !.upsets = @ + 1]

-------------------------------------------------------------------------------
(* The audit chain *)

(* AuditService.record: the record waits for those before it on this replica *)
Enqueue(r, id) == audit' = [audit EXCEPT ![r].queue = Append(@, id)]

Row(r) == [id |-> Head(audit[r].queue), prev |-> audit[r].last]
Advance(r, last) == audit' = [audit EXCEPT ![r] = [last |-> last, queue |-> Tail(@.queue)]]

(* doRecord: the row is chained to the last one this replica stored *)
AppendRecord(r) ==
  /\ audit[r].queue # <<>>
  /\ trail' = Append(trail, Row(r))
  /\ Advance(r, Row(r).id)
  /\ seen' = [seen EXCEPT !.writers = @ \cup {r}]
  /\ UNCHANGED <<bound, job, hook, db, meter, mem, cache, call, edit, vendor>>

(* The INSERT fails, applied or not: the chain's head stays where it was *)
HeadMoves(r) == Row(r).id
HeadAfterFailure(r) == audit[r].last
AppendFails(r) ==
  /\ audit[r].queue # <<>>
  /\ trail' \in {trail, Append(trail, Row(r))}
  /\ Advance(r, HeadAfterFailure(r))
  /\ seen.upsets < bound.upsets
  /\ seen' = [seen EXCEPT !.upsets = @ + 1, !.unacked = @ \/ trail' # trail]
  /\ UNCHANGED <<bound, job, hook, db, meter, mem, cache, call, edit, vendor>>

(* AuditService.verify over the whole table *)
Verifies == \A n \in DOMAIN trail :
              trail[n].prev = IF n = 1 THEN Genesis ELSE trail[n - 1].id

-------------------------------------------------------------------------------
(* The usage counter: UsageRepo.add for the global scope *)

MeterSelect(c) ==
  /\ meter[c] = "select"
  /\ meter' = [meter EXCEPT ![c] = IF db.used = NoRow THEN "insert" ELSE "update"]
  /\ UNCHANGED <<bound, job, hook, db, trail, audit, mem, cache, call, edit, vendor, seen>>

(* An INSERT that finds the row of a concurrent call falls back to the UPDATE *)
ConflictIgnored == "done"
AfterConflict == "update"
MeterInsert(c) ==
  /\ meter[c] = "insert"
  /\ IF db.used = NoRow
     THEN /\ db' = [db EXCEPT !.used = 1]
          /\ meter' = [meter EXCEPT ![c] = "done"]
     ELSE /\ meter' = [meter EXCEPT ![c] = AfterConflict]
          /\ UNCHANGED db
  /\ UNCHANGED <<bound, job, hook, trail, audit, mem, cache, call, edit, vendor, seen>>

Counted == [db EXCEPT !.used = IF @ = NoRow THEN NoRow ELSE @ + 1]
MeterUpdate(c) ==
  /\ meter[c] = "update"
  /\ db' = Counted
  /\ meter' = [meter EXCEPT ![c] = "done"]
  /\ UNCHANGED <<bound, job, hook, trail, audit, mem, cache, call, edit, vendor, seen>>

(* A statement of the metering fails and nobody hears of it; one that was        *)
(* applied all the same makes the INSERT's fallback count the call twice         *)
MeterFault(c) ==
  /\ meter[c] \in {"select", "insert", "update"}
  /\ Upset
  /\ \/ meter[c] = "select" /\ meter' = [meter EXCEPT ![c] = "insert"] /\ UNCHANGED db
     \/ meter[c] = "insert" /\ meter' = [meter EXCEPT ![c] = "update"]
        /\ db' \in {db, [db EXCEPT !.used = IF @ = NoRow THEN 1 ELSE @]}
     \/ meter[c] = "update" /\ meter' = [meter EXCEPT ![c] = "done"]
        /\ db' \in {db, Counted}
  /\ UNCHANGED <<bound, job, hook, trail, audit, mem, cache, call, edit, vendor>>

-------------------------------------------------------------------------------
(* The pipeline as a replica sees it *)

(* enabledHooks: the hooks of the step's chain whose plugin is enabled and whose *)
(* module is at hand; built-in plugins are in the code                           *)
AtHandIfLoaded(r) == mem[r].loaded
AtHand(r) == hook.native \/ mem[r].loaded
Hooked(r) == mem[r].step /\ mem[r].on /\ AtHand(r)

Rescans == {"scan", "import", "remove"}

(* Whether, whatever is under way, this call is owed the hook: it was there      *)
(* before every edit under way and stays, this replica made every edit since it  *)
(* started or last read all there is to read of it, no two edits overlapped and  *)
(* none stopped halfway                                                          *)
Owed(r) == /\ seen.want.step /\ seen.want.on
           /\ r \in seen.editor /\ ~seen.overlap /\ ~seen.torn
           /\ hook.native \/ \A e \in Editors : edit[e].kind \in Rescans => edit[e].at = "idle"

-------------------------------------------------------------------------------
(* A call *)

Goes(c, at) == call' = [call EXCEPT ![c].at = at]

(* UsageService.assertCallBudget: a counter that cannot be read counts as zero *)
OverBudget == Budget > 0 /\ db.used >= Budget

(* A plugin's shim is always there; a server or an agent is connected to when it *)
(* is not, and of a call that cannot connect no record is left                   *)
Connects(c) == job[c].throws
CannotConnect(c, r) ==
  /\ call[c].at = "new" /\ Connects(c)
  /\ Upset
  /\ call' = [call EXCEPT ![c] = [@ EXCEPT !.at = "done", !.rep = r, !.result = "unreachable"]]
  /\ UNCHANGED <<bound, job, books, plugins, cache, vendor>>

(* The tool's row, and the budget before the pipeline and the vendor *)
Arrive(c, r) ==
  /\ call[c].at = "new"
  /\ IF OverBudget
     THEN /\ call' = [call EXCEPT ![c] = [@ EXCEPT !.at = "done", !.rep = r, !.result = "budget"]]
          /\ Enqueue(r, <<c, "budget">>)
     ELSE /\ call' = [call EXCEPT ![c] = [@ EXCEPT !.at = "pre", !.rep = r]]
          /\ UNCHANGED audit
  /\ UNCHANGED <<bound, job, db, trail, plugins, cache, meter, vendor, seen>>

BudgetUnread(c, r) ==
  /\ call[c].at = "new"
  /\ Upset
  /\ call' = [call EXCEPT ![c] = [@ EXCEPT !.at = "pre", !.rep = r]]
  /\ UNCHANGED <<bound, job, books, plugins, cache, vendor>>

(* The hooks of a junction are those enabled when the call comes to it; the      *)
(* approval gate holds the tools of its list, other hooks look at every call     *)
Asks(c) == hook.listed => job[c].held
Junction(c, point, asking, next) ==
  LET here == hook.point = point
      k == call[c]
      asks == here /\ Hooked(k.rep) /\ Asks(c)
  IN call' = [call EXCEPT ![c] = [k EXCEPT !.at = IF asks THEN asking ELSE next,
                                          !.due = IF here THEN Owed(k.rep) ELSE k.due,
                                          !.asked = IF asks THEN "asked" ELSE k.asked]]

ApplyPre(c) ==
  /\ call[c].at = "pre"
  /\ Junction(c, "onToolCall", "hook", "token")
  /\ UNCHANGED <<bound, job, books, plugins, cache, vendor, seen>>

ApplyPost(c) ==
  /\ call[c].at = "post"
  /\ Junction(c, "onToolResult", "filter", "reply")
  /\ UNCHANGED <<bound, job, books, plugins, cache, vendor, seen>>

(* The hook lets the call pass, or denies it: then no record of a tool call is   *)
(* left.  User code may throw, and a hook that throws is skipped.                *)
HookAnswers(c) ==
  /\ call[c].at = "hook"
  /\ \/ call' = [call EXCEPT ![c] = [@ EXCEPT !.at = "token", !.asked = "allowed"]]
     \/ /\ hook.denies
        /\ call' = [call EXCEPT ![c] = [@ EXCEPT !.at = "done", !.asked = "denied", !.result = "denied"]]
     \/ /\ ~hook.native
        /\ call' = [call EXCEPT ![c] = [@ EXCEPT !.at = "token", !.asked = "threw"]]
  /\ UNCHANGED <<bound, job, books, plugins, cache, vendor, seen>>

(* A hook of results rewrites them or throws and is skipped; it cannot deny *)
FilterAnswers(c) ==
  /\ call[c].at = "filter"
  /\ \/ call' = [call EXCEPT ![c] = [@ EXCEPT !.at = "reply", !.asked = "allowed"]]
     \/ /\ ~hook.native
        /\ call' = [call EXCEPT ![c] = [@ EXCEPT !.at = "reply", !.asked = "threw"]]
  /\ UNCHANGED <<bound, job, books, plugins, cache, vendor, seen>>

-------------------------------------------------------------------------------
(* The connector *)

Request(c) == job[c].plan[call[c].i]
Cached(c) == cache[call[c].rep]

(* getToken: the cached token, or a new one that is cached for every call *)
GetToken(c) ==
  /\ call[c].at = "token" /\ Request(c) \notin {Check, Refusal}
  /\ LET fresh == job[c].cached /\ Cached(c) = NoToken
         token == IF fresh THEN vendor.valid ELSE Cached(c)
     IN /\ call' = [call EXCEPT ![c] = [@ EXCEPT !.at = "send", !.token = token]]
        /\ cache' = IF fresh THEN [cache EXCEPT ![call[c].rep] = vendor.valid] ELSE cache
  /\ UNCHANGED <<bound, job, books, plugins, vendor, seen>>

(* The forced getToken before a second attempt *)
RefreshToken(c) ==
  /\ call[c].at = "force"
  /\ cache' = [cache EXCEPT ![call[c].rep] = vendor.valid]
  /\ call' = [call EXCEPT ![c] = [@ EXCEPT !.at = "token",
                                           !.retried = (job[c].retries = "once")]]
  /\ UNCHANGED <<bound, job, books, plugins, vendor, seen>>

(* A tool that is not configured, or misses an argument, refuses before it asks  *)
(* the vendor anything                                                           *)
Fresh(c) == call[c].at = "token" /\ call[c].i = 1 /\ ~call[c].sent

(* The step after request i: an else-read follows only a read noted as failed *)
NextRequest(c, noted) ==
  LET plan == job[c].plan
      later == {j \in DOMAIN plan : j > call[c].i /\ (plan[j] = ElseRead => noted)}
  IN IF later = {} THEN Len(plan) + 1 ELSE CHOOSE j \in later : \A k \in later : j <= k

(* Goes on with the next request, or ends: a tool whose "some" requests all      *)
(* failed answers an error; of a call that has timed out nobody hears            *)
GoesOn(c, k, noted) ==
  LET next == NextRequest(c, noted)
      ends == next > Len(job[c].plan)
      allFailed == k.some = 0 /\ \E j \in DOMAIN job[c].plan : job[c].plan[j] \in {SomeRead, SomeWrite}
  IN [k EXCEPT !.at = IF ~ends THEN "token" ELSE IF k.late THEN "done" ELSE "post",
               !.i = next, !.retried = FALSE, !.sent = FALSE, !.noted = noted,
               !.result = IF ~ends \/ k.late THEN @ ELSE IF allFailed THEN "error" ELSE "ok"]

(* A tool that fails answers an error; a remote server's client may throw        *)
EndsInError(k) ==
  IF k.late THEN [k EXCEPT !.at = "done"] ELSE [k EXCEPT !.at = "post", !.result = "error"]
Throws(k) == IF k.late THEN [k EXCEPT !.at = "done"] ELSE [k EXCEPT !.at = "fail"]

RefuseInput(c) ==
  /\ Fresh(c) /\ ~job[c].throws
  /\ call' = [call EXCEPT ![c] = EndsInError(@)]
  /\ UNCHANGED <<bound, job, books, plugins, cache, vendor, seen>>

(* A check of the tool's own, and a read whose answer is at hand *)
CheckInput(c) ==
  /\ call[c].at = "token" /\ Request(c) \in {Check, Refusal}
  /\ \/ Request(c) = Check /\ call' = [call EXCEPT ![c] = GoesOn(c, @, FALSE)]
     \/ call' = [call EXCEPT ![c] = EndsInError(@)]
  /\ UNCHANGED <<bound, job, books, plugins, cache, vendor, seen>>

UseKept(c) ==
  /\ call[c].at = "token" /\ Request(c) = KeptRead
  /\ call' = [call EXCEPT ![c] = GoesOn(c, @, FALSE)]
  /\ UNCHANGED <<bound, job, books, plugins, cache, vendor, seen>>

(* What a failure of the request may do to the call; refused: by the vendor *)
Survives(c, refused) == \/ Request(c) \in {OptRead, SomeRead, SomeWrite}
                        \/ Request(c) = FirstRead /\ refused
Failed(c, k, refused) ==
  IF Survives(c, refused) THEN {GoesOn(c, k, TRUE)}
  ELSE (IF job[c].throws THEN {Throws(k)} ELSE {})
         \cup (IF refused \/ ~job[c].throws THEN {EndsInError(k)} ELSE {})

Unauthorized(c) == job[c].cached /\ (vendor.refuses \/ call[c].token < vendor.valid)
MayRetry(c) == \/ job[c].retries = "always"
               \/ job[c].retries = "once" /\ ~call[c].retried

Sent(c) == [call[c] EXCEPT !.sent = TRUE]
Applied(c, k) == IF Request(c) \in Writing THEN [k EXCEPT !.applied[call[c].i] = @ + 1] ELSE k
Becomes(c, outcomes) == \E k \in outcomes : call' = [call EXCEPT ![c] = k]

(* The vendor answers 401, does what it was asked, or refuses it *)
Send(c) ==
  /\ call[c].at = "send"
  /\ LET k == Sent(c) IN
     IF Unauthorized(c)
     THEN Becomes(c, IF MayRetry(c) THEN {[k EXCEPT !.at = "force"]} ELSE Failed(c, k, TRUE))
     ELSE \/ Becomes(c, {GoesOn(c, [Applied(c, k) EXCEPT !.some =
                              IF Request(c) \in {SomeRead, SomeWrite} THEN @ + 1 ELSE @], FALSE)})
          \/ Becomes(c, Failed(c, k, TRUE))
  /\ UNCHANGED <<bound, job, books, plugins, cache, vendor, seen>>

(* The request or its answer is lost: the connector cannot tell which, and never *)
(* sends it again                                                                *)
ResentAfterLoss(c, k) == {[k EXCEPT !.at = "token"]}
AfterLoss(c, k) == Failed(c, k, FALSE)
Lose(c) ==
  /\ call[c].at = "send" /\ ~Unauthorized(c)
  /\ Upset
  /\ Becomes(c, AfterLoss(c, Sent(c)) \cup AfterLoss(c, Applied(c, Sent(c))))
  /\ UNCHANGED <<bound, job, books, plugins, cache, vendor>>

-------------------------------------------------------------------------------
(* The end of a call *)

(* The result is returned and, without waiting, metered and recorded; an error   *)
(* result of a connector counts as a call like any other                         *)
Reply(c) ==
  /\ call[c].at = "reply"
  /\ Goes(c, "done")
  /\ meter' = [meter EXCEPT ![c] = "select"]
  /\ Enqueue(call[c].rep, <<c, "success">>)
  /\ UNCHANGED <<bound, job, db, trail, plugins, cache, vendor, seen>>

(* What is thrown is recorded as a failure, and not metered *)
Fail(c) ==
  /\ call[c].at = "fail"
  /\ call' = [call EXCEPT ![c] = [@ EXCEPT !.at = "done", !.result = "threw"]]
  /\ Enqueue(call[c].rep, <<c, "failure">>)
  /\ UNCHANGED <<bound, job, db, trail, meter, plugins, cache, vendor, seen>>

(* The connection has gone since; or the plugin behind the server is not at hand, *)
(* or its instance's configuration cannot be read                                *)
Unreachable(c) ==
  /\ Fresh(c) /\ ~call[c].late /\ job[c].throws
  /\ Upset
  /\ Goes(c, "fail")
  /\ UNCHANGED <<bound, job, books, plugins, cache, vendor>>

PluginMissing(c) ==
  /\ Fresh(c) /\ ~call[c].late /\ ~job[c].throws
  /\ Upset
  /\ Goes(c, "fail")
  /\ UNCHANGED <<bound, job, books, plugins, cache, vendor>>

(* The answer takes too long: the caller hears of a failure, and the connector   *)
(* goes on with the requests of its plan                                         *)
TimeOut(c) ==
  /\ call[c].at \in {"token", "send", "force"} /\ ~call[c].late
  /\ Upset
  /\ call' = [call EXCEPT ![c] = [@ EXCEPT !.late = TRUE, !.result = "threw"]]
  /\ Enqueue(call[c].rep, <<c, "failure">>)
  /\ UNCHANGED <<bound, job, db, trail, meter, plugins, cache, vendor>>

-------------------------------------------------------------------------------
(* The vendor *)

Revoke ==
  /\ seen.revoked < bound.revocations
  /\ seen' = [seen EXCEPT !.revoked = @ + 1]
  /\ \/ vendor' = [vendor EXCEPT !.valid = @ + 1]
     \/ ~vendor.refuses /\ vendor' = [vendor EXCEPT !.refuses = TRUE]
  /\ UNCHANGED <<bound, job, books, plugins, cache, call>>

-------------------------------------------------------------------------------
(* Administrators *)

First(kind) == CASE kind = "pipeline"  -> "delete"
                 [] kind = "switch"    -> "update"
                 [] kind = "configure" -> "configure"
                 [] kind = "import"    -> "ingest"
                 [] kind = "remove"    -> "drop"
                 [] kind = "scan"      -> "seed"
Wants(kind, to) == CASE kind = "pipeline" -> [seen.want EXCEPT !.step = @ /\ to]
                     [] kind = "switch"   -> [seen.want EXCEPT !.on = @ /\ to]
                     [] kind = "remove"   -> [seen.want EXCEPT !.step = FALSE, !.on = FALSE]
                     [] OTHER             -> seen.want

(* A chain may name only plugins whose module is at hand, and only such a plugin *)
(* is switched on; a plugin that is not on record is neither switched nor        *)
(* configured; a built-in one is neither imported nor removed                    *)
StartEdit(e, r, kind, to) ==
  /\ edit[e].at = "idle"
  /\ seen.edits < bound.edits
  /\ kind \in {"pipeline", "switch"} /\ to => AtHand(r)
  /\ kind \notin {"pipeline", "switch"} => ~to
  /\ kind \in {"switch", "configure"} => mem[r].row
  /\ kind \in {"import", "remove"} => ~hook.native
  /\ edit' = [edit EXCEPT ![e] = [at |-> First(kind), rep |-> r, kind |-> kind, to |-> to]]
  /\ seen' = [seen EXCEPT !.edits = @ + 1, !.editor = @ \cap {r}, !.want = Wants(kind, to),
                          !.overlap = @ \/ \E f \in Editors \ {e} : edit[f].at # "idle"]
  /\ UNCHANGED <<bound, job, hook, books, mem, cache, call, vendor>>

EditAt(e, at) == edit[e].at = at
EditTo(e, at) == edit' = [edit EXCEPT ![e].at = at]
Settled == [step |-> db.step, on |-> db.on]

(* replaceHook: the chain's rows are deleted and inserted again *)
DeleteSteps(e) ==
  /\ EditAt(e, "delete")
  /\ db' = [db EXCEPT !.step = FALSE]
  /\ EditTo(e, IF edit[e].to THEN "insert" ELSE "load")
  /\ UNCHANGED <<bound, job, hook, trail, audit, meter, mem, cache, call, vendor, seen>>

InsertSteps(e) ==
  /\ EditAt(e, "insert")
  /\ db' = [db EXCEPT !.step = TRUE]
  /\ EditTo(e, "load")
  /\ UNCHANGED <<bound, job, hook, trail, audit, meter, mem, cache, call, vendor, seen>>

SwitchPlugin(e) ==
  /\ EditAt(e, "update")
  /\ db' = [db EXCEPT !.on = edit[e].to /\ db.row]
  /\ EditTo(e, "records")
  /\ UNCHANGED <<bound, job, hook, trail, audit, meter, mem, cache, call, vendor, seen>>

(* The configuration is stored, its secrets encrypted; nothing else of the row is *)
Configure(e) ==
  /\ EditAt(e, "configure")
  /\ EditTo(e, "records")
  /\ UNCHANGED <<bound, job, hook, books, mem, cache, call, vendor, seen>>

(* ingest: a new plugin is stored disabled, a known one keeps its switch *)
Ingested == [db EXCEPT !.row = TRUE]

(* The same module is imported again, or one that fails to load and is refused *)
Import(e) ==
  /\ EditAt(e, "ingest")
  /\ \/ db' = Ingested /\ EditTo(e, "seed")
     \/ UNCHANGED db /\ edit' = [edit EXCEPT ![e] = NoEdit]
  /\ UNCHANGED <<bound, job, hook, trail, audit, meter, mem, cache, call, vendor, seen>>

(* A plugin is removed row first, then its steps, and a scan follows *)
DropPlugin(e) ==
  /\ EditAt(e, "drop")
  /\ db' = [db EXCEPT !.row = FALSE, !.on = FALSE]
  /\ EditTo(e, "dropSteps")
  /\ UNCHANGED <<bound, job, hook, trail, audit, meter, mem, cache, call, vendor, seen>>

DropSteps(e) ==
  /\ EditAt(e, "dropSteps")
  /\ db' = [db EXCEPT !.step = FALSE]
  /\ EditTo(e, "seed")
  /\ UNCHANGED <<bound, job, hook, trail, audit, meter, mem, cache, call, vendor, seen>>

(* scan first stores what it finds: the built-in plugins, which are there, and   *)
(* the files of the replica's inbox, which may hold one that was removed         *)
Seeded == IF hook.native THEN {db} ELSE {db, Ingested}
Seed(e) ==
  /\ EditAt(e, "seed")
  /\ db' \in Seeded
  /\ EditTo(e, "clear")
  /\ UNCHANGED <<bound, job, hook, trail, audit, meter, mem, cache, call, vendor, seen>>

(* then it forgets every loaded module and loads them again one by one *)
ClearLoaded(e) ==
  /\ EditAt(e, "clear")
  /\ mem' = [mem EXCEPT ![edit[e].rep].loaded = FALSE]
  /\ EditTo(e, "modules")
  /\ UNCHANGED <<bound, job, hook, books, cache, call, vendor, seen>>

LoadModules(e) ==
  /\ EditAt(e, "modules")
  /\ mem' = [mem EXCEPT ![edit[e].rep].loaded = db.row]
  /\ EditTo(e, "records")
  /\ UNCHANGED <<bound, job, hook, books, cache, call, vendor, seen>>

RefreshRecords(e) ==
  /\ EditAt(e, "records")
  /\ mem' = [mem EXCEPT ![edit[e].rep].row = db.row, ![edit[e].rep].on = db.on]
  /\ EditTo(e, "load")
  /\ UNCHANGED <<bound, job, hook, books, cache, call, vendor, seen>>

(* A saved chain re-reads the steps, a switch the plugins' rows too, and only a   *)
(* scan loads modules again, which a hook in the code does without               *)
RereadsAll(kind) == kind \in Rescans \/ (hook.native /\ kind # "pipeline")
LoadPipeline(e) ==
  /\ EditAt(e, "load")
  /\ mem' = [mem EXCEPT ![edit[e].rep].step = db.step]
  /\ edit' = [edit EXCEPT ![e] = NoEdit]
  /\ seen' = [seen EXCEPT !.editor = IF RereadsAll(edit[e].kind) THEN {edit[e].rep} ELSE @,
                          !.want = IF \E f \in Editors \ {e} : edit[f].at # "idle" THEN @ ELSE Settled]
  /\ UNCHANGED <<bound, job, hook, books, cache, call, vendor>>

(* A statement of the edit fails: what was done stays done *)
EditFails(e) ==
  /\ edit[e].at # "idle"
  /\ seen.upsets < bound.upsets
  /\ seen' = [seen EXCEPT !.upsets = @ + 1, !.torn = TRUE]
  /\ edit' = [edit EXCEPT ![e] = NoEdit]
  /\ UNCHANGED <<bound, job, hook, books, mem, cache, call, vendor>>

(* A replica dies and starts again: calls, edits, meterings and records waiting  *)
(* are gone, memory is read from the database and the chain goes on from its tail*)
Restart(r) ==
  /\ seen.upsets < bound.upsets
  /\ seen' = [seen EXCEPT !.upsets = @ + 1, !.torn = @ \/ \E e \in Editors : edit[e].rep = r,
                          !.editor = IF \A e \in Editors : edit[e].at = "idle" THEN @ \cup {r} ELSE @]
  /\ call' = [c \in Calls |-> IF call[c].rep = r /\ call[c].at # "new" THEN [call[c] EXCEPT !.at = "gone"] ELSE call[c]]
  /\ meter' = [c \in Calls |-> IF call[c].rep = r THEN "none" ELSE meter[c]]
  /\ edit' = [e \in Editors |-> IF edit[e].rep = r THEN NoEdit ELSE edit[e]]
  /\ db' \in Seeded
  /\ mem' = [mem EXCEPT ![r] = [row |-> db'.row, step |-> db.step, on |-> db.on, loaded |-> db'.row]]
  /\ cache' = [cache EXCEPT ![r] = NoToken]
  /\ audit' = [audit EXCEPT ![r] = [last |-> IF trail = <<>> THEN Genesis ELSE trail[Len(trail)].id,
                                    queue |-> <<>>]]
  /\ UNCHANGED <<bound, job, hook, trail, vendor>>

-------------------------------------------------------------------------------
CallSteps(c) ==
  \/ \E r \in Replicas : CannotConnect(c, r) \/ Arrive(c, r) \/ BudgetUnread(c, r)
  \/ ApplyPre(c) \/ HookAnswers(c) \/ ApplyPost(c) \/ FilterAnswers(c)
  \/ GetToken(c) \/ RefreshToken(c) \/ Send(c) \/ Lose(c)
  \/ RefuseInput(c) \/ CheckInput(c) \/ UseKept(c)
  \/ PluginMissing(c) \/ Unreachable(c) \/ TimeOut(c) \/ Fail(c) \/ Reply(c)
  \/ MeterSelect(c) \/ MeterInsert(c) \/ MeterUpdate(c) \/ MeterFault(c)

EditSteps(e) ==
  \/ \E r \in Replicas, kind \in {"pipeline", "switch", "configure"} \cup Rescans, to \in BOOLEAN :
       StartEdit(e, r, kind, to)
  \/ DeleteSteps(e) \/ InsertSteps(e) \/ SwitchPlugin(e) \/ ClearLoaded(e)
  \/ Configure(e) \/ Import(e) \/ DropPlugin(e) \/ DropSteps(e) \/ Seed(e)
  \/ LoadModules(e) \/ RefreshRecords(e) \/ LoadPipeline(e) \/ EditFails(e)

Next ==
  \/ \E c \in bound.calls : CallSteps(c)
  \/ \E e \in Editors : EditSteps(e)
  \/ \E r \in Replicas : AppendRecord(r) \/ AppendFails(r) \/ Restart(r)
  \/ Revoke

Spec == Init /\ [][Next]_vars

-------------------------------------------------------------------------------
(* Properties *)

Plan(c) == job[c].plan
Needed(c) == {n \in DOMAIN Plan(c) : Plan(c)[n] = Write}

(* A call writes what its plan asks at most once, whatever is revoked, lost or   *)
(* retried, and an answer of success means that every write the tool needs was   *)
(* done: the 401 retries of the connectors and the failures tools survive.       *)
WritesAsReported ==
  \A c \in bound.calls :
    /\ \A n \in 1..LongestPlan : call[c].applied[n] <= 1
    /\ call[c].result = "ok" => /\ \A n \in Needed(c) : call[c].applied[n] = 1
                                /\ (\E n \in DOMAIN Plan(c) : Plan(c)[n] = SomeWrite)
                                     => \E n \in 1..LongestPlan : call[c].applied[n] = 1

Reached(c) == call[c].sent \/ call[c].i > 1

(* The call is past the junction of the hook *)
Passed(c) == IF hook.point = "onToolCall" THEN Reached(c)
             ELSE call[c].at = "done" /\ call[c].result \in {"ok", "error"}

(* While a hook is in the pipeline and stays there, no call reaches the vendor   *)
(* past a hook of calls that did not let it, and no answer is given past a hook  *)
(* of results, also in the middle of saving the chain again or rescanning.  The  *)
(* approval gate sees to the writing tools of connectors that document what to   *)
(* hold.  Each exception (user code that is being reloaded, a replica that has   *)
(* not read an edit, overlapping edits, faults) is in Owed; and user code that   *)
(* throws is skipped.                                                            *)
GateNotBypassed ==
  \A c \in bound.calls :
    (/\ call[c].due /\ Passed(c)
     /\ hook.listed => job[c].documented /\ Writes(Plan(c)))
      => call[c].asked \in (IF hook.native THEN {"allowed"} ELSE {"allowed", "threw"})

(* With one replica writing, the audit trail verifies, over any calls and        *)
(* restarts, unless the answer to an append that was applied is lost.            *)
TrailVerifies == (Cardinality(seen.writers) <= 1 /\ ~seen.unacked) => Verifies

(* When all is quiet the counter holds every call that was answered and the      *)
(* trail one record of it, unless something failed: metering and recording are   *)
(* not waited for, and the first two calls of a day race to insert the counter.  *)
Answered == {c \in bound.calls : call[c].at = "done" /\ call[c].result \in {"ok", "error"}}
BooksBalance ==
  (Quiet /\ seen.upsets = 0) =>
    /\ Cardinality(Answered) = IF db.used = NoRow THEN 0 ELSE db.used
    /\ \A c \in Answered : Cardinality({n \in DOMAIN trail : trail[n].id = <<c, "success">>}) = 1

=============================================================================
