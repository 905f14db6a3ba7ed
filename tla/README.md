# Kravn gateway: a TLA+ verification project

Kravn is a self-hosted MCP gateway: tools of many upstream MCP servers behind one
authenticated, audited endpoint, with a chat, schedules, A2A agents and an operator
console. The gateway (`src/apps/gateway/src/`, TypeScript, Fastify, 25 000 lines) runs as
any number of identical replicas over one SQL database (PostgreSQL, MySQL or SQLite through
Knex, every statement committing by itself) and, optionally, one Redis. There is no lock
service, almost no transaction and no test suite: what keeps replicas from treading on each
other is conditional statements, primary keys, promise chains inside one process and claims
in the shared store. That is what this project is about.

Paths below are relative to `src/apps/gateway/src/` unless they start with `src/`.

- [1. The system](#1-the-system)
- [2. Modules and how they follow the code](#2-modules-and-how-they-follow-the-code)
- [3. What the runs check](#3-what-the-runs-check)
- [4. Fairness](#4-fairness)
- [5. What is proved](#5-what-is-proved)
- [6. What the code does not keep](#6-what-the-code-does-not-keep)
- [7. What is not modelled](#7-what-is-not-modelled)
- [8. What could come next](#8-what-could-come-next)
- [9. Running](#9-running)

## 1. The system

### Components, their state, and what makes them correct

**Start-up, migrations and keys** (`main.ts`, `services.ts`, `db/migrations.ts`,
`crypto/kms/key-manager.ts`, `crypto.ts`). State: the schema and its lock row, `app_keyring`,
the data key (DEK) in each process, the ciphertexts. Operations: a replica migrates under Knex'
lock, then resolves its keys under the bootstrap secret or a KMS, then serves. Hard: releases
rolled out one replica at a time, a migration that dies in the middle on a database whose DDL
commits by itself, two replicas that provision the one keyring row at once. Correct when whoever
serves finds its schema, all replicas under a KMS hold one key and no stored secret becomes unreadable.

**Ways in: sessions, passwords, single sign-on** (`auth/plugin.ts`, `routes/auth.routes.ts`,
`auth/rate-limit.ts`, `auth/sso.service.ts`, `cluster/shared-store.ts`). State: session rows, the
denylist, counters and single-use values in Redis or, behind a circuit breaker, in each replica's
memory. Hard: Redis comes and goes between two awaits, a command that timed out may have been
applied, most writes swallow their error. Correct when failed attempts stay bounded, one login
gives one session, and what was signed out stays out.

**Accounts and the Platform Administrator Team** (`routes/users.routes.ts`,
`routes/teams.routes.ts`, `routes/scim.routes.ts`, `auth/sso.service.ts`,
`auth/auth.service.ts`). State: `users`, team membership, one promise-chain lock per process.
Operations: console edits and deletions behind the lock; set-up, SSO logins and SCIM outside
it. Hard: count-then-write, stale reads by the writers outside the lock. Correct when an
administrator always remains and administrators can enter the console.

**Teams, grants and endpoints** (`mcp/endpoint-access.ts`, `routes/teams.routes.ts`,
`routes/registry.routes.ts`, `routes/mcp.routes.ts`). State: the endpoints' rows with
`allowed_teams`, the rows of `team_server_tools` that narrow a team to some tools (none: all),
membership. Hard: two levels read and written one statement after the other, one of them an array
written back as a whole. Correct when a caller is served what the finished edits grant his teams.

**OAuth 2.1 authorization server** (`auth/oauth.service.ts`). State: clients, pending
authorizations, codes, refresh tokens. Operations: register, authorize, approve or deny,
exchange, rotate, revoke with the account, collect garbage. Hard: two redemptions of one
code or token; failures and deletions between claim and issue. Correct when what one consent's
code is worth has one bearer and a deleted account gets nothing.

**MCP registry, upstream connections and tool pinning** (`mcp/registry.service.ts`,
`mcp/upstream.ts`). State: `servers`, `tools`, `tool_fingerprints`; per process the
connections and a chain of syncs. Operations: connect and synchronise, invoke (which may
connect first), approve a changed definition, enable, disable, delete. Hard: a sync is a
DELETE and many INSERTs without a transaction; fingerprints are read before the listing;
everything on the way fails open or fails silently. Correct when a changed definition is not
advertised before approval, syncs take turns and none is left behind.

**OAuth client for upstream servers** (`auth/upstream-oauth.service.ts`). State: per server one row
with client and tokens, and pending authorizations. Hard: refresh tokens that rotate and are
refreshed from any replica, redirects loaded twice. Correct when a code is spent once, where it
was issued, and the stored refresh token is one the provider accepts.

**A tool call: connectors, hooks, books** (`mcp/registry.service.ts`, `plugins/`, `usage/`,
`audit/`). State: the pipeline in the database and in each process, cached vendor tokens, the usage
counter, the hash-chained trail. Hard: administrators save, import, remove and rescan while calls
pass; vendors revoke tokens in the middle of a tool; metering and auditing are not waited for.
Correct when a write is made once and reported as it happened, a hook in the pipeline is not
missed, the trail verifies and the books balance.

**Human approval gate** (`approvals/approval.service.ts`, `plugins/approval-hook.ts`).
State: rows of `tool_approvals` and, per process, a map of waiters. Operations: a hook that
holds a matching tool call (insert a pending row, poll it until a deadline, expire it),
`decide` by an operator, who may not approve his own call. Hard: decider,
decider and deadline on different replicas resolve one row; the row is read and used with
awaits between; a wake-up that finds no waiter. Correct when only a call approved by somebody
else runs, the caller is told the stored verdict, and nobody is held for ever.

**Inbound A2A tasks** (`a2a/a2a.service.ts`). State: `a2a_tasks`, push configurations.
Operations: message/send and message/stream (a run through a chat turn), tasks/cancel,
tasks/resubscribe (a poll), push delivery. Hard: unconditional updates of the state by the
run and by cancellations, lost acknowledgements, streams that start at the moment a task
ends. Correct when a result is written once, a cancellation sticks, subscribers and webhooks
learn the final state.

**Scheduled tasks** (`schedules/scheduler.service.ts`, the schedule routes in
`routes/chat.routes.ts`). State: `chat_schedules`, claims counted in Redis or, while Redis does not
answer a replica, in its memory, and the breaker between the two. Operations: a tick per replica (read
what is due, claim, advance, run, finish), edits by the owner. Hard: every replica sees the same due list,
which grows stale while it is worked through; claims expire, or are counted in two places; edits race with
ticks. Correct when, as long as Redis answers, a fire is executed once, and what is due is executed anyhow.

**Chat** (`chat/chat.service.ts`, `routes/chat.routes.ts`, the page
`src/apps/client/src/views/ChatView.vue`). State: conversations, messages, attachments; on the page
the open conversation, its URL, the turn being sent, what waits in the composer. Hard: answers of
overlapping requests in any order, a stream that drops anywhere, a prompt trimmed between tool
rounds. Correct when conversations never mix, the provider accepts the prompt and a user who stays
is answered or told.

**The rest**: settings, the code interpreter, SSRF guard, rendering, events, metrics, the operator's
console, a web site, contracts and charts. `PROJECT.json` lists each with its status and the reason.

### How they interact

A tool call enters through an endpoint, the chat, an A2A run or a schedule, and ends in
`RegistryService.invokeTool`. That connects when it must (and so may synchronise, and may need a token
of the OAuth client), runs the hooks of `plugins/manager.ts` - the approval gate is one of them -
calls the upstream, and records usage and an audit entry. The components share rows, not messages: an
account deleted by `routes/users.routes.ts` is seen by the token endpoint at its next SELECT; a grant
changed in the console by a chat turn when it resolves its tools; secrets are under the key of
`crypto.ts`; the scheduler, the limiter and SSO use the shared store. Across replicas nothing is called
back: the other side polls, or does not learn of it.

The compositions that are modelled: `Boot` (migrations, then keys), `Login` (shared store under limiter,
single sign-on and sessions), `Delegation` (an A2A task whose chat turn asks the grants again), `ToolCall`
(connectors, hooks, budget, audit), `ChatView` (the page over the gateway's turn).

## 2. Modules and how they follow the code

Every `await` of a statement or a remote call is a step of its own; what the code does between
two awaits is one atomic step, because a Node process runs it without interruption and each
statement commits by itself. Awaits whose order nobody can observe are one step: a read of rows that
nothing else writes meanwhile, or several such reads. A failed statement is a step of its own kind, in the
places where the code has something to do about it; where a statement may have been applied
although it failed, both outcomes are taken. A crash or restart forgets everything a process
holds in memory.

| module | code | what it is |
|---|---|---|
| `Deployment` | | the replicas that `Migrations` and `KeyManager` share |
| `Repositories` | `db/repos.ts`, `db/migrations.ts` | the columns each table has, and those each repository's statements name |
| `Migrations` | `db/migrations.ts` | every migration statement by statement, Knex' lock, releases, dialects |
| `KeyManager` | `crypto/kms/key-manager.ts`, `crypto.ts`, `KeyringRepo` | boots, the keyring race, secrets |
| `Boot` | `main.ts`, `services.ts` | composes the two: a start from the first migration to serving |
| `SharedStore` | `cluster/shared-store.ts` | counters and single-use values, the breaker, the fallback |
| `Sessions` | `auth/plugin.ts`, `routes/auth.routes.ts` | tokens of one account, their rows, the denylist |
| `Login` | `routes/auth.routes.ts`, `auth/rate-limit.ts`, `auth/sso.service.ts` | composes the two: passwords, OIDC, handoff |
| `AdminAccounts` | users, teams, SCIM routes, `auth/` | the lock, the counts, and the writers outside the lock |
| `EndpointAccess` | `mcp/endpoint-access.ts`, teams, registry and MCP routes, `TeamsRepo` | grants in two levels, their edits, their readers |
| `OAuthServer` | `auth/oauth.service.ts`, `OAuthRepo` | consent, codes, rotation, deletion, the client cap |
| `Registry` | `mcp/registry.service.ts`, `mcp/upstream.ts`, three repos | connections, chained syncs, pinning, edits |
| `UpstreamOAuth` | `auth/upstream-oauth.service.ts` | authorizations, redirects, refreshes over one server's row |
| `Connectors` | `plugins/*.ts`, `mcp/a2a-client.ts` | every tool's plan of vendor requests, as constants |
| `HookPlugins` | `plugins/native-hooks.ts`, `plugins/manager.ts` | at which junctions each hook looks and may deny, as constants |
| `ToolCall` | `mcp/registry.service.ts`, `plugins/manager.ts`, `usage/`, `audit/` | a call through budget, hooks, plan and books, and the edits beside it |
| `ToolApproval` | `approvals/`, `plugins/approval-hook.ts`, `ToolApprovalsRepo` | hooks, deciders, deadlines on several replicas |
| `MakerChecker` | | the abstract promise of the gate: submit, resolve once by another, expire, release |
| `SingleUse` | | the abstract promise of codes and tokens: give out, redeem, pass on, lose |
| `A2ATask` | `a2a/a2a.service.ts`, `A2aTasksRepo` | runs, cancellations, resubscribed streams, pushes |
| `Delegation` | `a2a/a2a.service.ts` | composes `A2ATask` with `EndpointAccess` |
| `Scheduler` | `schedules/`, `cluster/shared-store.ts`, `SchedulesRepo`, schedule routes | ticks, claims in Redis or in memory, executions, edits, a clock |
| `ChatTurn` | `chat/chat.service.ts`, chat routes | a turn from the POST to its last event |
| `ChatView` | `src/apps/client/src/views/ChatView.vue` | the page over `ChatTurn`, its overlapping requests |

`MCx` instantiates `x` for TLC (definitions of constants, scenarios, symmetry); `MCA2ATask` instantiates
`Delegation`. The theorems are in modules of their own:

| proofs | about |
|---|---|
| `RemoteTools_proof` | `ToolApproval` with its refinement of `MakerChecker`, `UpstreamOAuth` |
| `Credentials_proof` | `Boot` with `Migrations` and `KeyManager`, `OAuthServer` with its refinement of `SingleUse` |
| `Login_proof` | `Login`, with `Sessions` and `SharedStore` |
| `AdminAccounts_proof` | `AdminAccounts` |
| `Delegation_proof` | `Delegation`, with `A2ATask` and `EndpointAccess` |
| `Registry_proof` | `Registry` |
| `ToolCall_proof` | `ToolCall` |
| `Conversations_proof` | `Scheduler`, and `ChatView` with `ChatTurn` |

State corresponds as follows; `PROJECT.json` maps each definition to its lines.

- **Repositories.** `Columns` is the tables as the latest release has them; `createRepos` gives, for each
  table, the columns that the queries of its repository read or write.
- **Migrations, Boot.** A table is the set of columns migrations add to it later. What a release `Needs` of
  one is what its repository names and the release has migrated; that a repository names no column which no
  migration makes is an assumption TLC evaluates (`ColumnsExist`). Of the rows only
  `pipeline_steps` matter, which a migration copies. `db` is what the migrating replica sees, `saved` what
  a rollback brings back; on an `autocommit` dialect the two become one at the first DDL. `left[r]` are the
  statements of the migration under way. A release is the number of migrations it knows.
- **KeyManager.** A ciphertext is the key that made it, a wrapped key is its provider and the
  key; only that provider unwraps it. `config` is the deployment's provider, `env[r]` the one the
  process was started with, so a rolling change passes through mixed states.
- **SharedStore, Sessions, Login.** `shared` is Redis, `local[r]` the memory store, `open[r]` the breaker.
  A token is its jti; `row[j]` its session row, `denied` the denylist; `req[p]` a request between two
  awaits of `authenticate` and of its handler. `failures` and `logins` are history.
- **AdminAccounts.** `role`, `disabled`, `team` are rows; `lock[r]` is the promise chain of the
  process, holder first; `req` the locals of the requests, with what each has read.
- **EndpointAccess, Delegation.** `endpoint[e]`, `subset[t][e]`, `member` are rows; `use[c]` holds what a
  consumer has read so far and, at its end, the tools it is served and those it is due; `edit[a]` an
  administrator's request between two statements, with the rows it has read and writes back. `want` is
  history: what the edits that ended have granted.
- **OAuthServer.** `pending`, `code`, `token`, `clients` are rows, dead ones kept as `gone` so
  that nothing is reused; `req` is a request between two statements. Verifier, client and
  redirect URI of a request are right or wrong as one choice.
- **Registry.** One server, one tool. `server`, `status`, `tool`, `fp` are columns and rows;
  `conn[r]` and `chain[r]` what the process keeps in `conns` and `syncLocks`; `job` the locals of
  an operation, with the definition it has listed and the fingerprint it has loaded. `trusted`
  is history: what was ever a baseline; `loose` what came through without one.
- **UpstreamOAuth.** `row` and `pending` are rows; `start`, `cb`, `conn` the requests with the copy of the
  row each has read. A refresh token is known by its issuer, its client and the exchange it came from; a
  provider by what it does with refresh tokens (`Policies`).
- **ToolCall, Connectors, HookPlugins.** A tool is its plan: a sequence of reads and writes with what the
  failure of each does. A connector adds how its requests are authenticated and which tools its
  documentation advises to hold. `call[c]` is the call with its token, the request it is at and what the
  vendor has applied; `db` the rows of the hook's plugin, its step and the counter; `mem[r]` the manager's
  records, pipeline and modules; `trail` the table, `audit[r]` the promise chain before it.
- **ToolApproval.** `status`, `resolvedBy` are columns of `tool_approvals`; `pc`, `seen`,
  `overdue` the local variables of a hook; `dec` the requests that decide; `audit` the entries
  on the trail. A call is in the waiter map of its replica exactly while it is asleep. How a
  pattern matches is a constant of the call: by tool or server id, by the server's name (which
  needs its row), or not at all.
- **A2ATask.** `state`, `hook` are rows; `pc` the run; `can` and `sub` requests under way;
  `outbox` deliveries in flight and `received` what webhooks got.
- **Scheduler.** Time is a counter. `row` is `chat_schedules`, `claims` the counters
  `sched:<id>:<nextRunAt>` with their expiry and the store that keeps them (`via`), `tick[r]` the locals of a
  tick with the due list it read once. `open[r]` is the breaker; while it is open, and when the command fails
  or times out, applied or not, `r` counts in its memory. `life` numbers what a store has kept between two
  restarts. `fires` is history: what was executed, when it was claimed and which store had counted it.
- **ChatTurn, ChatView.** `stored` is `chat_messages`, a message known by its role and its turn; `turn[t]`
  the prompt under construction and where the turn is. On the page, `shown` is the first messages of a
  conversation and extra items, `gets` requests in flight or answered and not applied, `sending` the turn
  being sent and its stream, `pending` the files in the composer.

## 3. What the runs check

Every instance is the smallest in which the interesting interleavings meet: two of each actor
that can race, one resource they race for, and one failure or restart that may happen
anywhere. A second failure of the same kind mostly repeats a state already explored from another side;
where two kinds combine (a fault and a crash) both are allowed. Where different questions about one module
need different bounds, the initial states choose a *scenario* (`Budgets`, `Scenarios`, `Access`): each
behaviour is about one question, and TLC explores all of them in one run. Bounds are guards of failures,
edits, arrivals and the clock, never of what the code does once it has begun. Symmetry is used in runs
without liveness only, over values the properties do not tell apart. Deadlock is checked in the boot run;
elsewhere the system may come to rest (requests answered, bounds used up), so the configurations say
`CHECK_DEADLOCK FALSE`.

| run | instance | shows |
|---|---|---|
| `approval_gate` | 1 call matched through its server's slug, 2 deciders (its maker, another), 2 replicas, 1 fault, 1 crash | no race lets an unapproved call run, contradicts the row or changes a verdict; every step is one of `MakerChecker`; the verdict is on the trail; approved calls run, the queue drains |
| `a2a_task` | 1 task, 2 cancellations (owner, stranger), 1 stream, 1 fault, 1 crash; or 2 endpoints, 2 teams, 2 tools, 2 administrators beside a request, a chat or the task: two edits, or one that may stop halfway | a result is written once, a cancellation during the chat turn survives, the webhook gets the stored state, one final frame, tasks end; a caller is served what the finished edits grant |
| `boot` | 2 replicas of releases 33 and 36, both dialects, an empty, an old and a pre-migration database, 1 crash; a KMS adopted, 2 DEKs, 1 secret | who serves finds its schema, secrets stay readable, every start gets through |
| `login` | 2 replicas with a Redis that fails and recovers; passwords, OIDC, or sessions of one account with 3 tokens and 2 requests at a time | failed attempts are bounded, one login gives one session, what was signed out stays out |
| `chat` | 3 conversations (one born on the page), 1 turn of 2 rounds with 2 tool calls each, 1 trim, 1 tool file, 2 clicks or uploads, 1 fault | prompts are acceptable, attachments stay where they were uploaded, the page shows one chat, no question stays bare, the composer frees itself |
| `scheduler` | 2 replicas, a recurring and a one-off schedule due together, claims of 1, clock to 3, 1 edit, fault, crash or failure of Redis | executions of a fire that one store has counted are a claim's lifetime apart, one fire is one execution unless somebody was late or Redis failed, what is due is executed in any case |
| `admin_accounts` | 2 accounts (one designated by SSO), 2 requests, 1 replica, 1 fault, 1 restart | an administrator remains, administrators are on the team, the lock's queue moves |
| `admin_lockout` | the same | *violation*: section 6 |
| `oauth_server` | 1 account, 1 consent, 2 codes, 3 tokens, 2 requests, cap 1, 1 fault | every step is one of `SingleUse`, decisions final, nothing after deletion |
| `registry` | 2 replicas, 2 definitions, 2 operations, enforce, 1 change, 1 edit, 1 failure or restart | what is advertised was trusted, or let through by a failure or two replicas at once; syncs take turns and none is stuck; the status settles |
| `upstream_oauth` | 2 authorizations, 2 redirects, 2 connections, 2 issuers; three scenarios: alone over 2 expiries with providers of all four kinds; 1 failure; forms that name another issuer or app, and an edit | a code is presented once, where it was issued; the stored refresh token is accepted |
| `tool_call` | 3 calls, 2 replicas, 2 administrators, budget 2; six scenarios: one call of every job while the vendor revokes tokens; two that share a token; a call past the approval gate under 3 edits of 2 administrators; past every other kind of hook under 2; under 1 edit and an upset; three calls whose books race | writes at most once and as reported, no hook missed, the trail verifies, the books balance |

Why the sizes are enough: `admin_accounts` has one replica because the lock is promised for one process
(`routes/users.routes.ts:9`); with two, two administrators can demote each other. Two definitions are
enough for the registry: trusted and changed; two operations are enough for chains, as a third
would wait behind the second. In the OAuth run two codes can come of one consent and one chain
can rotate twice while a second request races each of its steps. Releases 33 and 36 lie on both sides of
the migrations that are not idempotent and that rebuild a table. For grants, one endpoint suffices for
two levels and the second is what a clone becomes; two teams tell the union of subsets from the one.
In the chat one turn suffices because nothing of a turn is shared with the next one but the stored thread,
which a first turn already precedes; the third conversation is the one that is not the sender's and not new.

Each property is violated by a mutant of the model that stands for a plausible slip in the code
(a dropped condition in an UPDATE, a lock that does not serialise, a check taken too early, rows that are
not cleared before they are inserted); `PROJECT.json` pairs them, and each mutant stands in its module
before the definition it changes.

What the less obvious properties leave out, on purpose:

- **`ServedAsGranted`** speaks of reads during which no edit wrote, after edits that did not overlap half
  written and did not stop halfway. Before that, see section 6: those behaviours really occur.
- **`GateNotBypassed`** owes a call the hook (`Owed`) while it is in the stored pipeline and enabled, unless
  it is user code that is being scanned, imported or removed, or throws; or the call's replica did not make
  every edit since it started or last read all there is to read; or edits overlap, or one stopped halfway.
- **`WritesAsReported`**: a call that timed out was answered an error, and its connector goes on and may
  still write; that is the code's promise, not a success reported wrongly.
- **`TrailVerifies`** is about one writing replica: two fork the chain, and so does an append that was
  applied and whose answer was lost.
- **`GrantKept`** holds for authorizations that ask for the same issuer and app and do not begin at once, and
  leaves out providers that revoke a grant when two refreshes overlap.
- **`AttemptsAreBounded`** counts the stores that count (Redis and each replica's memory) and, separately, the
  attempts looked up in one store and counted in another.
- **`NoBareQuestion`** is about a user who stays in the conversation; see section 6 for one who leaves and
  comes back. Notices may appear in another conversation's thread (same place).

## 4. Fairness

Fairness is per actor; nothing outside the gateway is obliged to do anything.

- `ToolApproval`: the continuations of a hook and its poll timer run while its replica lives, and
  time passes; a decision that has begun goes on. Nobody is obliged to decide: the deadline answers the caller.
- `Delegation`: the continuations of a run, its chat turn included, and the poll of a stream. The chat turn
  ends because model calls have time-outs and the tool loop is bounded (`chat/chat.service.ts`).
- `Scheduler`: the ticks of each replica, since `setInterval` keeps firing and every awaited call
  returns. Owners need not do anything.
- `AdminAccounts`: the next step of each request under way. The lock hands over first come, first
  served, which is in the model's sequence, not in its fairness.
- `Boot`: a start goes on; the migration lock is granted strongly fairly, because Knex retries until it gets
  it; and the operator releases the lock that a dead process left, without which nobody starts again.
- `ChatView`: turns go on, requests are answered, the page handles what it receives, and a dead process
  closes its streams. Users need not click.

The other modules state safety only. A crash takes a process's continuations with it: liveness
properties speak of actors that were not lost, and say so in their conclusion.

## 5. What is proved

TLAPS proves 57 theorems in eight modules, for every value of the constants that meets the named assumptions.
Mostly these say that "no row" is none of the rows and that bounds are natural numbers (`...Constants`,
`...Assumption`). The others: password attempts, tool calls and token requests are finitely many, as in any
run of the program so far; a connector's plan is one of the modelled kinds, and a tool that writes is one its
documentation advises to hold, and none survives the failure of reads and of writes (`ToolCallConstants`, true of
every tool of `Connectors`); a release is a number of migrations it knows, and release 007 does not serve on a
database whose DDL commits by itself (`MigrationConstants`, see Boot below); an endpoint that does not
exist has no grants (`AccessConstants`); turns are numbered from 1 (`ChatTurnAssumption`). `AdminAccounts` assumes one
replica for three theorems.

**ToolApproval.** `TypeCorrect`, `Invariance`, `ApprovalSafety`, `AnswerSafety`, `FinalVerdicts`,
`TrailKeepsUp`, and `Refinement`: the gate implements `MakerChecker`. `OnlyApprovedCallsRun` is not inductive: a hook acts on
what it *saw*. The invariant adds that a verdict seen is the verdict stored (`SeenInv`, true because
only pending rows are updated), that where the hook is, its row is (`ProgressInv`), and that a decision
under way has passed the separation of duties (`DecisionInv`). The refinement follows step by step: the
UPDATE of a decision is `Resolve`, of a time-out `Expire`, letting the call through is `Release`. For the
trail, a verdict in a row is always owed by the decision that stored it until that one has answered (`Owes`).

**UpstreamOAuth.** `CodeSpentAsIssued` and `GrantKept` from one invariant (`OAuthInv`). A code is spent once
because a pending row has one winner, the DELETE that removed it (`CodesOnce`), and where it was issued because
what the winner exchanges was written when the authorization began (`Asked`, `ClientKept`). That the stored
refresh token is one the provider accepts holds while the grant is `Undisturbed`: then whoever is about to save
tokens holds the newest, the row is live, each exchange is saved once, and exchanges come one by one (`Grants`).

**KeyManager.** `KeyInvariance`, `Agreement`, `Recoverability`, `KeyringPermanence`. The invariant ties each
boot to the row: what it is about to unwrap is the row, and who is up has the row's provider. That the row
never changes once there then carries agreement to everybody, whatever raced. `SecretsSurvive` carries
`SecretsRecoverable` over to whole starts: whatever a start does to the schema, of the keys it takes only
this module's steps.

**Boot.** `SchemaInvariance` and `SchemaKept`: whoever serves has the tables its release uses, whoever migrates
beside it or died migrating. The invariant (`SchemaInv`) says that the one who migrates holds the lock
(`LockHeld`), that what the finished migrations created and added is there, but for the table 008 rebuilds (`Whole`),
and that of the migration under way there is what it has executed so far (`Progress`). That no migration takes away
what an earlier one left is proved from the text of the 36 migrations: a table is created before columns are
added to it, the columns a table is created with are those the legacy one is given (`PlainCreates`, `PlainAdds`),
and only 007 and 008 touch `pipeline_steps`.

**OAuthServer.** `Invariance`, `NeverForks`, `SingleUseHolds`, `CapNearlyHolds`, `AnsweredStays`,
`DecisionsStand`, `DeletionStands`. The invariant counts bearers through the requests: whoever has claimed a row holds it alone
(`OneBearer`), because the DELETE told one claimant it removed the row; and a token exists only if its code is
spent (`Claims`). `SingleUseHolds` is the refinement of `SingleUse`: a step that brings a new bearer is the
making of a code, the winning of a row or the issuance of a token, each in place of the bearer before
(`MintingRefines`, `WinningRefines`, `IssuanceRefines`); all the others, expiry, collection, revocation and failures,
at most lose one (`OthersRefine`). The bound on the cap counts the requests between their count and their insert. That nothing
comes of a consent once it was decided, or of an account once it is deleted, is a predicate that every step
preserves (`Closed`, `Buried`): a request that comes late finds no consent to decide (`Answered`), or no
user to issue to.

**Login.** `SignedOutStaysOut` follows request by request: `Work` says, for each place between two awaits,
what its request has read and already written, and that a token signed out is denied or has its request still
on the way (`SessionInv`). `OneSessionPerLogin` is an accounting of copies: what a login hands out is, at any time, in
a store, in one request's hands or spent, and the copies a lost acknowledgement leaves are told apart from the
original (`OnceInv`). `AttemptsAreBounded` attributes each failed attempt to the store that counted it, or to
the attempts that changed stores between look-up and count (`BoundInv`).

**AdminAccounts.** `Locking` holds for any number of replicas: the chain of a lock lists each request once, all
but the first wait, and whoever acts on a count is the first. `Invariance`, `AntiLockout` and `TeamFollows`
assume one replica (`OneReplica`), which is what the code promises the lock for. `AdminRemains` is not inductive:
a request acts on what it counted. The invariant adds that a count acted upon is still good (`CountInv`), true
because only the holder of the lock takes administrators away, and the writers outside the lock at most add
one. The team follows because every administrator off the team is the target of a request about to
put him there (`TeamInv`).

**Delegation.** `Invariance`, `EndsOnce`, `WebhookToldTheEnd`, of an A2A task composed with the grants.
A result is there only when its run has nothing left to write (`WrittenOnce`); a cancellation stored while the
chat turn runs stays, because every later write of the run looks first (`Sealed`). For the webhook, the end in
the row is delivered, in the outbox, or, a cancellation, about to be sent by its request (`PushInv`).

**EndpointAccess.** `ServedAsGranted` needs what holds while edits are under way (`AccessInv`): as long as
nothing was damaged, at most one edit has written half of what it will, its `Part` says which half, and but for
that the rows say what `want` says (`Rightful`). A reader is followed from row to row: what it has read is
still true, or an edit has written since and it is owed nothing (`Readers`, with `Calm`).

**Registry.** `Invariance`, `CatalogTrusted`, `DeleteBeforeInserts`, `ChainsMove`, `StatusComesToRest`. Two
independent halves.
One follows a definition from the listing through the comparison to the INSERT (`Traced`): a baseline is only
ever copied, so what passes under enforce was a baseline, or is in `loose`, and that needs a failure or an
overlap of replicas (`Accident`). The other says that the sync at work on a replica is the first of its chain
and that from its DELETE to its INSERT the catalog holds nothing of that replica (`Serial`), and that a chain
has only live syncs, each once. Together they give what the comment on `syncCatalog` promises, for any number
of syncs. `StatusSettles` is inductive as it stands: from "connecting" every way on leads through `Finish`.

**ToolCall.** Four arguments over one model. A write is made once and reported as it happened because the place in
the plan determines what the vendor has applied (`WritesKept`). The hook is not missed because, for a replica
that is owed it, memory and rows agree but for the edit under way, and what that edit has done is a function of
where it stands (`Known`: the chain is saved, the plugin switched or configured, the files scanned again); a
call past a junction was then asked (`GateKept`). The trail verifies because what one replica appends is
chained to the last entry (`Chained`), in the order of its queue. The books balance while nothing was upset: a call
counted is one that was answered, each has its record on the trail or in a queue, once (`BooksKept`).

**Scheduler.** `Invariance`, `Spacing`, `FiredOnce`. A fire may be executed again only when its claim has
expired, or was counted by another store. The invariant says that a claim covers every execution its store
has counted, done or under way, up to a lifetime after it was made (`ClaimsCover`), and that these are pairwise
apart (`ExecutionsApart`). That one fire is one execution unless somebody was late, and with a failure of Redis
one per store that counted it (a
restarted one is another), needs more (`OnceInv`): a row whose fire was run has moved past it, every run stored is still
ahead of the clock, and whoever still lists a fire that was run finds its claim open where he would count it.
The clock is what could break each of them, and exactly then it is late; and a replica counts elsewhere only
after a failure of Redis.

**ChatView.** `ChatInvariance`, `FilesStayHome`, `OneChatShown`, `NeverBare`, and of the turns
`PromptInvariance`, `PromptsWellFormed`. The page's invariant (`ViewInv`) says that at most one request looks for the reply and that it is the sent turn's
(`Reconciling`), that a conversation born on the page has its URL follow it and nothing else (`Born`,
`UrlFollows`), that every answer not yet applied is still a beginning of the stored thread (`AnswersTrue`), so
applying it late shows one conversation (`OneThread`), and that a page at rest shows the reply or a notice
(`Settled`). Of the gateway the page needs only what every one of its steps leaves alone (`ServerGoesOn`).
The prompt is the other half. What a provider is sent (`Wire`) is a fold over the
prompt. The function behind the fold exists and is unique, so a message more is one step more (`WireAppend`);
a call opens a round and a result fills it (`CallOnto`, `ToolOnto`); what was said may go from the front and the
rest stays what it was (`OntoLater`, `TrimKeepsRounds`). The invariant (`PromptInv`) then says that a live
thread begins with a question, that a prompt is the system message, what was said, and the turn's calls and
results (`WellBuilt`), and that all rounds are answered when the model is asked (`Between`) while the last one waits for
what it still owes when tools run (`Within`). Where the argument goes through the length of a prompt it takes
the shortest one that would fail (`LeastOf`, from `WFMin`).

Proving `SchemaKept` found that it fails for a replica of release 007 while another rebuilds `pipeline_steps` on a
database whose DDL commits by itself (section 6); the assumption above excludes that release there.

Proving also found four flaws of the models that TLC, within its bounds, had not: two CASE expressions whose arms
overlapped (`Due`, `Failed`), and two behaviours in which `GateNotBypassed` owed a call too much: a stale replica
that merely begins an edit, and one whose edit does not read again what another replica changed. `Owed` excludes
both, and the run has the scenario with three edits in which they occur.

Out of the prover's reach, and therefore checked by TLC only: liveness under fairness (and `ENABLED`):
`ApprovedCallRuns`, `QueueDrains`, `TaskEnds`, `SubscriberIsTold`, `EveryReplicaMigrates`, `ComposerFrees`, `DueTaskRuns`,
`RequestAnswered`. Every invariant and every action property of the passing runs is a theorem. `FinalStateSticks`,
`DecisionIsFinal` and `NothingAfterDeletion` nest temporal operators; they are proved from a state predicate that,
once true, every step preserves. The installed provers cannot apply the library's induction theorems and no module
here uses RECURSIVE: what is proved of a fold or of a sequence's length is proved by minimal counterexample.

## 6. What the code does not keep

One run states what a comment of the code says and TLC shows a behaviour that breaks it:

- `admin_lockout`: the last-administrator check counts disabled accounts, so one administrator disables the
  other and demotes himself - against "by demotion OR by disabling" (`routes/users.routes.ts:48`).

The following were met while modelling. The models take these steps, and the properties are worded so that
they say what holds nevertheless.

Approvals, tasks, schedules:

- `shouldGate` swallows a failed lookup of the server, a pattern written against its name then matches
  nothing, and the call runs unapproved (`approvals/approval.service.ts:40` against "Fail CLOSED",
  `plugins/approval-hook.ts:53`). A caller told to have the queued id approved and to retry holds an id that
  the time-out has already settled (`plugins/approval-hook.ts:51`).
- The run of a task re-reads its row and then writes its result without a condition; a cancellation in
  between is overwritten (`a2a/a2a.service.ts:387` against "don't clobber it", line 377).
- A tick works through a list it read once; an entry it reaches after more than the 300 s a claim lives is
  claimed and executed again (`schedules/scheduler.service.ts:62` against "A slow run can't double-fire",
  line 32). It also writes the next run over an edit made meanwhile: a one-off that was moved is lost (line 75).
- A replica whose command fails or times out, or whose breaker is open, claims in its own memory
  (`cluster/shared-store.ts:233-253`), is answered 1 and executes a fire that another has claimed, nobody being
  late - against "`incr` returns 1 to exactly one replica" (`schedules/scheduler.service.ts:32`). `FiredOnceUnlessLate`
  without its exception for `outages > 0` is that comment, and TLC then finds a claim in Redis, a failed claim of
  the same fire on the other replica and two executions, without the clock moving between them.

Start-up and keys:

- Migration 034 creates its indexes without looking (`db/migrations.ts:1017`): on a database whose DDL
  commits by itself, a replica that dies in it leaves a schema on which no later start succeeds (`Torn`),
  against "Safe to call on every boot" (line 1162).
- Migration 008 drops `pipeline_steps` and renames its successor (`db/migrations.ts:463`): where DDL commits by
  itself, a replica of the release before it that still serves is without the table in between, and if the
  migrating one dies there the rows are in `pipeline_steps_new` and the next start creates the table empty.
- While a KMS is adopted one replica at a time, those still without a data key cannot read what the others
  have written (`crypto.ts:106`).

Sessions and accounts:

- Of two concurrent "sign out others" the second may answer before the first has denied the tokens; and one
  that is retried after a stop never denies those whose rows the first had already revoked.
- SCIM reads an account, the console promotes it, and the stale `active: false` then disables the new
  administrator (`routes/scim.routes.ts:155`).
- A request that dies between the claim of the old refresh token and the insertion of the new one costs the
  client its grant (`auth/oauth.service.ts:314`).
- The eviction loop of the memory store compares with a size that shrinks as it deletes and removes half of
  the excess (`cluster/shared-store.ts:124`).

Grants (outside `ServedAsGranted`):

- A narrowed grant is written as DELETE and INSERTs, and no rows mean all: a request in between gets the
  whole endpoint (`db/repos.ts:891` against "narrowed to that user's per-team tool grant",
  `routes/mcp.routes.ts:33`), and for ever if the edit stops there. A first grant writes `allowed_teams`
  before the subset, with the same window. A subset of tools the endpoint does not have is filtered to the
  empty one, which means all.
- An MCP request reads the endpoint's row twice: one that was public at the first read is not narrowed, though
  it is restricted by the second.
- Two overlapping PUTs of grants lose one; a page saved, or a grant made, while the team is being deleted
  brings it back (against "so no phantom grant lingers", `routes/teams.routes.ts:62`).
- A background turn's caller keeps the teams he had when he was authenticated.
- A public endpoint is narrowed in the chat and not over MCP; the administrator's role bypasses narrowing,
  though `mcp/endpoint-access.ts` says it is no axis there.
- The catalog snapshot may be built from rows read before an invalidation and kept for ten seconds after it
  (`mcp/downstream.ts:66` against "toggles reflect immediately", line 63).

Tool calls:

- An invocation that reconnects and so discovers a changed tool still calls it from the row it read before
  (`mcp/registry.service.ts:584`).
- The pipeline is read by the replica that edits it; the others keep theirs until they rescan or restart
  (`src/PLUGINS.md:268` says plugins are "shared across all replicas automatically"). A user plugin that was removed may
  come back, disabled, from another replica's inbox.
- A hook of user code that throws is skipped, and missing while plugins are scanned, imported or removed; an
  edit of a chain that stops halfway leaves it deleted.
- A call that timed out goes on at the vendor. A failing connector's call is audited as a success and
  metered; one that was denied, or could not connect, leaves no tool record.
- Concurrent calls overshoot the budget. An append whose acknowledgement is lost, or a second replica, breaks
  `verify()` (`audit/audit.service.ts:127`).
- The Azure log query is sent again as long as it is answered 401 (`plugins/azure.ts:187`), though it means
  to "refresh once and retry" (line 215). Tempo's `update_plan` reads, changes and writes the whole plan.

Upstream OAuth:

- Another issuer, another app or a second concurrent first start replaces issuer and client while the tokens
  of the former are kept: the old refresh token goes to the wrong endpoint, a pending code is exchanged there.
- A provider that revokes on replay takes the grant away when two refreshes overlap, and a lost answer to a
  rotating refresh loses it. A provider that answers a second code without a refresh token would have the stored
  one cleared (`auth/upstream-oauth.service.ts:279`, line 318); none of the modelled ones does.
- `forget` (`auth/upstream-oauth.service.ts:311`) is called by nothing: a deleted server's rows stay, and a
  start that races with the deletion makes a new one.

Chat:

- A reconcile whose GET fails pushes its notice into whichever conversation is open by then; `saveTitle`
  likewise writes the title of whichever is open after its await.
- A stream that drops before the question is stored, in a conversation with an earlier reply, gives no notice
  and the question disappears. Leaving and coming back in the middle of a turn may show the reply twice or
  not at all.
- A file staged in one conversation stays in the composer of a new one and is silently not attached.
- With overlapping turns, trimming may drop a turn's own question; deleting a conversation during a turn
  leaves rows of it; `applyChatInput` that fails falls back to the raw content of older messages
  (`chat/chat.service.ts:287`).

## 7. What is not modelled

- Contents: names, prompts, scopes, hashes, certificates. Cryptography is perfect, random ids are fresh.
- Of the dialects of SQL only whether DDL commits by itself. A statement is atomic and sees everything
  committed before it.
- Approvals: glob matching. A2A: the reads, skills that are agents (their tools are resolved like a
  project's). Keys: the wire of the KMS clients. Schedules: cron syntax; the chat turn is one step there.
- Shared store: eviction above 50 000 keys, the registration limiter; in `SharedStore` the end of a counter's
  window. A command that timed out is applied before the caller goes on or never; a breaker may close at any
  time after it opened (its cooldown, or 'ready'). A gateway without Redis is one whose breakers stay open.
- Repositories: of a statement outside the modelled components only which columns it names.
- Sign-in: SAML, LDAP and what the libraries check, configuration, passwords and e-mail checks. OAuth:
  access tokens (stateless).
- Grants: creating and renaming teams, slugs, `allowedRoles` (nothing sets it), an agent's own access list,
  pipeline overlays of an endpoint, resources and prompts of a scope.
- Registry: configuration and validation of servers, resources and prompts (stored like tools, never pinned),
  the reconciliation of plugin-backed servers. It is not composed with `ToolCall`, which calls a tool that is
  in the catalog and enabled.
- Pipeline: chains of several steps, overlays, what hooks rewrite, masking of secrets. Connectors: what a
  request asks for, the layout of answers, paging. Budget: tokens, the other scopes, warn mode.
- Chat: more than one turn at a time, the wording of prompts and provider formats, prompts, projects, tags and
  pins. The gateway's turn runs its tools as one step each; `ToolCall` is what such a step does.
- SCIM groups and settings: one JSON document each, read, changed and written back, without any protection;
  there is no promise to check.
- Components without state of their own: code interpreter, HTTP and SSRF guard, rendering, logs and metrics,
  the operator's console, the web site, packages and charts.

## 8. What could come next

1. `RegistryCatalog`, an abstract specification of the registry (what is offered is listed and trusted), with
   `Registry` shown to implement it outside accidents; several tools per server; its composition with
   `ToolCall`.
2. Chains of several hooks and the overlays of endpoints in `ToolCall`; two turns in `ChatView`.

## 9. Running

`tlc -config Registry.cfg MCRegistry` checks a run (`PROJECT.json` names module and configuration of each;
the longest, `chat`, takes about four minutes on two workers), and `tlapm Registry_proof.tla` a module's proofs.
