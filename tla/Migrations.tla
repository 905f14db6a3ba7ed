----------------------------- MODULE Migrations -----------------------------
(***************************************************************************)
(* The versioned schema (db/migrations.ts) and how replicas of several     *)
(* releases bring it up to date when they start (services.ts), one behind  *)
(* the other under Knex' lock.                                             *)
(*                                                                         *)
(* A table is the set of its columns that it does not have from the start: *)
(* those a migration adds to it, one by one, after its creation.  Of the   *)
(* rows only pipeline_steps matter, known by their scope.                  *)
(*                                                                         *)
(* Knex is external: latest() runs all that is pending in one transaction  *)
(* which also holds the lock's row; where DDL commits by itself (MySQL),   *)
(* the first DDL makes the lock visible and everything after it permanent. *)
(***************************************************************************)
EXTENDS Deployment, Repositories, Naturals, Sequences, Functions

CONSTANTS
  Releases,        \* a release is the number of migrations it knows
  Databases,       \* what a deployment may start on: see Database
  Dialects,        \* {"transactional", "autocommit"} or one of them
  MaxCrashes       \* bound: migrating replicas that die

VARIABLES
  dialect,
  db,              \* the schema and the rows as the migrating replica sees them
  saved,           \* what a rollback brings back
  lock,            \* [by |-> holder or "nobody", seen |-> it is committed]
  phase,           \* phase[r]: where the start of r is
  left,            \* left[r]: what is left of the migration under way
  release,         \* release[r]: the release r runs
  crashes

mvars == <<dialect, db, saved, lock, phase, left, release, crashes>>

-----------------------------------------------------------------------------
(* Statements.                                                             *)

Create(t, cols) == [op |-> "create", table |-> t, cols |-> cols]
Table(t) == Create(t, {})
Add(t, cols) == [op |-> "add", table |-> t, cols |-> cols]
Index(name) == [op |-> "index", table |-> "audit_log", cols |-> {name}]
Rebuild(step) == [op |-> step, table |-> "pipeline_steps", cols |-> {"scope"}]

HasTable(d, t) == t \in DOMAIN d.tables

\* createIfMissing, ensureColumn and its inlined copies change nothing that
\* is there already; auditFilterIndexes does not look.
Alters(d, s) ==
  CASE s.op = "create" -> ~HasTable(d, s.table)
    [] s.op = "add" -> HasTable(d, s.table) /\ ~(s.cols \subseteq d.tables[s.table])
    [] s.op = "index" -> HasTable(d, s.table)
    [] OTHER -> TRUE

\* Mutant of Refused: the tables are created without a look.
RefusedTables(d, s) == s.op = "create" /\ HasTable(d, s.table)

\* The database refuses an index name it has.
Refused(d, s) == s.op = "index" /\ s.cols \subseteq d.indexes

WithTable(d, t, cols) ==
  [x \in DOMAIN d.tables \cup {t} |-> IF x = t THEN cols ELSE d.tables[x]]

Applied(d, s) ==
  CASE s.op = "create" -> [d EXCEPT !.tables = WithTable(d, s.table, s.cols)]
    [] s.op = "add" -> [d EXCEPT !.tables[s.table] = @ \cup s.cols]
    [] s.op = "index" -> [d EXCEPT !.indexes = @ \cup s.cols]
    [] s.op = "createNew" -> [d EXCEPT !.copy = {}]
    [] s.op = "copyRows" -> [d EXCEPT !.copy = d.rows]
    [] s.op = "dropOld" ->
         [d EXCEPT !.rows = {},
                   !.tables = [x \in DOMAIN d.tables \ {s.table} |-> d.tables[x]]]
    [] s.op = "rename" ->
         [d EXCEPT !.rows = d.copy, !.copy = {},
                   !.tables = WithTable(d, s.table, s.cols)]
    [] s.op = "clearGlobal" -> [d EXCEPT !.rows = @ \ {"global"}]

Execute(d, s) == IF Alters(d, s) THEN Applied(d, s) ELSE d

\* Inserts, deletes and the record of a migration do not commit by themselves.
IsDDL(d, s) == Alters(d, s) /\ s.op \notin {"copyRows", "clearGlobal"}

-----------------------------------------------------------------------------
(* The migrations.                                                         *)

TABLES == <<
  Table("users"), Table("settings"), Table("servers"), Table("tools"),
  Table("resources"), Table("prompts"),
  Create("virtual_servers", {"access", "allowed_roles", "allowed_teams"}),
  Table("token_revocations"), Table("teams"), Table("team_members"),
  Table("local_prompts"), Table("chat_projects"), Table("chat_conversations"),
  Table("chat_messages"), Table("llm_providers"), Create("plugins", {"code"}) >>

\* Mutant of initial: the bootstrap's tables keep the columns they had.
initialCreates == TABLES

initial == TABLES \o <<
  Add("virtual_servers", {"access"}), Add("virtual_servers", {"allowed_roles"}),
  Add("virtual_servers", {"allowed_teams"}), Add("plugins", {"code"}) >>

projectDocs == << Add("chat_projects", {"instructions"}), Table("chat_project_documents") >>
attachments == << Table("chat_attachments") >>
oauth == << Table("oauth_clients"), Table("oauth_auth_codes"),
            Table("oauth_refresh_tokens"), Table("oauth_pending") >>
teamServerTools == << Table("team_server_tools") >>
userDisabled == << Add("users", {"disabled"}) >>
pipelineSteps == << Table("pipeline_steps") >>

\* The primary key changes, so the table is built again beside the old one.
pipelineScope == << Rebuild("createNew"), Rebuild("copyRows"), Rebuild("dropOld"),
                    Rebuild("rename") >>

pipelineOptIn == << Rebuild("clearGlobal") >>
auditLog == << Table("audit_log") >>
appKeyring == << Table("app_keyring") >>
serverOAuth == << Table("server_oauth"), Table("server_oauth_pending") >>
serverOAuthOperatorConfig == << Add("server_oauth", {"operator_config_enc"}) >>
serverTls == << Add("servers", {"tls_ca", "tls_client_cert", "tls_client_key"}) >>
sessions == << Table("sessions") >>
toolFingerprints == << Table("tool_fingerprints") >>
toolApprovals == << Table("tool_approvals") >>
usageCounters == << Table("usage_counters") >>
pluginInstanceConfig == << Add("servers", {"plugin_config"}) >>
chatModelContent == << Add("chat_messages", {"model_content"}) >>
chatProjectMembers == << Table("chat_project_members") >>
chatSchedules == << Table("chat_schedules") >>
chatUserPrompts == << Table("chat_user_prompts") >>
chatConversationTags == << Add("chat_conversations", {"tags"}) >>
chatMemory == << Table("chat_memory") >>
chatAssistants == << Table("chat_assistants") >>
chatConversationAssistant == << Add("chat_conversations", {"assistant_id"}) >>
chatConversationFlags ==
  << Add("chat_conversations", {"pinned"}), Add("chat_conversations", {"archived"}) >>
chatConversationWebSearch == << Add("chat_conversations", {"web_search"}) >>
chatProjectTools == << Add("chat_projects", {"tool_ids"}) >>
chatAgents == << Table("chat_agents") >>
chatProjectDefaultModel == << Add("chat_projects", {"default_model"}) >>
chatConversationAgent == << Add("chat_conversations", {"agent_id"}) >>
auditFilterIndexes == << Index("category_seq"), Index("resource_type_seq"),
                         Index("resource_id") >>
a2aTasks == << Table("a2a_tasks"), Table("a2a_push_configs") >>
chatScheduleAgent == << Add("chat_schedules", {"agent_id"}) >>

MIGRATIONS == <<
  initial, projectDocs, attachments, oauth, teamServerTools, userDisabled,
  pipelineSteps, pipelineScope, pipelineOptIn, auditLog, appKeyring, serverOAuth,
  serverOAuthOperatorConfig, serverTls, sessions, toolFingerprints, toolApprovals,
  usageCounters, pluginInstanceConfig, chatModelContent, chatProjectMembers,
  chatSchedules, chatUserPrompts, chatConversationTags, chatMemory, chatAssistants,
  chatConversationAssistant, chatConversationFlags, chatConversationWebSearch,
  chatProjectTools, chatAgents, chatProjectDefaultModel, chatConversationAgent,
  auditFilterIndexes, a2aTasks, chatScheduleAgent >>

\* What a migration does: 008 finds no table to rebuild after a rebuild that
\* died before its last step, and then creates an empty one.
Up(m, d) ==
  IF m = 8 /\ ~HasTable(d, "pipeline_steps")
  THEN << Create("pipeline_steps", {"scope"}) >>
  ELSE MIGRATIONS[m]

-----------------------------------------------------------------------------
(* Databases to start on.                                                  *)

Empty == [tables |-> << >>, indexes |-> {}, rows |-> {}, copy |-> {}, done |-> 0]

\* What the first n migrations leave, run without a break: nothing a migration
\* creates or adds is dropped for good.
Migrated ==
  [n \in 0..Len(MIGRATIONS) |->
    LET run == UNION { Range(MIGRATIONS[m]) : m \in 1..n }
        Creators(t) == { s \in run : s.table = t /\ s.op \in {"create", "add", "rename"} }
    IN  [Empty EXCEPT
           !.tables = [t \in { s.table : s \in { x \in run : x.op = "create" } } |->
                         UNION { s.cols : s \in Creators(t) }],
           !.indexes = UNION { s.cols : s \in { x \in run : x.op = "index" } },
           !.done = n]]

\* The tables of the bootstrap that preceded the migrations.
Legacy ==
  [Empty EXCEPT !.tables = [t \in DOMAIN Migrated[1].tables |-> {}]]

\* A database: the bootstrap's, or the migrations it has seen and the scopes
\* of its pipeline_steps.
Database(b) ==
  IF b.legacy THEN Legacy ELSE [Migrated[b.done] EXCEPT !.rows = b.rows]

MInit ==
  /\ dialect \in Dialects
  /\ \E b \in Databases : db = Database(b)
  /\ saved = db
  /\ lock = [by |-> "nobody", seen |-> FALSE]
  /\ phase = [r \in Replicas |-> "down"]
  /\ left = [r \in Replicas |-> << >>]
  /\ release \in [Replicas -> Releases]
  /\ crashes = 0

-----------------------------------------------------------------------------
(* Starting a replica: knex.migrate.latest.                                *)

\* What everybody but the migrating replica sees.
Visible == IF lock.by # "nobody" /\ ~lock.seen THEN saved ELSE db

Enter(r, p) == phase' = [phase EXCEPT ![r] = p]
Free == lock' = [by |-> "nobody", seen |-> FALSE]

\* The list of what was applied names nothing this release does not know.
Launch(r) ==
  /\ phase[r] = "down"
  /\ Visible.done <= release[r]
  /\ Enter(r, "listed")
  /\ UNCHANGED <<dialect, db, saved, lock, left, release, crashes>>

TakeLock(r) ==
  /\ phase[r] = "listed"
  /\ lock.by = "nobody"
  /\ lock' = [by |-> r, seen |-> FALSE]
  /\ saved' = db
  /\ Enter(r, "next")
  /\ UNCHANGED <<dialect, db, left, release, crashes>>

\* Knex finds the lock taken, throws, and the process exits.
FindLocked(r) ==
  /\ phase[r] = "listed"
  /\ lock.seen
  /\ Enter(r, "down")
  /\ UNCHANGED <<dialect, db, saved, lock, left, release, crashes>>

NextMigration(r) ==
  /\ phase[r] = "next"
  /\ db.done < release[r]
  /\ left' = [left EXCEPT ![r] = Up(db.done + 1, db)]
  /\ Enter(r, "step")
  /\ UNCHANGED <<dialect, db, saved, lock, release, crashes>>

\* The batch ends: committed work stays, the rest is rolled back.
GiveUp == db' = Visible /\ saved' = Visible

Statement(r) ==
  /\ phase[r] = "step" /\ left[r] # << >>
  /\ LET s == Head(left[r]) IN
       IF Refused(db, s)
       THEN /\ GiveUp
            /\ Free
            /\ Enter(r, "down")
            /\ left' = [left EXCEPT ![r] = << >>]
       ELSE /\ db' = Execute(db, s)
            /\ lock' = [lock EXCEPT !.seen = @ \/ (dialect = "autocommit" /\ IsDDL(db, s))]
            /\ left' = [left EXCEPT ![r] = Tail(@)]
            /\ UNCHANGED <<saved, phase>>
  /\ UNCHANGED <<dialect, release, crashes>>

Record(r) ==
  /\ phase[r] = "step" /\ left[r] = << >>
  /\ db' = [db EXCEPT !.done = @ + 1]
  /\ Enter(r, "next")
  /\ UNCHANGED <<dialect, saved, lock, left, release, crashes>>

\* Mutant of Finish: the lock stays taken.
FinishLocked(r) ==
  /\ phase[r] = "next"
  /\ db.done >= release[r]
  /\ Enter(r, "done")
  /\ UNCHANGED <<dialect, db, saved, lock, left, release, crashes>>

Finish(r) ==
  /\ phase[r] = "next"
  /\ db.done >= release[r]
  /\ Free
  /\ saved' = db
  /\ Enter(r, "done")
  /\ UNCHANGED <<dialect, db, left, release, crashes>>

\* The migrating process dies.  A lock that was committed stays.
Die(r) ==
  /\ phase[r] \in {"next", "step"}
  /\ crashes < MaxCrashes
  /\ crashes' = crashes + 1
  /\ GiveUp
  /\ lock' = [by |-> IF lock.seen THEN "gone" ELSE "nobody", seen |-> lock.seen]
  /\ Enter(r, "down")
  /\ left' = [left EXCEPT ![r] = << >>]
  /\ UNCHANGED <<dialect, release>>

\* "node main.js migrate", the job that applies the schema and exits.
ExitJob(r) ==
  /\ phase[r] = "done"
  /\ Enter(r, "down")
  /\ UNCHANGED <<dialect, db, saved, lock, left, release, crashes>>

\* The operator releases a lock nobody holds ("knex migrate:unlock").
Unlock ==
  /\ lock.by = "gone"
  /\ Free
  /\ UNCHANGED <<dialect, db, saved, phase, left, release, crashes>>

\* The deployment rolls a stopped replica forward.
Upgrade(r) ==
  /\ phase[r] = "down"
  /\ \E n \in Releases : n > release[r] /\ release' = [release EXCEPT ![r] = n]
  /\ UNCHANGED <<dialect, db, saved, lock, phase, left, crashes>>

MigrateStep(r) ==
  \/ Launch(r)
  \/ TakeLock(r)
  \/ FindLocked(r)
  \/ NextMigration(r)
  \/ Statement(r)
  \/ Record(r)
  \/ Finish(r)

-----------------------------------------------------------------------------
(* What a release uses.                                                    *)

\* Of the tables release n knows and the columns they have by then, those its
\* repositories name.
Needs ==
  [n \in 0..Len(MIGRATIONS) |->
    [t \in DOMAIN createRepos \cap DOMAIN Migrated[n].tables |->
      createRepos[t] \cap Migrated[n].tables[t]]]

\* While 008 rebuilds pipeline_steps, replicas of the one release that has the
\* old table must not see it go.
ASSUME MigrationConstants ==
  /\ "nobody" \notin Replicas /\ "gone" \notin Replicas
  /\ \A b \in Databases : b.legacy \/ b.done \in 0..Len(MIGRATIONS)
  /\ Releases \subseteq 0..Len(MIGRATIONS)
  /\ Dialects \subseteq {"transactional", "autocommit"}
  /\ 7 \in Releases => "autocommit" \notin Dialects
  /\ MaxCrashes \in Nat

\* Every column the repositories of the latest release name comes out of the
\* migrations, from the start or later.
ASSUME ColumnsExist ==
  LET made == Migrated[Len(MIGRATIONS)].tables IN
  /\ DOMAIN createRepos \subseteq DOMAIN made
  /\ \A t \in DOMAIN made : Columns[t] \cap made[t] = {}
  /\ \A t \in DOMAIN createRepos : createRepos[t] \subseteq Columns[t] \cup made[t]

Served(r) ==
  LET needs == Needs[release[r]] IN
  \A t \in DOMAIN needs : HasTable(Visible, t) /\ needs[t] \subseteq Visible.tables[t]
=============================================================================
