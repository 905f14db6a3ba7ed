---------------------------- MODULE Repositories ----------------------------
(***************************************************************************)
(* The tables of the gateway, column by column: those a table is created   *)
(* with (db/migrations.ts) and those the statements of each repository     *)
(* name (db/repos.ts, crypto/kms/key-manager.ts).  A column that belongs   *)
(* to no table of its repository fails the statement that names it.        *)
(***************************************************************************)

\* What several maps from tables to columns say together.
Together(maps) ==
  [t \in UNION {DOMAIN m : m \in maps} |->
    UNION {m[t] : m \in {x \in maps : t \in DOMAIN x}}]

Stamps == {"created_at", "updated_at"}

-----------------------------------------------------------------------------
(* The columns a table has from the start.  Those that migrations add to   *)
(* a table they find are in Migrations.                                    *)

BootstrapColumns ==
  [ users |-> {"id", "email", "name", "role", "password_hash"} \cup Stamps,
    settings |-> {"id", "data", "updated_at"},
    servers |-> {"id", "name", "slug", "description", "transport", "url",
        "command", "args", "env", "headers", "auth_type", "auth_value",
        "enabled", "status", "last_error", "last_seen_at"} \cup Stamps,
    tools |-> {"id", "server_id", "name", "description", "input_schema",
        "enabled"} \cup Stamps,
    resources |-> {"id", "server_id", "uri", "name", "description", "mime_type",
        "enabled"} \cup Stamps,
    prompts |-> {"id", "server_id", "name", "description", "arguments",
        "enabled"} \cup Stamps,
    virtual_servers |-> {"id", "name", "slug", "description", "tool_ids",
        "resource_ids", "prompt_ids", "enabled"} \cup Stamps,
    token_revocations |-> {"jti", "revoked_at"},
    teams |-> {"id", "name", "slug", "description"} \cup Stamps,
    team_members |-> {"team_id", "user_id", "role", "joined_at"},
    local_prompts |-> {"id", "name", "slug", "description", "template",
        "arguments", "role", "enabled", "version"} \cup Stamps,
    chat_projects |-> {"id", "user_id", "name"} \cup Stamps,
    chat_conversations |-> {"id", "user_id", "project_id", "title",
        "provider_id", "model", "vserver_slug"} \cup Stamps,
    chat_messages |-> {"id", "conversation_id", "role", "content", "created_at"},
    llm_providers |-> {"id", "name", "type", "base_url", "api_key",
        "default_model", "models", "enabled", "status", "last_error",
        "last_tested_at"} \cup Stamps,
    plugins |-> {"id", "type", "name", "version", "description", "author",
        "priority", "source", "manifest", "config", "enabled", "error",
        "installed_at", "updated_at"} ]

FileColumns ==
  [ chat_project_documents |-> {"id", "project_id", "user_id", "name",
        "content"} \cup Stamps,
    chat_attachments |-> {"id", "conversation_id", "message_id", "user_id",
        "name", "mime", "size", "kind", "extracted_text", "data_b64",
        "created_at"} ]

OAuthColumns ==
  [ oauth_clients |-> {"id", "name", "redirect_uris", "grant_types", "scope",
        "token_endpoint_auth_method", "created_at"},
    oauth_auth_codes |-> {"code", "client_id", "user_id", "redirect_uri",
        "code_challenge", "code_challenge_method", "scope", "resource",
        "expires_at", "created_at"},
    oauth_refresh_tokens |-> {"id", "token_hash", "client_id", "user_id",
        "scope", "expires_at", "created_at"},
    oauth_pending |-> {"id", "client_id", "redirect_uri", "code_challenge",
        "code_challenge_method", "scope", "state", "resource", "binding_hash",
        "expires_at", "created_at"} ]

GrantColumns ==
  [ team_server_tools |-> {"team_id", "virtual_server_id", "tool_id"},
    pipeline_steps |-> {"hook_point", "plugin_id", "position", "enabled"} ]

AuditColumns ==
  [ audit_log |-> {"seq", "id", "ts", "category", "action", "actor_id",
        "actor_email", "actor_role", "resource_type", "resource_id", "outcome",
        "ip", "details", "prev_hash", "hash"},
    app_keyring |-> {"id", "provider", "wrapped_dek", "created_at"} ]

ServerOAuthColumns ==
  [ server_oauth |-> {"server_id", "auth_server_url", "metadata",
        "client_info_enc", "resource", "scope", "access_token_enc",
        "refresh_token_enc", "expires_at"} \cup Stamps,
    server_oauth_pending |-> {"state", "server_id", "code_verifier",
        "redirect_uri", "expires_at", "created_at"} ]

ToolColumns ==
  [ sessions |-> {"jti", "user_id", "created_at", "last_seen_at", "expires_at",
        "revoked", "ip", "user_agent"},
    tool_fingerprints |-> {"id", "server_id", "tool_name", "approved_hash",
        "approved_desc", "approved_at", "approved_by", "pending_hash",
        "pending_desc", "status", "first_seen_at", "updated_at"},
    tool_approvals |-> {"id", "server_id", "server_name", "tool_name",
        "mcp_endpoint_id", "actor_id", "actor_email", "args_preview", "status",
        "reason", "resolved_by", "created_at", "resolved_at"},
    usage_counters |-> {"period_key", "scope_type", "scope_id", "calls",
        "input_tokens", "output_tokens", "updated_at"} ]

ChatColumns ==
  [ chat_project_members |-> {"project_id", "user_id", "role", "created_at"},
    chat_schedules |-> {"id", "user_id", "name", "prompt", "provider_id",
        "model", "vserver_slug", "project_id", "kind", "cron", "run_at",
        "timezone", "enabled", "next_run_at", "last_run_at", "last_status",
        "last_error", "last_conversation_id"} \cup Stamps,
    chat_user_prompts |-> {"id", "user_id", "name", "content"} \cup Stamps,
    chat_memory |-> {"id", "user_id", "content"} \cup Stamps,
    chat_assistants |-> {"id", "user_id", "name", "instructions", "provider_id",
        "model", "vserver_slug"} \cup Stamps ]

AgentColumns ==
  [ chat_agents |-> {"id", "name", "description", "instructions", "provider_id",
        "model", "tool_ids", "access", "allowed_teams", "allowed_users",
        "enabled"} \cup Stamps ]

TaskColumns ==
  [ a2a_tasks |-> {"id", "context_id", "skill_id", "skill_kind", "actor_id",
        "actor_email", "state", "input_message", "status_message", "artifacts",
        "history", "error", "conversation_id"} \cup Stamps,
    a2a_push_configs |-> {"id", "task_id", "url", "token_enc", "created_at"} ]

Columns == Together({
  BootstrapColumns, FileColumns, OAuthColumns, GrantColumns,
  AuditColumns, ServerOAuthColumns, ToolColumns, ChatColumns,
  AgentColumns, TaskColumns })

-----------------------------------------------------------------------------
(* The columns the repositories name.                                      *)

UsersRepo ==
  [ users |-> {"id", "email", "name", "role", "password_hash",
        "disabled"} \cup Stamps ]

SettingsRepo ==
  [ settings |-> {"id", "data", "updated_at"} ]

AuthConfigRepo ==
  [ settings |-> {"id", "data", "updated_at"} ]

ServersRepo ==
  [ servers |-> {"id", "name", "slug", "description", "transport", "url",
        "command", "args", "env", "headers", "auth_type", "auth_value",
        "enabled", "status", "last_error", "last_seen_at", "tls_ca",
        "tls_client_cert", "tls_client_key", "plugin_config"} \cup Stamps,
    tools |-> {"server_id"},
    resources |-> {"server_id"},
    prompts |-> {"server_id"} ]

RegistryRepo ==
  [ tools |-> {"id", "server_id", "name", "description", "input_schema",
        "enabled"} \cup Stamps,
    resources |-> {"id", "server_id", "uri", "name", "description", "mime_type",
        "enabled"} \cup Stamps,
    prompts |-> {"id", "server_id", "name", "description", "arguments",
        "enabled"} \cup Stamps ]

McpEndpointsRepo ==
  [ virtual_servers |-> {"id", "name", "slug", "description", "tool_ids",
        "resource_ids", "prompt_ids", "enabled", "access", "allowed_roles",
        "allowed_teams"} \cup Stamps ]

LocalPromptsRepo ==
  [ local_prompts |-> {"id", "name", "slug", "description", "template",
        "arguments", "role", "enabled", "version"} \cup Stamps ]

LlmProvidersRepo ==
  [ llm_providers |-> {"id", "name", "type", "base_url", "api_key",
        "default_model", "models", "enabled", "status", "last_error",
        "last_tested_at"} \cup Stamps ]

PluginsRepo ==
  [ plugins |-> {"id", "type", "name", "version", "description", "author",
        "priority", "source", "manifest", "config", "enabled", "error",
        "installed_at", "updated_at", "code"} ]

PipelineRepo ==
  [ pipeline_steps |-> {"hook_point", "plugin_id", "position", "enabled",
        "scope"} ]

TeamsRepo ==
  [ teams |-> {"id", "name", "slug", "description"} \cup Stamps,
    team_members |-> {"team_id", "user_id", "role", "joined_at"},
    users |-> {"id", "email", "name"},
    team_server_tools |-> {"team_id", "virtual_server_id", "tool_id"} ]

PlatformTeamRepo ==
  [ teams |-> {"id", "name", "slug", "description"} \cup Stamps,
    users |-> {"id", "role"} ]

TokensRepo ==
  [ token_revocations |-> {"jti", "revoked_at"} ]

SessionsRepo ==
  [ sessions |-> {"jti", "user_id", "created_at", "last_seen_at", "expires_at",
        "revoked", "ip", "user_agent"} ]

ChatProjectsRepo ==
  [ chat_projects |-> {"id", "user_id", "name", "instructions", "tool_ids",
        "default_model"} \cup Stamps,
    chat_project_members |-> {"project_id", "user_id", "role", "created_at"},
    users |-> {"id", "email"},
    chat_conversations |-> {"project_id", "user_id"},
    chat_project_documents |-> {"id", "project_id", "user_id", "name",
        "content"} \cup Stamps ]

ChatConversationsRepo ==
  [ chat_conversations |-> {"id", "user_id", "project_id", "title",
        "provider_id", "model", "vserver_slug", "tags", "pinned", "archived",
        "web_search", "agent_id"} \cup Stamps,
    chat_messages |-> {"id", "conversation_id", "role", "content", "created_at",
        "model_content"},
    chat_attachments |-> {"conversation_id", "user_id"} ]

ChatAttachmentsRepo ==
  [ chat_attachments |-> {"id", "conversation_id", "message_id", "user_id",
        "name", "mime", "size", "kind", "extracted_text", "data_b64",
        "created_at"} ]

ChatLibraryRepo ==
  [ chat_user_prompts |-> {"id", "user_id", "name", "content"} \cup Stamps,
    chat_memory |-> {"id", "user_id", "content"} \cup Stamps,
    chat_agents |-> {"id", "name", "description", "instructions", "provider_id",
        "model", "tool_ids", "access", "allowed_teams", "allowed_users",
        "enabled"} \cup Stamps ]

ToolFingerprintsRepo ==
  [ tool_fingerprints |-> {"id", "server_id", "tool_name", "approved_hash",
        "approved_desc", "approved_at", "approved_by", "pending_hash",
        "pending_desc", "status", "first_seen_at", "updated_at"} ]

ToolApprovalsRepo ==
  [ tool_approvals |-> {"id", "server_id", "server_name", "tool_name",
        "mcp_endpoint_id", "actor_id", "actor_email", "args_preview", "status",
        "reason", "resolved_by", "created_at", "resolved_at"} ]

UsageRepo ==
  [ usage_counters |-> {"period_key", "scope_type", "scope_id", "calls",
        "input_tokens", "output_tokens", "updated_at"} ]

OAuthRepo ==
  [ oauth_clients |-> {"id", "name", "redirect_uris", "grant_types", "scope",
        "token_endpoint_auth_method", "created_at"},
    oauth_pending |-> {"id", "client_id", "redirect_uri", "code_challenge",
        "code_challenge_method", "scope", "state", "resource", "binding_hash",
        "expires_at", "created_at"},
    oauth_auth_codes |-> {"code", "client_id", "user_id", "redirect_uri",
        "code_challenge", "code_challenge_method", "scope", "resource",
        "expires_at", "created_at"},
    oauth_refresh_tokens |-> {"id", "token_hash", "client_id", "user_id",
        "scope", "expires_at", "created_at"} ]

ServerOAuthRepo ==
  [ server_oauth |-> {"server_id", "auth_server_url", "metadata",
        "client_info_enc", "resource", "scope", "access_token_enc",
        "refresh_token_enc", "expires_at", "operator_config_enc"} \cup Stamps,
    server_oauth_pending |-> {"state", "server_id", "code_verifier",
        "redirect_uri", "expires_at", "created_at"} ]

AuditLogRepo ==
  [ audit_log |-> {"seq", "id", "ts", "category", "action", "actor_id",
        "actor_email", "actor_role", "resource_type", "resource_id", "outcome",
        "ip", "details", "prev_hash", "hash"} ]

SchedulesRepo ==
  [ chat_schedules |-> {"id", "user_id", "name", "prompt", "provider_id",
        "model", "vserver_slug", "project_id", "kind", "cron", "run_at",
        "timezone", "enabled", "next_run_at", "last_run_at", "last_status",
        "last_error", "last_conversation_id", "agent_id"} \cup Stamps ]

A2aTasksRepo ==
  [ a2a_tasks |-> {"id", "context_id", "skill_id", "skill_kind", "actor_id",
        "actor_email", "state", "input_message", "status_message", "artifacts",
        "history", "error", "conversation_id"} \cup Stamps ]

A2aPushRepo ==
  [ a2a_push_configs |-> {"id", "task_id", "url", "token_enc", "created_at"} ]

Keyring ==
  [ app_keyring |-> {"id", "provider", "wrapped_dek", "created_at"} ]

createRepos == Together({
  UsersRepo, SettingsRepo, AuthConfigRepo, ServersRepo, RegistryRepo,
  McpEndpointsRepo, LocalPromptsRepo, LlmProvidersRepo, PluginsRepo,
  PipelineRepo, TeamsRepo, PlatformTeamRepo, TokensRepo, SessionsRepo,
  ChatProjectsRepo, ChatConversationsRepo, ChatAttachmentsRepo,
  ChatLibraryRepo, ToolFingerprintsRepo, ToolApprovalsRepo, UsageRepo,
  OAuthRepo, ServerOAuthRepo, AuditLogRepo, SchedulesRepo, A2aTasksRepo,
  A2aPushRepo, Keyring })

=============================================================================
