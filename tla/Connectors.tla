------------------------------ MODULE Connectors ------------------------------
(* The built-in connector plugins (plugins of type mcp-server that run in the   *)
(* gateway's own process) and the clients of remote servers and agents: which   *)
(* tools each offers, which requests a tool makes to the vendor and in what     *)
(* order, which failures it survives, and how the connector authenticates and   *)
(* retries.  A module of constants: ToolCall runs these plans.                  *)
(*                                                                              *)
(* A plan is the sequence of a tool's requests and checks.  That a tool may      *)
(* refuse for want of its configuration or of an argument goes for all of them  *)
(* and is no step.  A paged listing is one read: a failing page fails the tool  *)
(* wherever it comes.  What a request asks for and how its answer is laid out   *)
(* is left out.                                                                 *)
EXTENDS Naturals, Sequences, TLC

Read     == "read"      \* its failure fails the tool
Write    == "write"     \* its failure fails the tool
OptRead  == "optRead"   \* its failure is noted and the tool goes on
FirstRead == "firstRead" \* the vendor's refusal is noted, any other failure fails the tool
ElseRead == "elseRead"  \* made only when the read before it was noted as failed
SomeRead  == "someRead"   \* the tool fails when every one of these failed
SomeWrite == "someWrite"  \* the tool fails when every one of these failed
KeptRead  == "keptRead"   \* not made when the answer is at hand, or not needed
Check     == "check"      \* no request: the tool looks at what it has and may refuse
Refusal   == "refusal"    \* no request: the tool refuses

Making  == {Read, Write, OptRead, FirstRead, ElseRead, SomeRead, SomeWrite, KeptRead, Check, Refusal}
Writing == {Write, SomeWrite}

Each(tools, plan) == [t \in tools |-> plan]
Writes(plan) == \E i \in DOMAIN plan : plan[i] \in Writing

(* How requests are authenticated: with credentials sent each time, or with a   *)
(* token the process caches until it expires; and how often a request the       *)
(* vendor answers 401 is sent again with a fresh token.                         *)
Retries == {"never", "once", "always"}
Auth(cached, retries) == [cached |-> cached, retries |-> retries]
Static == Auth(FALSE, "never")

(* A connector: the retry of each tool, its plans, the tools its documentation  *)
(* recommends holding for approval, and whether a failing tool throws instead   *)
(* of answering an error.                                                       *)
Connector(auth, plans, gate) ==
  [auth |-> Each(DOMAIN plans, auth), plans |-> plans, gate |-> gate, throws |-> FALSE]

-------------------------------------------------------------------------------
(* Code interpreter *)
Native == Connector(Static, Each({"kravn_run_python"}, <<Write>>), {})

(* HTTP request: what a call may ask for depends on the instance's mode.  It     *)
(* writes if the method does: the pinned one, or the one the call names unless  *)
(* the instance is read-only.  A scoped path must stay under the base.          *)
HttpTools == {"http_request"}
HttpAuth  == Static
HttpModes == {"unconfigured", "pinned", "scoped", "open"}
HttpTarget(mode) == IF mode = "scoped" THEN <<Check>> ELSE <<>>
HttpPlans(mode, writes) ==
  Each(HttpTools, IF mode = "unconfigured" THEN <<Refusal>>
                  ELSE HttpTarget(mode) \o <<IF writes THEN Write ELSE Read>>)
Http(mode, writes) == Connector(HttpAuth, HttpPlans(mode, writes), {})

(* Google Cloud: cached token, no second attempt after a 401 *)
GcpTools == {"gcp_list_projects", "gcp_asset_search", "gcp_logging_query",
             "gcp_monitoring_query", "gcp_cost"}
GcpAuth  == Auth(TRUE, "never")
GcpPlans == Each(GcpTools, <<Read>>)
Gcp      == Connector(GcpAuth, GcpPlans, {})

(* AWS: every request signed *)
AwsTools == {"aws_cost_by_service", "aws_list_log_groups", "aws_logs_query",
             "aws_list_resources"}
AwsAuth  == Static
AwsPlans == Each(AwsTools \ {"aws_logs_query"}, <<Read>>)
            @@ Each({"aws_logs_query"}, <<Read, Read>>)
Aws      == Connector(AwsAuth, AwsPlans, {})

(* Azure: a log query's retry is the call itself, not a marked second attempt *)
AzureTools == {"azure_list_subscriptions", "azure_resource_graph_query",
               "azure_list_log_analytics_workspaces", "azure_logs_query",
               "azure_cost_by_service", "azure_metric_definitions",
               "azure_metrics_query"}
AzureAuth     == Auth(TRUE, "once")
AzureLogsAuth == Auth(TRUE, "always")
AzureInventoryPlans == Each({"azure_list_subscriptions", "azure_resource_graph_query",
                             "azure_list_log_analytics_workspaces", "azure_logs_query"},
                            <<Read>>)
AzureCostPlans == Each({"azure_cost_by_service", "azure_metric_definitions",
                        "azure_metrics_query"}, <<Read>>)
Azure == [Connector(AzureAuth, AzureInventoryPlans @@ AzureCostPlans, {})
          EXCEPT !.auth["azure_logs_query"] = AzureLogsAuth]

-------------------------------------------------------------------------------
(* Kubernetes: what names a kind resolves it first, by the discovery of its API *)
(* version, which is kept                                                       *)
K8sTools == {"k8s_api_resources", "k8s_list", "k8s_get", "k8s_get_secret",
             "k8s_apply", "k8s_delete", "k8s_patch", "k8s_scale",
             "k8s_rollout_restart", "k8s_logs", "k8s_events", "k8s_top_pods"}
K8sGate  == {"k8s_apply", "k8s_delete", "k8s_patch", "k8s_scale",
             "k8s_rollout_restart", "k8s_get_secret"}
K8sAuth  == Static
K8sKind  == <<KeptRead, Check>>         \* the API version must have the kind
K8sObjectPlans  == Each({"k8s_list", "k8s_get"}, K8sKind \o <<Read>>)
                   @@ Each({"k8s_api_resources"}, <<KeptRead>>)
                   @@ Each({"k8s_get_secret"}, <<Read>>)
K8sManifest == <<Check>>                \* a manifest given as text must parse
K8sChangePlans  == Each({"k8s_delete", "k8s_patch", "k8s_scale"}, K8sKind \o <<Write>>)
                   @@ Each({"k8s_apply"}, K8sManifest \o K8sKind \o <<Write>>)
                   @@ Each({"k8s_rollout_restart"}, K8sKind \o <<Read, Write>>)
K8sRuntimePlans == Each({"k8s_logs", "k8s_events", "k8s_top_pods"}, <<Read>>)
K8s == Connector(K8sAuth, K8sObjectPlans @@ K8sChangePlans @@ K8sRuntimePlans, K8sGate)

(* Argo CD: a clone writes one application per target and goes on past failures *)
ArgocdTools == {"argocd_list_apps", "argocd_get_app", "argocd_clone_app",
                "argocd_create_app", "argocd_update_app", "argocd_sync_app",
                "argocd_delete_app", "argocd_get_manifests", "argocd_app_history",
                "argocd_rollback_app", "argocd_list_projects", "argocd_list_clusters",
                "argocd_create_appset"}
ArgocdGate == {"argocd_create_app", "argocd_update_app", "argocd_sync_app",
               "argocd_delete_app", "argocd_clone_app", "argocd_rollback_app",
               "argocd_create_appset"}
ArgocdAuth == Static
ArgocdClonePlan == Each({"argocd_clone_app"}, <<Read, SomeWrite, SomeWrite>>)
ArgocdObject    == <<Check>>            \* a manifest given as text must parse
ArgocdAppPlans  == Each({"argocd_list_apps", "argocd_get_app"}, <<Read>>)
ArgocdManifests == {"argocd_create_app", "argocd_update_app", "argocd_create_appset"}
ArgocdPlans == Each({"argocd_get_manifests", "argocd_app_history", "argocd_list_projects",
                     "argocd_list_clusters"}, <<Read>>)
               @@ Each(ArgocdManifests, ArgocdObject \o <<Write>>)
               @@ Each(ArgocdGate \ (ArgocdManifests \cup {"argocd_clone_app"}), <<Write>>)
Argocd == Connector(ArgocdAuth, ArgocdClonePlan @@ ArgocdAppPlans @@ ArgocdPlans, ArgocdGate)

-------------------------------------------------------------------------------
(* Atlassian: the account's token in every request *)
AtlassianAuth == Static

(* A search resolves the names of columns asked for, asks the new search and, where*)
(* there is none, the classic one; a project list does so after any failure.    *)
JiraTools == {"jira_search", "jira_get_issue", "jira_get_comments",
              "jira_list_projects", "jira_create_issue", "jira_add_comment",
              "jira_transition_issue"}
JiraSearchPlan == Each({"jira_search"}, <<KeptRead, FirstRead, ElseRead>>)
JiraPlans == Each({"jira_list_projects"}, <<OptRead, ElseRead>>)
             @@ Each({"jira_get_issue", "jira_get_comments"}, <<Read>>)
             @@ Each({"jira_create_issue", "jira_add_comment"}, <<Write>>)
             @@ Each({"jira_transition_issue"}, <<Read, Write>>)
JsmTools == {"jsm_list_service_desks", "jsm_list_request_types", "jsm_list_requests",
             "jsm_get_request", "jsm_get_request_sla", "jsm_list_queues",
             "jsm_get_queue_issues", "jsm_list_organizations", "jsm_create_request",
             "jsm_add_request_comment"}
JsmWrites == {"jsm_create_request", "jsm_add_request_comment"}
JsmReadPlans  == Each(JsmTools \ JsmWrites, <<Read>>)
JsmWritePlans == Each(JsmWrites, <<Write>>)
Jira == Connector(AtlassianAuth, JiraSearchPlan @@ JiraPlans @@ JsmReadPlans @@ JsmWritePlans, {})

ConfluenceTools == {"confluence_search", "confluence_get_page", "confluence_list_spaces",
                    "confluence_create_page", "confluence_add_comment"}
ConfluenceWrites == {"confluence_create_page", "confluence_add_comment"}
ConfluencePlans == Each(ConfluenceTools \ ConfluenceWrites, <<Read>>)
                   @@ Each(ConfluenceWrites, <<Write>>)
Confluence == Connector(AtlassianAuth, ConfluencePlans, {})

(* Tempo: an update reads the whole plan and writes it back; a team's capacity  *)
(* counts a member whose schedule fails as nothing                              *)
TempoTools == {"tempo_get_plans", "tempo_get_plan", "tempo_get_allocations",
               "tempo_create_plan", "tempo_update_plan", "tempo_delete_plan",
               "tempo_get_user_capacity", "tempo_get_team_capacity",
               "tempo_list_teams", "tempo_get_team_members", "tempo_list_accounts",
               "tempo_get_worklogs", "tempo_list_workload_schemes"}
TempoAuth == Static
TempoPlanPlans == Each({"tempo_get_plans", "tempo_get_plan", "tempo_get_allocations"}, <<Read>>)
                  @@ Each({"tempo_create_plan", "tempo_delete_plan"}, <<Write>>)
                  @@ Each({"tempo_update_plan"}, <<Read, Write>>)
TempoTeamPlans == Each({"tempo_get_team_capacity"}, <<Read, OptRead>>)
                  @@ Each({"tempo_get_user_capacity", "tempo_list_teams",
                           "tempo_get_team_members", "tempo_list_accounts",
                           "tempo_get_worklogs", "tempo_list_workload_schemes"}, <<Read>>)
Tempo == Connector(TempoAuth, TempoPlanPlans @@ TempoTeamPlans, {})

(* Testmo: writing tools are offered, and run, only where the configuration     *)
(* allows them; each is one bulk request                                        *)
TestmoReads == {"testmo_list_projects", "testmo_get_project", "testmo_list_milestones",
                "testmo_list_runs", "testmo_get_run", "testmo_list_run_results",
                "testmo_list_cases", "testmo_list_folders", "testmo_list_automation_runs",
                "testmo_get_automation_run", "testmo_list_automation_sources",
                "testmo_list_sessions", "testmo_list_users"}
TestmoWrites == {"testmo_create_cases", "testmo_update_cases", "testmo_delete_cases",
                 "testmo_create_folders", "testmo_update_folders", "testmo_delete_folders"}
TestmoAuth == Static
TestmoIds  == <<Check>>                 \* ids must be numbers, and few enough for one request
TestmoWhole == {"testmo_list_projects", "testmo_list_users"}
TestmoReadPlans  == Each(TestmoWhole, <<Read>>)
                    @@ Each(TestmoReads \ TestmoWhole, TestmoIds \o <<Read>>)
TestmoWritePlans == Each(TestmoWrites, TestmoIds \o <<Write>>)
Testmo(allowWrites) ==
  Connector(TestmoAuth,
            IF allowWrites THEN TestmoReadPlans @@ TestmoWritePlans ELSE TestmoReadPlans, {})

-------------------------------------------------------------------------------
(* Gmail: a search reads its matches one by one *)
GmailTools == {"gmail_search", "gmail_get_message", "gmail_send", "gmail_list_labels"}
GmailAuth  == Auth(TRUE, "once")
GmailAttachments == <<Check>>           \* at hand in the chat, and within the limit
GmailPlans == Each({"gmail_search"}, <<Read, Read>>)
              @@ Each({"gmail_get_message", "gmail_list_labels"}, <<Read>>)
              @@ Each({"gmail_send"}, GmailAttachments \o <<Write>>)
Gmail      == Connector(GmailAuth, GmailPlans, {"gmail_send"})

(* Microsoft 365: one application token each, kept until it expires *)
OutlookTools == {"outlook_list_messages", "outlook_get_message", "outlook_send_mail",
                 "outlook_reply", "outlook_list_folders"}
OutlookAuth  == Auth(TRUE, "never")
OutlookGate  == {"outlook_send_mail", "outlook_reply"}
OutlookPlans == Each(OutlookTools \ OutlookGate, <<Read>>) @@ Each(OutlookGate, <<Write>>)
Outlook      == Connector(OutlookAuth, OutlookPlans, OutlookGate)

TeamsTools == {"teams_find_user", "teams_find_chat", "teams_list_chats",
               "teams_read_chat", "teams_list_teams", "teams_list_channels",
               "teams_read_channel_messages", "teams_get_message_images"}
TeamsAuth == Auth(TRUE, "never")
TeamsPages    == <<Read>>               \* page after page, within the window asked for
TeamsQuotes   == <<OptRead>>            \* a quote that cannot be read leaves its preview
TeamsPictures == <<SomeRead>>           \* what cannot be shown, or converted, is a failure
TeamsFiles    == <<SomeRead>>           \* the shared file, then the address it names
TeamsReadPlans == Each({"teams_read_chat", "teams_read_channel_messages"},
                       <<Check>> \o TeamsPages \o TeamsQuotes)
                  @@ Each({"teams_find_user", "teams_find_chat", "teams_list_chats",
                           "teams_list_teams", "teams_list_channels"}, TeamsPages)
TeamsImagePlan == Each({"teams_get_message_images"}, <<Read>> \o TeamsPictures \o TeamsFiles)
Teams == Connector(TeamsAuth, TeamsReadPlans @@ TeamsImagePlan, {})

SharepointTools == {"sharepoint_search", "sharepoint_list_sites",
                    "sharepoint_list_documents", "sharepoint_read_document"}
SharepointAuth  == Auth(TRUE, "never")
SharepointPlans == Each(SharepointTools \ {"sharepoint_read_document"}, <<Read>>)
                   @@ Each({"sharepoint_read_document"}, <<Read, Read>>)
Sharepoint == Connector(SharepointAuth, SharepointPlans, {})

(* LinkedIn: a post needs the member's id first *)
LinkedinTools == {"linkedin_me", "linkedin_create_post"}
LinkedinAuth  == Auth(TRUE, "once")
LinkedinPlans == Each({"linkedin_me"}, <<Read>>)
                 @@ Each({"linkedin_create_post"}, <<Read, Write>>)
Linkedin == Connector(LinkedinAuth, LinkedinPlans, {"linkedin_create_post"})

(* Odoo: the user's number is kept once it was looked up, and the key is sent   *)
(* with every request                                                           *)
OdooDomain == {"odoo_crm_leads", "odoo_contacts", "odoo_sale_orders", "odoo_invoices",
               "odoo_products", "odoo_project_tasks", "odoo_employees"}
OdooGeneric == {"odoo_list_models", "odoo_fields", "odoo_search_read", "odoo_create",
                "odoo_write", "odoo_unlink", "odoo_read_group", "odoo_search_count"}
OdooWrites == {"odoo_create", "odoo_write", "odoo_unlink"}
OdooAuth   == Static
OdooPlans  == Each(OdooDomain \cup (OdooGeneric \ OdooWrites), <<KeptRead, Read>>)
              @@ Each(OdooWrites, <<KeptRead, Write>>)
Odoo == Connector(OdooAuth, OdooPlans, {})

ZohoModules == {"zoho_crm_leads", "zoho_crm_contacts", "zoho_crm_accounts", "zoho_crm_deals"}
ZohoGeneric == {"zoho_crm_modules", "zoho_crm_fields", "zoho_crm_get_records",
                "zoho_crm_search", "zoho_crm_get_record", "zoho_crm_coql",
                "zoho_crm_create", "zoho_crm_update", "zoho_crm_delete"}
ZohoWrites == {"zoho_crm_create", "zoho_crm_update", "zoho_crm_delete"}
ZohoAuth   == Auth(TRUE, "once")
ZohoPlans  == Each(ZohoModules \cup (ZohoGeneric \ ZohoWrites), <<Read>>)
              @@ Each(ZohoWrites, <<Write>>)
Zoho == Connector(ZohoAuth, ZohoPlans, {})

-------------------------------------------------------------------------------
(* Remote servers: one request to the server, which lists its own tools *)
Remote == [Connector(Static, Each({"a remote tool"}, <<Write>>), {}) EXCEPT !.throws = TRUE]

(* Remote agents (A2A): the skills of the agent's card are its tools.  A skill   *)
(* is sent one message and the task it starts is asked for until it stops; the   *)
(* task's own failure is an error result, any other failure throws.              *)
AgentSkills == {"a skill"}
AgentPlans  == Each(AgentSkills, <<Write>>)       \* the answer is a message, or a task that stopped
PolledPlans == Each({"a long skill"}, <<Write, Read>>)
Agent       == [Connector(Static, AgentPlans @@ PolledPlans, {}) EXCEPT !.throws = TRUE]

-------------------------------------------------------------------------------
Installed == {Http(mode, writes) : mode \in HttpModes, writes \in BOOLEAN} \cup
             {Remote, Agent, Native, Gcp, Aws, Azure, K8s, Argocd, Jira, Confluence, Tempo,
              Testmo(FALSE), Testmo(TRUE), Gmail, Outlook, Teams, Sharepoint,
              Linkedin, Odoo, Zoho}

(* What a call of tool t of connector k does, as far as calls differ *)
Job(k, t) == [plan |-> k.plans[t], cached |-> k.auth[t].cached,
              retries |-> k.auth[t].retries, throws |-> k.throws,
              documented |-> k.gate # {}, held |-> t \in k.gate]
Jobs == UNION {{Job(k, t) : t \in DOMAIN k.plans} : k \in Installed}
=============================================================================
