----------------------------- MODULE HookPlugins -----------------------------
(* The hook plugins: at which junctions of the pipeline each looks at what      *)
(* passes, at which of them it may deny, and whether it runs from the gateway's *)
(* own code or from a stored module.  What a hook rewrites, and the patterns it *)
(* looks for, are left out.  A module of constants: ToolCall runs one hook.     *)
EXTENDS FiniteSets, Functions

(* What passes through the pipeline, and the junctions it comes to in order: the *)
(* requests of an MCP client, what a user writes in a chat, a user who signs in.  *)
(* A prompt comes to the same junctions whether it is local or a server's.        *)
ToolCalled   == <<"onToolCall", "onToolResult">>
ResourceRead == <<"onResourceRead", "onResourceResult">>
PromptGot    == <<"onPromptGet", "onPromptResult">>
Requests     == {<<"onListTools">>, <<"onListResources">>, <<"onListPrompts">>,
                 ToolCalled, ResourceRead, PromptGot}
ChatInput    == <<"onChatInput">>
ResolveUser  == <<"onResolveUser">>
Passages     == Requests \cup {ChatInput, ResolveUser}

(* At the first junction of a pair, of a chat or of a sign-in a hook may deny; at *)
(* the second and in lists it rewrites                                            *)
Points == UNION {Range(p) : p \in Passages}
Lists  == {"onListTools", "onListResources", "onListPrompts"}
Pres   == {p[1] : p \in Passages} \ Lists
Posts  == Points \ (Lists \cup Pres)

Hook(native, points, denies) ==
  [native |-> native, points |-> points, denies |-> denies, listed |-> FALSE]

-------------------------------------------------------------------------------
(* The built-in hooks *)

SecretsRedactor == Hook(TRUE, Posts, {})

(* A flagged call is denied if the plugin is set to; flagged results are rewritten *)
ContentSafety == Hook(TRUE, {"onToolCall"} \cup Posts, {"onToolCall"})

DenyListed     == {"onToolCall", "onResourceRead", "onPromptGet"}
DenyListFilter == Hook(TRUE, DenyListed \cup Posts, DenyListed)

HtmlToMarkdown == Hook(TRUE, {"onResourceResult", "onToolResult"}, {})
SafeHtml       == Hook(TRUE, {"onResourceResult", "onToolResult"}, {})
ToonEncoder    == Hook(TRUE, {"onToolResult"}, {})

(* The guard rewrites results, and definitions when they are listed *)
GuardedResults  == Posts
GuardedListings == {"onListTools"}
PromptInjectionGuard == Hook(TRUE, GuardedResults \cup GuardedListings, {})

AuditLogger  == Hook(TRUE, {"onToolCall", "onToolResult"}, {})
PiiTokenizer == Hook(TRUE, {"onToolResult", "onResourceResult", "onChatInput"}, {})

(* The approval gate looks only at the tools its configuration lists *)
ApprovalGate == [Hook(TRUE, {"onToolCall"}, {"onToolCall"}) EXCEPT !.listed = TRUE]

NativeHooks == {SecretsRedactor, ContentSafety, DenyListFilter, HtmlToMarkdown, SafeHtml,
                ToonEncoder, PromptInjectionGuard, AuditLogger, PiiTokenizer, ApprovalGate}

(* A module of user code with an object of hooks may be at any junction, and may  *)
(* deny at those before                                                           *)
UserHook == Hook(FALSE, Points, Pres)

-------------------------------------------------------------------------------
(* The steps a chain of junction point can have, as far as they differ *)
StepOf(h, point) == [native |-> h.native, point |-> point, listed |-> h.listed,
                     denies |-> point \in h.denies]
StepsAt(point) == {StepOf(h, point) : h \in {k \in NativeHooks \cup {UserHook} : point \in k.points}}
=============================================================================
