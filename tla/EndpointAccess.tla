---------------------------- MODULE EndpointAccess ----------------------------
(* Who may use which tools of which MCP endpoint.  An endpoint's row names the    *)
(* teams it is granted to, and the rows of team_server_tools narrow a team to     *)
(* some of its tools, where no row means all.  Consumers (requests of MCP clients *)
(* and chat turns) read the two one statement after the other, while              *)
(* administrators grant, revoke, edit, clone and delete.                          *)
EXTENDS Naturals

CONSTANTS
  Endpoints,     \* virtual_servers ids
  Teams,         \* team ids
  Tools,         \* tool ids of the registry
  Consumers,     \* what one caller does: requests to an endpoint, chat turns
  Admins,        \* administrators' requests that may overlap
  Forms,         \* what the endpoint's page may save
  Access         \* the scenarios: the rows there are at first, and the bounds on
                 \* edits and on edits that stop halfway

PageForms == [access : {"public", "authenticated", "restricted"}, teams : SUBSET Teams,
              tools : SUBSET Tools, enabled : BOOLEAN]
Rows == [state : {"never", "here", "gone"}, access : {"public", "authenticated", "restricted"},
         teams : SUBSET Teams, tools : SUBSET Tools, enabled : BOOLEAN]

(* An endpoint that is yet to come has neither grants nor subsets *)
ASSUME AccessConstants ==
  /\ Forms \subseteq PageForms
  /\ Access \subseteq [endpoint : [Endpoints -> Rows], subset : [Teams -> [Endpoints -> SUBSET Tools]],
                       member : SUBSET Teams, consumers : SUBSET Consumers,
                       edits : Nat, stops : Nat, admin : BOOLEAN]
  /\ \A start \in Access, e \in Endpoints :
       start.endpoint[e].state = "never" =>
         start.endpoint[e].teams = {} /\ \A t \in Teams : start.subset[t][e] = {}

VARIABLES
  endpoint,      \* endpoint[e]: the row of virtual_servers; ids are not used again
  subset,        \* subset[t][e]: the tools of team_server_tools
  team,          \* the teams there are
  member,        \* the teams the caller is a member of
  use,           \* use[c]: what the consumer has read, and what it is served
  edit,          \* edit[a]: an administrator's request
  want,          \* what the edits that ended have granted, for the properties
  access         \* the scenario, its bounds used so far, and whether an edit
                 \* damaged another or stopped halfway

accessVars == <<endpoint, subset, team, member, use, edit, want, access>>

NoForm == [access |-> "restricted", teams |-> {}, tools |-> {}, enabled |-> FALSE]
Row(state, form) == [state |-> state, access |-> form.access, teams |-> form.teams,
                     tools |-> form.tools, enabled |-> form.enabled]
NoRow == Row("never", NoForm)
NoRows == [e \in {} |-> NoRow]

NoUse == [at |-> "idle", kind |-> "mcp", teams |-> {}, es |-> {}, rows |-> NoRows,
          ask |-> {}, open |-> {}, some |-> {}, tools |-> {}, owed |-> {}, calm |-> TRUE]
NoEdit == [at |-> "idle", kind |-> "none", t |-> "none", e |-> "none", into |-> "none",
           pick |-> {}, rows |-> NoRows, teams |-> {}, tools |-> {}, wrote |-> FALSE]

AccessInit ==
  /\ access \in [start : Access, edits : {0}, stops : {0}, damaged : {FALSE}]
  /\ endpoint = access.start.endpoint
  /\ subset = access.start.subset
  /\ team = Teams
  /\ member = access.start.member
  /\ use = [c \in Consumers |-> NoUse]
  /\ edit = [a \in Admins |-> NoEdit]
  /\ want = [teams |-> [e \in Endpoints |-> endpoint[e].teams], tools |-> subset]

-------------------------------------------------------------------------------
(* The two levels *)

Serves(vs) == vs.state = "here" /\ vs.enabled

(* canConsumeMcpEndpoint: by team membership only *)
MayConsume(vs, teams) == vs.access = "restricted" => vs.teams \cap teams # {}

(* allowedToolIdsForUser asks for the subset of each granting team, but not for  *)
(* an administrator's: he has the whole endpoint                                 *)
Granting(vs, teams) == IF access.start.admin THEN {} ELSE vs.teams \cap teams

(* What a member of these teams is to have of e, by the edits that ended *)
Due(e, teams) ==
  LET vs == endpoint[e]
      granting == want.teams[e] \cap teams
      given(t) == IF want.tools[t][e] = {} THEN vs.tools ELSE want.tools[t][e]
  IN IF ~Serves(vs) \/ (vs.access = "restricted" /\ granting = {}) THEN {}
     ELSE IF access.start.admin \/ granting = {} THEN vs.tools
     ELSE vs.tools \cap UNION {given(t) : t \in granting}

-------------------------------------------------------------------------------
(* Consumers *)

Settled == ~access.damaged /\ \A a \in Admins : ~edit[a].wrote
Uses(c, u) == use' = [use EXCEPT ![c] = u]

(* The end: of each endpoint that was not refused its tools, or those its        *)
(* granting teams name                                                           *)
Given(u, e) == IF e \in u.open THEN u.rows[e].tools ELSE {x \in u.rows[e].tools : <<e, x>> \in u.some}
Ends(c, u, at) ==
  Uses(c, [u EXCEPT !.at = at, !.ask = {}, !.open = {}, !.some = {}, !.rows = NoRows,
                    !.tools = UNION {Given(u, e) : e \in DOMAIN u.rows},
                    !.owed = UNION {Due(e, u.teams) : e \in u.es}])
Refused(c, u) == Ends(c, [u EXCEPT !.rows = NoRows], "refused")

(* From here on the consumer asks the granting teams of what it may consume for  *)
(* their subsets, if there are any                                               *)
Narrows(c, u) ==
  LET ask == UNION {{<<e, t>> : t \in Granting(u.rows[e], u.teams)} : e \in DOMAIN u.rows}
      open == {e \in DOMAIN u.rows : \A t \in Teams : <<e, t>> \notin ask}
  IN IF ask = {} THEN Ends(c, [u EXCEPT !.open = open], "served")
     ELSE Uses(c, [u EXCEPT !.at = "narrow", !.ask = ask, !.open = open])

(* serverToolSubset of one team: no row gives the whole endpoint *)
ReadSubset(c) ==
  LET u == use[c] IN
  /\ u.at = "narrow"
  /\ \E e \in Endpoints, t \in Teams :
       /\ <<e, t>> \in u.ask
       /\ LET s == subset[t][e]
              left == IF s = {} THEN {q \in u.ask : q[1] # e} ELSE u.ask \ {<<e, t>>}
              k == [u EXCEPT !.ask = left, !.open = IF s = {} THEN @ \cup {e} ELSE @,
                             !.some = @ \cup {<<e, x>> : x \in s}]
          IN IF left = {} THEN Ends(c, k, "served") ELSE Uses(c, k)
  /\ UNCHANGED <<endpoint, subset, team, member, edit, want, access>>

(* A request to an endpoint: its row, the caller unless it is public, the row    *)
(* again for the tools in scope, and the subsets by the row read first           *)
LookUp(c, e) ==
  /\ use[c].at = "idle"
  /\ LET vs == endpoint[e]
         u == [NoUse EXCEPT !.es = {e}, !.calm = Settled, !.rows = [d \in {e} |-> vs]]
     IN IF ~Serves(vs) THEN Refused(c, u)
        ELSE Uses(c, [u EXCEPT !.at = IF vs.access = "public" THEN "scope" ELSE "caller"])
  /\ UNCHANGED <<endpoint, subset, team, member, edit, want, access>>

Authenticate(c) ==
  /\ use[c].at = "caller"
  /\ \E e \in use[c].es :
       LET u == [use[c] EXCEPT !.teams = member] IN
       IF MayConsume(u.rows[e], member) THEN Uses(c, [u EXCEPT !.at = "scope"]) ELSE Refused(c, u)
  /\ UNCHANGED <<endpoint, subset, team, member, edit, want, access>>

BuildScope(c) ==
  /\ use[c].at = "scope"
  /\ \E e \in use[c].es :
       LET vs == [use[c].rows[e] EXCEPT !.tools = endpoint[e].tools] IN
       IF Serves(endpoint[e]) THEN Narrows(c, [use[c] EXCEPT !.rows = [d \in {e} |-> vs]])
       ELSE Refused(c, use[c])
  /\ UNCHANGED <<endpoint, subset, team, member, edit, want, access>>

(* A chat turn acts with the teams the caller had when he was authenticated      *)
SignIn(c) ==
  /\ use[c].at = "idle"
  /\ Uses(c, [NoUse EXCEPT !.at = "turn", !.kind = "turn", !.teams = member])
  /\ UNCHANGED <<endpoint, subset, team, member, edit, want, access>>

(* resolveTools: the tools of the conversation's endpoint, which must not be     *)
(* refused; one that is gone or disabled offers none                             *)
ResolveTools(c, e) ==
  /\ use[c].at = "turn"
  /\ LET vs == endpoint[e]
         u == [use[c] EXCEPT !.es = {e}, !.calm = Settled, !.rows = [d \in {e} |-> vs]]
     IN CASE ~Serves(vs) -> Ends(c, [u EXCEPT !.rows = NoRows], "served")
          [] Serves(vs) /\ ~MayConsume(vs, u.teams) -> Refused(c, u)
          [] OTHER -> Narrows(c, u)
  /\ UNCHANGED <<endpoint, subset, team, member, edit, want, access>>

(* listAvailableTools: the pinned tools of a project or an agent, by whichever   *)
(* endpoint the caller may consume                                               *)
ResolvePinned(c) ==
  /\ use[c].at = "turn"
  /\ LET mine == {e \in Endpoints : Serves(endpoint[e]) /\ MayConsume(endpoint[e], use[c].teams)}
     IN Narrows(c, [use[c] EXCEPT !.es = Endpoints, !.calm = Settled,
                                  !.rows = [e \in mine |-> endpoint[e]]])
  /\ UNCHANGED <<endpoint, subset, team, member, edit, want, access>>

-------------------------------------------------------------------------------
(* Administrators *)

Open(a, k) ==
  /\ edit[a].at = "idle"
  /\ access.edits < access.start.edits
  /\ access' = [access EXCEPT !.edits = @ + 1]
  /\ edit' = [edit EXCEPT ![a] = k]
  /\ UNCHANGED <<endpoint, subset, team, member, use, want>>

EditAt(a, kind, at) == edit[a].kind = kind /\ edit[a].at = at
Goes(a, k) == edit' = [edit EXCEPT ![a] = k]
Answers(a) == Goes(a, NoEdit)
Reads == UNCHANGED <<endpoint, subset, team, member, use, want, access>>

(* A statement that writes: consumers under way may see it, and it damages an    *)
(* edit that is half written or that it overwrites by what was read before       *)
Writes(a, stale) ==
  /\ use' = [c \in Consumers |-> [use[c] EXCEPT !.calm = FALSE]]
  /\ access' = [access EXCEPT !.damaged = @ \/ stale \/ \E b \in Admins \ {a} : edit[b].wrote]
Half(a, at) == [edit[a] EXCEPT !.at = at, !.wrote = TRUE]

(* PUT /api/teams/:id/servers/:vsId: the team, the endpoint, then allowed_teams  *)
(* as a whole, which also restricts the endpoint                                 *)
Grant(a, t, e, kind, pick) ==
  Open(a, [NoEdit EXCEPT !.at = "team", !.kind = kind, !.t = t, !.e = e, !.into = e, !.pick = pick])
Grants(a) == edit[a].kind \in {"grant", "revoke"}

GrantTeam(a) ==
  /\ Grants(a) /\ edit[a].at = "team"
  /\ IF edit[a].t \in team THEN Goes(a, [edit[a] EXCEPT !.at = "read"]) ELSE Answers(a)
  /\ Reads

GrantRead(a) ==
  /\ Grants(a) /\ edit[a].at = "read"
  /\ LET vs == endpoint[edit[a].e]
     IN IF vs.state = "here"
        THEN Goes(a, [edit[a] EXCEPT !.at = "update", !.rows = [e \in {edit[a].e} |-> vs],
                                     !.tools = @ \cup (edit[a].pick \cap vs.tools)])
        ELSE Answers(a)
  /\ Reads

GrantUpdate(a) ==
  /\ Grants(a) /\ edit[a].at = "update"
  /\ LET e == edit[a].e
         vs == edit[a].rows[e]
         teams == IF edit[a].kind = "grant" THEN vs.teams \cup {edit[a].t} ELSE vs.teams \ {edit[a].t}
         restricts == edit[a].kind = "grant" /\ vs.access # "restricted"
     IN /\ endpoint' = IF endpoint[e].state # "here" THEN endpoint
                       ELSE [endpoint EXCEPT ![e] =
                               [@ EXCEPT !.teams = teams,
                                         !.access = IF restricts THEN "restricted" ELSE endpoint[e].access]]
        /\ Goes(a, Half(a, "clear"))
        /\ Writes(a, endpoint[e] # vs)
  /\ UNCHANGED <<subset, team, member, want>>

(* What the edit has granted once it is over *)
Granted(a) ==
  LET k == edit[a] IN
  IF k.kind = "clone"
  THEN [teams |-> [want.teams EXCEPT ![k.into] = want.teams[k.e]],
        tools |-> [t \in Teams |-> [want.tools[t] EXCEPT ![k.into] =
                                      IF t \in want.teams[k.e] THEN want.tools[t][k.e] ELSE {}]]]
  ELSE [teams |-> [want.teams EXCEPT ![k.e] = IF k.kind = "grant" THEN @ \cup {k.t} ELSE @ \ {k.t}],
        tools |-> [want.tools EXCEPT ![k.t][k.e] = k.pick \cap k.rows[k.e].tools]]

(* setServerToolSubset: the rows are deleted and inserted again one by one; of a *)
(* clone the next team's follow                                                  *)
KeepsSubset(s) == s
ClearsSubset(s) == {}
AfterSubset(a) ==
  IF edit[a].kind = "clone" /\ edit[a].teams # {}
  THEN Goes(a, Half(a, "copyNext")) /\ UNCHANGED want
  ELSE Answers(a) /\ want' = Granted(a)

ClearSubset(a) ==
  LET k == edit[a] IN
  /\ k.at = "clear"
  /\ subset' = [subset EXCEPT ![k.t][k.into] = ClearsSubset(@)]
  /\ IF k.tools = {} THEN AfterSubset(a) ELSE Goes(a, Half(a, "insert")) /\ UNCHANGED want
  /\ Writes(a, FALSE)
  /\ UNCHANGED <<endpoint, team, member>>

(* A row that is there already fails the request *)
InsertSubset(a) ==
  LET k == edit[a] IN
  /\ k.at = "insert"
  /\ \E x \in k.tools :
       IF x \in subset[k.t][k.into]
       THEN Answers(a) /\ Writes(a, TRUE) /\ UNCHANGED <<subset, want>>
       ELSE /\ subset' = [subset EXCEPT ![k.t][k.into] = @ \cup {x}]
            /\ IF k.tools = {x} THEN AfterSubset(a)
               ELSE Goes(a, [Half(a, "insert") EXCEPT !.tools = @ \ {x}]) /\ UNCHANGED want
            /\ Writes(a, FALSE)
  /\ UNCHANGED <<endpoint, team, member>>

(* DELETE /api/teams/:id: the team leaves every endpoint that was listed with it, *)
(* all at once, then its members, subsets and row are deleted                    *)
DeleteTeam(a, t) == Open(a, [NoEdit EXCEPT !.at = "list", !.kind = "deleteTeam", !.t = t])

ListEndpoints(a) ==
  /\ EditAt(a, "deleteTeam", "list")
  /\ LET listed == {e \in Endpoints : endpoint[e].state = "here" /\ edit[a].t \in endpoint[e].teams}
     IN Goes(a, [edit[a] EXCEPT !.at = IF listed = {} THEN "members" ELSE "strip",
                                !.rows = [e \in listed |-> endpoint[e]]])
  /\ Reads

StripTeam(a) ==
  LET k == edit[a] IN
  /\ EditAt(a, "deleteTeam", "strip")
  /\ \E e \in DOMAIN k.rows :
       LET left == DOMAIN k.rows \ {e} IN
       /\ endpoint' = IF endpoint[e].state # "here" THEN endpoint
                      ELSE [endpoint EXCEPT ![e].teams = k.rows[e].teams \ {k.t}]
       /\ Writes(a, endpoint[e].teams # k.rows[e].teams)
       /\ Goes(a, [Half(a, IF left = {} THEN "members" ELSE "strip")
                     EXCEPT !.rows = [d \in left |-> k.rows[d]]])
  /\ UNCHANGED <<subset, team, member, want>>

DropMembers(a) ==
  /\ EditAt(a, "deleteTeam", "members")
  /\ member' = member \ {edit[a].t}
  /\ Goes(a, Half(a, "subsets"))
  /\ Writes(a, FALSE)
  /\ UNCHANGED <<endpoint, subset, team, want>>

DropSubsets(a) ==
  /\ EditAt(a, "deleteTeam", "subsets")
  /\ subset' = [subset EXCEPT ![edit[a].t] = [e \in Endpoints |-> {}]]
  /\ Goes(a, Half(a, "row"))
  /\ Writes(a, FALSE)
  /\ UNCHANGED <<endpoint, team, member, want>>

DropTeam(a) ==
  /\ EditAt(a, "deleteTeam", "row")
  /\ team' = team \ {edit[a].t}
  /\ want' = [teams |-> [e \in Endpoints |-> want.teams[e] \ {edit[a].t}],
              tools |-> [want.tools EXCEPT ![edit[a].t] = [e \in Endpoints |-> {}]]]
  /\ Answers(a)
  /\ Writes(a, \E e \in Endpoints : edit[a].t \in endpoint[e].teams)
  /\ UNCHANGED <<endpoint, subset, member>>

(* Membership: the row is replaced, or deleted *)
AddMember(a, t) == Open(a, [NoEdit EXCEPT !.at = "team", !.kind = "addMember", !.t = t])
RemoveMember(a, t) == Open(a, [NoEdit EXCEPT !.at = "leave", !.kind = "removeMember", !.t = t])

MemberTeam(a) ==
  /\ EditAt(a, "addMember", "team")
  /\ IF edit[a].t \in team THEN Goes(a, [edit[a] EXCEPT !.at = "leave"]) ELSE Answers(a)
  /\ Reads

LeaveTeam(a) ==
  /\ edit[a].at = "leave"
  /\ member' = member \ {edit[a].t}
  /\ IF edit[a].kind = "addMember" THEN Goes(a, Half(a, "join")) ELSE Answers(a)
  /\ Writes(a, FALSE)
  /\ UNCHANGED <<endpoint, subset, team, want>>

JoinTeam(a) ==
  /\ EditAt(a, "addMember", "join")
  /\ member' = member \cup {edit[a].t}
  /\ Answers(a)
  /\ Writes(a, FALSE)
  /\ UNCHANGED <<endpoint, subset, team, want>>

(* The endpoint's page saves the whole form in one statement, for a new endpoint *)
(* or an old one                                                                 *)
Save(a, e, form) ==
  /\ edit[a].at = "idle"
  /\ access.edits < access.start.edits
  /\ endpoint[e].state # "gone"
  /\ endpoint' = [endpoint EXCEPT ![e] = Row("here", form)]
  /\ want' = [want EXCEPT !.teams[e] = form.teams]
  /\ use' = [c \in Consumers |-> [use[c] EXCEPT !.calm = FALSE]]
  /\ access' = [access EXCEPT !.edits = @ + 1,
                              !.damaged = @ \/ \E b \in Admins : edit[b].wrote]
  /\ UNCHANGED <<subset, team, member, edit>>

(* DELETE /api/mcp-endpoints/:id: the subsets, then the row *)
DeleteEndpoint(a, e) == Open(a, [NoEdit EXCEPT !.at = "subsets", !.kind = "deleteEndpoint", !.e = e])

DropGrants(a) ==
  /\ EditAt(a, "deleteEndpoint", "subsets")
  /\ subset' = [t \in Teams |-> [subset[t] EXCEPT ![edit[a].e] = {}]]
  /\ Goes(a, Half(a, "row"))
  /\ Writes(a, FALSE)
  /\ UNCHANGED <<endpoint, team, member, want>>

DropEndpoint(a) ==
  LET e == edit[a].e IN
  /\ EditAt(a, "deleteEndpoint", "row")
  /\ endpoint' = [endpoint EXCEPT ![e] = Row("gone", NoForm)]
  /\ want' = [teams |-> [want.teams EXCEPT ![e] = {}],
              tools |-> [t \in Teams |-> [want.tools[t] EXCEPT ![e] = {}]]]
  /\ Answers(a)
  /\ Writes(a, FALSE)
  /\ UNCHANGED <<subset, team, member>>

(* POST /api/mcp-endpoints/:id/clone: a disabled copy, then the subset of each   *)
(* team that has one                                                             *)
Clone(a, e) == Open(a, [NoEdit EXCEPT !.at = "source", !.kind = "clone", !.e = e])

CloneRead(a) ==
  /\ EditAt(a, "clone", "source")
  /\ LET vs == endpoint[edit[a].e]
     IN IF vs.state = "here"
        THEN Goes(a, [edit[a] EXCEPT !.at = "copy", !.rows = [e \in {edit[a].e} |-> vs]])
        ELSE Answers(a)
  /\ Reads

CloneRow(a) ==
  LET vs == edit[a].rows[edit[a].e] IN
  /\ EditAt(a, "clone", "copy")
  /\ \E into \in Endpoints :
       /\ endpoint[into].state = "never"
       /\ endpoint' = [endpoint EXCEPT ![into] = [vs EXCEPT !.enabled = FALSE]]
       /\ IF vs.teams = {} THEN Answers(a)
          ELSE Goes(a, [Half(a, "copyNext") EXCEPT !.into = into, !.teams = vs.teams])
  /\ Writes(a, endpoint[edit[a].e] # vs)
  /\ UNCHANGED <<subset, team, member, want>>

CloneSubset(a) ==
  LET k == edit[a] IN
  /\ EditAt(a, "clone", "copyNext")
  /\ \E t \in k.teams :
       LET s == subset[t][k.e]
           k2 == [k EXCEPT !.t = t, !.teams = @ \ {t}, !.tools = s]
       IN CASE s # {} -> Goes(a, [k2 EXCEPT !.at = "clear"]) /\ UNCHANGED want
            [] s = {} /\ k2.teams # {} -> Goes(a, k2) /\ UNCHANGED want
            [] OTHER -> Answers(a) /\ want' = Granted(a)
  /\ UNCHANGED <<endpoint, subset, team, member, use, access>>

(* A statement fails, or the replica dies: what was done stays done *)
Stops(a) ==
  /\ edit[a].at # "idle"
  /\ access.stops < access.start.stops
  /\ access' = [access EXCEPT !.stops = @ + 1, !.damaged = @ \/ edit[a].wrote]
  /\ Answers(a)
  /\ UNCHANGED <<endpoint, subset, team, member, use, want>>

-------------------------------------------------------------------------------
Consume(c) ==
  \/ \E e \in Endpoints : LookUp(c, e) \/ ResolveTools(c, e)
  \/ Authenticate(c) \/ BuildScope(c) \/ SignIn(c) \/ ResolvePinned(c) \/ ReadSubset(c)

Administer(a) ==
  \/ \E t \in Teams : \/ DeleteTeam(a, t) \/ AddMember(a, t) \/ RemoveMember(a, t)
                      \/ \E e \in Endpoints : \/ Grant(a, t, e, "revoke", {})
                                              \/ \E pick \in SUBSET Tools : Grant(a, t, e, "grant", pick)
  \/ \E e \in Endpoints : \/ DeleteEndpoint(a, e) \/ Clone(a, e)
                          \/ \E form \in Forms : Save(a, e, form)
  \/ GrantTeam(a) \/ GrantRead(a) \/ GrantUpdate(a) \/ ClearSubset(a) \/ InsertSubset(a)
  \/ ListEndpoints(a) \/ StripTeam(a) \/ DropMembers(a) \/ DropSubsets(a) \/ DropTeam(a)
  \/ MemberTeam(a) \/ LeaveTeam(a) \/ JoinTeam(a)
  \/ DropGrants(a) \/ DropEndpoint(a) \/ CloneRead(a) \/ CloneRow(a) \/ CloneSubset(a)
  \/ Stops(a)

-------------------------------------------------------------------------------
(* A consumer is served exactly the tools of the endpoint that are granted to    *)
(* its caller's teams, however many edits, of grants, teams, members, endpoints  *)
(* and clones, came before or while it was between authentication and its first  *)
(* read: unless an edit writes while it reads, or two edits crossed, or one      *)
(* stopped halfway.                                                              *)
ServedAsGranted ==
  \A c \in Consumers :
    use[c].at \in {"served", "refused"} /\ use[c].calm => use[c].tools = use[c].owed
=============================================================================
