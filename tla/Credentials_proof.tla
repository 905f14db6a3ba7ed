-------------------------- MODULE Credentials_proof --------------------------
(***************************************************************************)
(* Proofs about what a start of the gateway ends with (Boot: the schema    *)
(* that Migrations leaves, for any releases, databases, dialects and       *)
(* crashes, and the key its secrets are stored under, KeyManager, for any  *)
(* providers, DEKs, secrets and changes of the configuration, both for any *)
(* number of replicas) and about the codes and tokens it then issues       *)
(* (OAuthServer, for any number of users, consents, codes, tokens,         *)
(* concurrent requests and failures).                                      *)
(***************************************************************************)
EXTENDS Boot, OAuthServer, FiniteSetTheorems, TLAPS

-----------------------------------------------------------------------------
(* The key set.                                                            *)

LEMMA KeyInitInv == KeyInit => KeyInv
<1>. SUFFICES ASSUME KeyInit PROVE KeyInv
  OBVIOUS
<1>. USE KeyConstants DEF KeyInit
<1>1. KeyTypes
  BY DEF KeyTypes
<1>2. BootsFollowKeyring /\ ReplicasAgree /\ SecretsRecoverable
  BY DEF BootsFollowKeyring, ReplicasAgree, SecretsRecoverable, UpWithKms, Booting
<1>. QED BY <1>1, <1>2 DEF KeyInv

\* Every step keeps the types.
LEMMA KeyTypeStep == KeyTypes /\ BootsFollowKeyring /\ [KeyNext]_keyVars => KeyTypes'
<1>. SUFFICES ASSUME KeyTypes, BootsFollowKeyring, [KeyNext]_keyVars PROVE KeyTypes'
  OBVIOUS
<1>. USE KeyConstants DEF KeyTypes, BootGoes, Booting, Wrapped, BootsFollowKeyring
<1>1. CASE Reconfigure
  BY <1>1 DEF Reconfigure
<1>2. ASSUME NEW r \in Replicas, Boot(r) PROVE KeyTypes'
  BY <1>2 DEF Boot
<1>3. ASSUME NEW r \in Replicas, ReadKeyring(r) PROVE KeyTypes'
  BY <1>3 DEF ReadKeyring
<1>4. ASSUME NEW r \in Replicas, Wrap(r) PROVE KeyTypes'
  BY <1>4 DEF Wrap
<1>5. ASSUME NEW r \in Replicas, Insert(r) PROVE KeyTypes'
  BY <1>5 DEF Insert, InsertRow
<1>6. ASSUME NEW r \in Replicas, InsertFault(r) PROVE KeyTypes'
  BY <1>6 DEF InsertFault
<1>7. ASSUME NEW r \in Replicas, Reread(r) PROVE KeyTypes'
  BY <1>7 DEF Reread, AfterConflict
<1>8. ASSUME NEW r \in Replicas, Unwrap(r) PROVE KeyTypes'
  BY <1>8 DEF Unwrap
<1>9. ASSUME NEW r \in Replicas, Stop(r) PROVE KeyTypes'
  BY <1>9 DEF Stop
<1>10. ASSUME NEW r \in Replicas, NEW s \in Secrets, Save(r, s) PROVE KeyTypes'
  BY <1>10 DEF Save, ActiveKey
<1>11. CASE UNCHANGED keyVars
  BY <1>11 DEF keyVars
<1>. QED BY <1>1, <1>2, <1>3, <1>4, <1>5, <1>6, <1>7, <1>8, <1>9, <1>10, <1>11 DEF KeyNext

\* Nothing replaces the keyring row, whatever the state.
LEMMA KeyringStep == [KeyNext]_keyVars => (keyring # NoKey => keyring' = keyring)
<1>. SUFFICES ASSUME [KeyNext]_keyVars, keyring # NoKey PROVE keyring' = keyring
  OBVIOUS
<1>1. CASE Reconfigure
  BY <1>1 DEF Reconfigure
<1>2. ASSUME NEW r \in Replicas, Insert(r) \/ InsertFault(r) PROVE keyring' = keyring
  BY <1>2 DEF Insert, InsertRow, InsertFault
<1>3. ASSUME NEW r \in Replicas,
             \/ Boot(r) \/ ReadKeyring(r) \/ Wrap(r) \/ Reread(r) \/ Unwrap(r) \/ Stop(r)
             \/ \E s \in Secrets : Save(r, s)
      PROVE  keyring' = keyring
  BY <1>3 DEF Boot, ReadKeyring, Wrap, Reread, Unwrap, Stop, Save
<1>4. CASE UNCHANGED keyVars
  BY <1>4 DEF keyVars
<1>. QED BY <1>1, <1>2, <1>3, <1>4 DEF KeyNext

\* The boots and the replicas that are up follow the row.
LEMMA BootStep ==
  KeyInv /\ [KeyNext]_keyVars => BootsFollowKeyring' /\ ReplicasAgree'
<1>. SUFFICES ASSUME KeyInv, [KeyNext]_keyVars
              PROVE  BootsFollowKeyring' /\ ReplicasAgree'
  OBVIOUS
<1>. USE KeyConstants DEF KeyInv, KeyTypes, BootsFollowKeyring, ReplicasAgree, UpWithKms,
       BootGoes, Booting, Wrapped
<1>1. CASE Reconfigure
  BY <1>1 DEF Reconfigure
<1>2. ASSUME NEW r \in Replicas, Boot(r) PROVE BootsFollowKeyring' /\ ReplicasAgree'
  BY <1>2 DEF Boot
<1>3. ASSUME NEW r \in Replicas, ReadKeyring(r) PROVE BootsFollowKeyring' /\ ReplicasAgree'
  BY <1>3 DEF ReadKeyring
<1>4. ASSUME NEW r \in Replicas, Wrap(r) PROVE BootsFollowKeyring' /\ ReplicasAgree'
  BY <1>4 DEF Wrap
<1>5. ASSUME NEW r \in Replicas, Insert(r) PROVE BootsFollowKeyring' /\ ReplicasAgree'
  <2>1. CASE keyring = NoKey
    <3>1. /\ keyring' = [provider |-> env[r], dek |-> dek[r]]
          /\ pc' = [pc EXCEPT ![r] = "up"]
          /\ UNCHANGED <<env, dek, wrapped>>
      BY <1>5, <2>1 DEF Insert, InsertRow
    <3>2. keyring'.provider = env[r] /\ keyring'.dek = dek[r] /\ keyring' # NoKey
      <4>1. env[r] \in Providers /\ dek[r] \in Deks
        BY <1>5 DEF Insert
      <4>. QED BY <3>1, <4>1
    <3>3. ASSUME NEW q \in Replicas, q # r PROVE ~UpWithKms(q) /\ pc[q] # "unwrap"
      BY <2>1
    <3>4. pc'[r] = "up" /\ \A q \in Replicas : q # r => pc'[q] = pc[q]
      BY <3>1
    <3>5. ASSUME NEW q \in Replicas, UpWithKms(q)' PROVE q = r
      BY <3>1, <3>3, <3>4, <3>5
    <3>6. ReplicasAgree'
      BY <3>1, <3>2, <3>5
    <3>7. BootsFollowKeyring'
      BY <3>1, <3>2, <3>3, <3>4, <3>5
    <3>. QED BY <3>6, <3>7
  <2>2. CASE keyring # NoKey
    BY <1>5, <2>2 DEF Insert, InsertRow
  <2>. QED BY <2>1, <2>2
<1>6. ASSUME NEW r \in Replicas, InsertFault(r) PROVE BootsFollowKeyring' /\ ReplicasAgree'
  BY <1>6 DEF InsertFault
<1>7. ASSUME NEW r \in Replicas, Reread(r) PROVE BootsFollowKeyring' /\ ReplicasAgree'
  BY <1>7 DEF Reread, AfterConflict
<1>8. ASSUME NEW r \in Replicas, Unwrap(r) PROVE BootsFollowKeyring' /\ ReplicasAgree'
  BY <1>8 DEF Unwrap
<1>9. ASSUME NEW r \in Replicas, Stop(r) PROVE BootsFollowKeyring' /\ ReplicasAgree'
  BY <1>9 DEF Stop
<1>10. ASSUME NEW r \in Replicas, NEW s \in Secrets, Save(r, s)
       PROVE  BootsFollowKeyring' /\ ReplicasAgree'
  BY <1>10 DEF Save
<1>11. CASE UNCHANGED keyVars
  BY <1>11 DEF keyVars
<1>. QED BY <1>1, <1>2, <1>3, <1>4, <1>5, <1>6, <1>7, <1>8, <1>9, <1>10, <1>11 DEF KeyNext

\* What is stored is under the bootstrap key or under the keyring's DEK.
LEMMA SecretStep == KeyInv /\ [KeyNext]_keyVars => SecretsRecoverable'
<1>1. ASSUME KeyInv, [KeyNext]_keyVars PROVE SecretsRecoverable'
  <2>1. KeyTypes' /\ BootsFollowKeyring' /\ ReplicasAgree'
    BY <1>1, KeyTypeStep, BootStep DEF KeyInv
  <2>2. ASSUME NEW t \in Secrets, value'[t] \in Deks
        PROVE  keyring' # NoKey /\ value'[t] = keyring'.dek
    <3>1. CASE value'[t] = value[t]
      BY <1>1, <2>2, <3>1, KeyringStep DEF KeyInv, SecretsRecoverable
    <3>2. CASE value'[t] # value[t]
      <4>1. value' # value
        BY <3>2
      <4>2. PICK r \in Replicas, s \in Secrets : Save(r, s)
        BY <1>1, <4>1 DEF KeyNext, keyVars, Reconfigure, Boot, ReadKeyring, Wrap, Insert,
          InsertFault, Reread, Unwrap, Stop
      <4>3. value'[t] = ActiveKey(r) /\ keyring' = keyring /\ pc[r] = "up"
        BY <1>1, <3>2, <4>2 DEF Save, KeyInv, KeyTypes
      <4>4. env[r] # NoKey
        BY <2>2, <4>3, KeyConstants DEF ActiveKey
      <4>. QED BY <1>1, <4>3, <4>4 DEF KeyInv, ReplicasAgree, UpWithKms, ActiveKey
    <3>. QED BY <3>1, <3>2
  <2>3. ASSUME NEW r \in Replicas, NEW t \in Secrets, UpWithKms(r)'
        PROVE  CanRead(r, t)'
    BY <2>1, <2>2, <2>3 DEF ReplicasAgree, UpWithKms, CanRead, Readers, ActiveKey, KeyTypes
  <2>. QED BY <2>2, <2>3 DEF SecretsRecoverable
<1>. QED BY <1>1

LEMMA KeyInvStep == KeyInv /\ [KeyNext]_keyVars => KeyInv'
BY KeyTypeStep, BootStep, SecretStep DEF KeyInv

\* The keyring, the boots and the stored secrets stay in step, for any
\* interleaving of boots, faults, crashes and configuration changes.
THEOREM KeyInvariance == KeySpec => []KeyInv
<1>1. KeyInit => KeyInv
  BY KeyInitInv
<1>2. KeyInv /\ [KeyNext]_keyVars => KeyInv'
  BY KeyInvStep
<1>. QED BY <1>1, <1>2, PTL DEF KeySpec

\* Replicas that run under a KMS hold the DEK of the keyring, all of them.
THEOREM Agreement == KeySpec => []ReplicasAgree
<1>1. KeyInv => ReplicasAgree
  BY DEF KeyInv
<1>. QED BY <1>1, KeyInvariance, PTL

\* A stored secret never becomes unreadable for a replica under the KMS.
THEOREM Recoverability == KeySpec => []SecretsRecoverable
<1>1. KeyInv => SecretsRecoverable
  BY DEF KeyInv
<1>. QED BY <1>1, KeyInvariance, PTL

\* The keyring row is never replaced.
THEOREM KeyringPermanence == KeySpec => KeyringIsForever
<1>1. [KeyNext]_keyVars => [keyring # NoKey => keyring' = keyring]_keyVars
  BY KeyringStep
<1>. QED BY <1>1, PTL DEF KeySpec, KeyringIsForever

-----------------------------------------------------------------------------
(* The migrations: what their statements are.                              *)

\* A migration is a sequence of statements.
Listed(M) == M \in Seq({M[i] : i \in DOMAIN M})

LEMMA Numbered ==
  /\ Len(MIGRATIONS) = 36
  /\ MIGRATIONS[1] = initial /\ MIGRATIONS[2] = projectDocs /\ MIGRATIONS[3] = attachments
  /\ MIGRATIONS[4] = oauth /\ MIGRATIONS[5] = teamServerTools /\ MIGRATIONS[6] = userDisabled
  /\ MIGRATIONS[7] = pipelineSteps /\ MIGRATIONS[8] = pipelineScope /\ MIGRATIONS[9] = pipelineOptIn
  /\ MIGRATIONS[10] = auditLog /\ MIGRATIONS[11] = appKeyring /\ MIGRATIONS[12] = serverOAuth
  /\ MIGRATIONS[13] = serverOAuthOperatorConfig /\ MIGRATIONS[14] = serverTls
  /\ MIGRATIONS[15] = sessions /\ MIGRATIONS[16] = toolFingerprints /\ MIGRATIONS[17] = toolApprovals
  /\ MIGRATIONS[18] = usageCounters /\ MIGRATIONS[19] = pluginInstanceConfig
  /\ MIGRATIONS[20] = chatModelContent /\ MIGRATIONS[21] = chatProjectMembers
  /\ MIGRATIONS[22] = chatSchedules /\ MIGRATIONS[23] = chatUserPrompts
  /\ MIGRATIONS[24] = chatConversationTags /\ MIGRATIONS[25] = chatMemory
  /\ MIGRATIONS[26] = chatAssistants /\ MIGRATIONS[27] = chatConversationAssistant
  /\ MIGRATIONS[28] = chatConversationFlags /\ MIGRATIONS[29] = chatConversationWebSearch
  /\ MIGRATIONS[30] = chatProjectTools /\ MIGRATIONS[31] = chatAgents
  /\ MIGRATIONS[32] = chatProjectDefaultModel /\ MIGRATIONS[33] = chatConversationAgent
  /\ MIGRATIONS[34] = auditFilterIndexes /\ MIGRATIONS[35] = a2aTasks
  /\ MIGRATIONS[36] = chatScheduleAgent
BY DEF MIGRATIONS

\* The tables of the first migration to which columns are added.
FirstTables == {"users", "servers", "virtual_servers", "plugins", "chat_projects",
                "chat_conversations", "chat_messages"}

\* What the migrations other than 008 consist of.
Plain(m, M) ==
  /\ Listed(M)
  /\ \A j \in DOMAIN M :
       /\ M[j].op \in {"create", "add", "index", "clearGlobal"}
       /\ m < 8 /\ M[j].table = "pipeline_steps" => m = 7 /\ M[j].op = "create"
       /\ M[j].op = "create" => m = 1 \/ M[j].cols = {}
       /\ M[j].op = "add" => \/ M[j].table \in FirstTables /\ (m = 1 => j > 16)
                             \/ m = 13 /\ M[j].table = "server_oauth"
                             \/ m = 36 /\ M[j].table = "chat_schedules"

LEMMA PlainInitial == Plain(1, initial)
<1>1. /\ DOMAIN initial = 1..20
      /\ \A j \in 1..16 : initial[j].op = "create" /\ initial[j].table # "pipeline_steps"
      /\ \A j \in 17..20 : initial[j].op = "add" /\ initial[j].table \in {"virtual_servers", "plugins"}
  BY DEF initial, TABLES, Table, Create, Add
<1>2. Listed(initial)
  BY DEF Listed, initial, TABLES
<1>. QED BY <1>1, <1>2 DEF Plain, FirstTables

LEMMA PlainCreates ==
  /\ Plain(3, attachments) /\ Plain(4, oauth) /\ Plain(5, teamServerTools)
  /\ Plain(7, pipelineSteps) /\ Plain(10, auditLog) /\ Plain(11, appKeyring)
  /\ Plain(12, serverOAuth) /\ Plain(15, sessions) /\ Plain(16, toolFingerprints)
  /\ Plain(17, toolApprovals) /\ Plain(18, usageCounters) /\ Plain(21, chatProjectMembers)
  /\ Plain(22, chatSchedules) /\ Plain(23, chatUserPrompts) /\ Plain(25, chatMemory)
  /\ Plain(26, chatAssistants) /\ Plain(31, chatAgents) /\ Plain(35, a2aTasks)
<1>. USE DEF Plain, Listed, Table, Create
<1>1. Plain(3, attachments) /\ Plain(4, oauth) /\ Plain(5, teamServerTools)
  BY DEF attachments, oauth, teamServerTools
<1>2. Plain(7, pipelineSteps) /\ Plain(10, auditLog) /\ Plain(11, appKeyring)
  BY DEF pipelineSteps, auditLog, appKeyring
<1>3. Plain(12, serverOAuth) /\ Plain(15, sessions) /\ Plain(16, toolFingerprints)
  BY DEF serverOAuth, sessions, toolFingerprints
<1>4. Plain(17, toolApprovals) /\ Plain(18, usageCounters) /\ Plain(21, chatProjectMembers)
  BY DEF toolApprovals, usageCounters, chatProjectMembers
<1>5. Plain(22, chatSchedules) /\ Plain(23, chatUserPrompts) /\ Plain(25, chatMemory)
  BY DEF chatSchedules, chatUserPrompts, chatMemory
<1>6. Plain(26, chatAssistants) /\ Plain(31, chatAgents) /\ Plain(35, a2aTasks)
  BY DEF chatAssistants, chatAgents, a2aTasks
<1>. QED BY <1>1, <1>2, <1>3, <1>4, <1>5, <1>6

LEMMA PlainAdds ==
  /\ Plain(2, projectDocs) /\ Plain(6, userDisabled) /\ Plain(13, serverOAuthOperatorConfig)
  /\ Plain(14, serverTls) /\ Plain(19, pluginInstanceConfig) /\ Plain(20, chatModelContent)
  /\ Plain(24, chatConversationTags) /\ Plain(27, chatConversationAssistant)
  /\ Plain(28, chatConversationFlags) /\ Plain(29, chatConversationWebSearch)
  /\ Plain(30, chatProjectTools) /\ Plain(32, chatProjectDefaultModel)
  /\ Plain(33, chatConversationAgent) /\ Plain(36, chatScheduleAgent)
<1>. USE DEF Plain, Listed, FirstTables, Table, Create, Add
<1>1. Plain(2, projectDocs) /\ Plain(6, userDisabled)
  BY DEF projectDocs, userDisabled
<1>2. Plain(13, serverOAuthOperatorConfig) /\ Plain(14, serverTls)
  BY DEF serverOAuthOperatorConfig, serverTls
<1>3. Plain(19, pluginInstanceConfig) /\ Plain(20, chatModelContent)
  BY DEF pluginInstanceConfig, chatModelContent
<1>4. Plain(24, chatConversationTags) /\ Plain(27, chatConversationAssistant)
  BY DEF chatConversationTags, chatConversationAssistant
<1>5. Plain(28, chatConversationFlags) /\ Plain(29, chatConversationWebSearch)
  BY DEF chatConversationFlags, chatConversationWebSearch
<1>6. Plain(30, chatProjectTools) /\ Plain(32, chatProjectDefaultModel)
  BY DEF chatProjectTools, chatProjectDefaultModel
<1>7. Plain(33, chatConversationAgent) /\ Plain(36, chatScheduleAgent)
  BY DEF chatConversationAgent, chatScheduleAgent
<1>. QED BY <1>1, <1>2, <1>3, <1>4, <1>5, <1>6, <1>7

LEMMA PlainOthers == Plain(9, pipelineOptIn) /\ Plain(34, auditFilterIndexes)
<1>1. Plain(9, pipelineOptIn)
  BY DEF Plain, Listed, pipelineOptIn, Rebuild
<1>2. Plain(34, auditFilterIndexes)
  BY DEF Plain, Listed, auditFilterIndexes, Index
<1>. QED BY <1>1, <1>2

LEMMA AllPlain == \A m \in 1..36 \ {8} : Plain(m, MIGRATIONS[m])
BY Numbered, PlainInitial, PlainCreates, PlainAdds, PlainOthers

LEMMA PlainScope ==
  /\ Listed(pipelineScope) /\ Len(pipelineScope) = 4
  /\ pipelineScope[1] = Rebuild("createNew") /\ pipelineScope[2] = Rebuild("copyRows")
  /\ pipelineScope[3] = Rebuild("dropOld") /\ pipelineScope[4] = Rebuild("rename")
BY DEF Listed, pipelineScope

LEMMA FirstCreates ==
  \A t \in FirstTables : \E i \in 1..16 : i \in DOMAIN initial /\ initial[i].op = "create" /\ initial[i].table = t
<1>1. /\ DOMAIN initial = 1..20
      /\ \A i \in {1, 3, 7, 12, 13, 14, 16} : initial[i].op = "create"
      /\ initial[1].table = "users" /\ initial[3].table = "servers"
      /\ initial[7].table = "virtual_servers" /\ initial[16].table = "plugins"
      /\ initial[12].table = "chat_projects" /\ initial[13].table = "chat_conversations"
      /\ initial[14].table = "chat_messages"
  BY DEF initial, TABLES, Table, Create, Add
<1>. QED BY <1>1 DEF FirstTables
\* The columns a table is created with in the first migration are added there, too.
LEMMA FirstColumns ==
  \A j \in DOMAIN initial : initial[j].op = "create" =>
    \A c \in initial[j].cols :
       \E i \in DOMAIN initial : initial[i].op = "add" /\ initial[i].table = initial[j].table /\ c \in initial[i].cols
<1>1. /\ DOMAIN initial = 1..20
      /\ \A i \in 17..20 : initial[i].op = "add"
      /\ \A j \in 1..16 \ {7, 16} : initial[j].cols = {}
      /\ initial[7].table = "virtual_servers" /\ initial[16].table = "plugins"
      /\ initial[7].cols = {"access", "allowed_roles", "allowed_teams"}
      /\ initial[16].cols = {"code"}
      /\ \A i \in 17..19 : initial[i].table = "virtual_servers"
      /\ initial[20].table = "plugins"
      /\ initial[17].cols = {"access"} /\ initial[18].cols = {"allowed_roles"}
      /\ initial[19].cols = {"allowed_teams"} /\ initial[20].cols = {"code"}
  BY DEF initial, TABLES, Table, Create, Add
<1>. QED BY <1>1

\* The statements of the first n migrations.
Ran(n) == UNION { Range(MIGRATIONS[m]) : m \in 1..n }

LEMMA RanOnce ==
  /\ Ran(0) = {}
  /\ \A n \in Nat : Ran(n + 1) = Ran(n) \cup Range(MIGRATIONS[n + 1])
<1>1. Ran(0) = {}
  BY DEF Ran
<1>2. ASSUME NEW n \in Nat PROVE Ran(n + 1) = Ran(n) \cup Range(MIGRATIONS[n + 1])
  <2>1. 1..(n + 1) = (1..n) \cup {n + 1}
    OBVIOUS
  <2>. QED BY <2>1, Zenon DEF Ran
<1>. QED BY <1>1, <1>2

LEMMA RanMember ==
  ASSUME NEW n \in 0..36, NEW m \in 1..n, NEW j \in DOMAIN MIGRATIONS[m]
  PROVE MIGRATIONS[m][j] \in Ran(n)
BY DEF Ran, Range

LEMMA RanPick ==
  ASSUME NEW n \in 0..36, NEW s \in Ran(n)
  PROVE \E m \in 1..n : \E j \in DOMAIN MIGRATIONS[m] : s = MIGRATIONS[m][j]
BY DEF Ran, Range

\* A table is created before a column is added to it.
LEMMA CreatedBefore ==
  ASSUME NEW m \in 1..36 \ {8}, NEW j \in DOMAIN MIGRATIONS[m], MIGRATIONS[m][j].op = "add"
  PROVE \/ \E x \in Ran(m - 1) : /\ x.op = "create" /\ x.table = MIGRATIONS[m][j].table
                                  /\ x.table # "pipeline_steps"
        \/ \E i \in 1..(j - 1) : /\ i \in DOMAIN MIGRATIONS[m]
                                  /\ MIGRATIONS[m][i].op = "create"
                                  /\ MIGRATIONS[m][i].table = MIGRATIONS[m][j].table
<1>. DEFINE M == MIGRATIONS[m]
            t == M[j].table
<1>1. Plain(m, M)
  BY AllPlain
<1>2. CASE m = 1
  <2>1. M = initial
    BY <1>2, Numbered
  <2>2. t \in FirstTables /\ j > 16 /\ j \in DOMAIN initial /\ DOMAIN initial = 1..20
    BY <1>1, <1>2, <2>1 DEF Plain, initial, TABLES
  <2>3. PICK i \in 1..16 : i \in DOMAIN initial /\ initial[i].op = "create" /\ initial[i].table = t
    BY <2>2, FirstCreates
  <2>4. i \in 1..(j - 1)
    BY <2>2
  <2>. QED BY <2>1, <2>3, <2>4
<1>3. CASE m > 1 /\ t \in FirstTables
  <2>1. PICK i \in 1..16 : i \in DOMAIN initial /\ initial[i].op = "create" /\ initial[i].table = t
    BY <1>3, FirstCreates
  <2>2. MIGRATIONS[1][i] \in Ran(m - 1)
    <3>1. 1 \in 1..(m - 1) /\ m - 1 \in 0..36 /\ i \in DOMAIN MIGRATIONS[1]
      BY <1>3, <2>1, Numbered
    <3>. QED BY <3>1, RanMember
  <2>3. t # "pipeline_steps"
    BY <1>3 DEF FirstTables
  <2>. QED BY <2>1, <2>2, <2>3, Numbered
<1>4. CASE m = 13 /\ t = "server_oauth"
  <2>1. MIGRATIONS[12][1] \in Ran(m - 1)
    <3>1. 12 \in 1..(m - 1) /\ m - 1 \in 0..36
      BY <1>4
    <3>2. 1 \in DOMAIN MIGRATIONS[12]
      BY Numbered DEF serverOAuth
    <3>. QED BY <3>1, <3>2, RanMember
  <2>2. MIGRATIONS[12][1].op = "create" /\ MIGRATIONS[12][1].table = "server_oauth"
    BY Numbered DEF serverOAuth, Table, Create
  <2>. QED BY <1>4, <2>1, <2>2
<1>5. CASE m = 36 /\ t = "chat_schedules"
  <2>1. MIGRATIONS[22][1] \in Ran(m - 1)
    <3>1. 22 \in 1..(m - 1) /\ m - 1 \in 0..36
      BY <1>5
    <3>2. 1 \in DOMAIN MIGRATIONS[22]
      BY Numbered DEF chatSchedules
    <3>. QED BY <3>1, <3>2, RanMember
  <2>2. MIGRATIONS[22][1].op = "create" /\ MIGRATIONS[22][1].table = "chat_schedules"
    BY Numbered DEF chatSchedules, Table, Create
  <2>. QED BY <1>5, <2>1, <2>2
<1>6. \/ t \in FirstTables
      \/ m = 13 /\ t = "server_oauth"
      \/ m = 36 /\ t = "chat_schedules"
  BY <1>1 DEF Plain
<1>. QED BY <1>2, <1>3, <1>4, <1>5, <1>6

\* The columns a table is created with are added to it, too.
LEMMA AddedToo ==
  ASSUME NEW n \in 0..36, NEW s \in Ran(n), s.op = "create", NEW c \in s.cols
  PROVE \E x \in Ran(n) : x.op = "add" /\ x.table = s.table /\ c \in x.cols
<1>1. PICK m \in 1..n : \E j \in DOMAIN MIGRATIONS[m] : s = MIGRATIONS[m][j]
  BY RanPick
<1>2. PICK j \in DOMAIN MIGRATIONS[m] : s = MIGRATIONS[m][j]
  BY <1>1
<1>3. m \in 1..36
  OBVIOUS
<1>4. m # 8
  <2>. SUFFICES ASSUME m = 8 PROVE FALSE
    OBVIOUS
  <2>1. DOMAIN MIGRATIONS[8] = 1..4 /\ MIGRATIONS[8] = pipelineScope
    BY PlainScope, Numbered DEF Listed
  <2>. QED BY <1>2, <2>1, PlainScope DEF Rebuild
<1>5. m = 1
  BY <1>2, <1>3, <1>4, AllPlain DEF Plain
<1>6. PICK i \in DOMAIN initial : initial[i].op = "add" /\ initial[i].table = s.table /\ c \in initial[i].cols
  BY <1>2, <1>5, Numbered, FirstColumns
<1>7. MIGRATIONS[1][i] \in Ran(n)
  BY <1>5, <1>6, Numbered, RanMember
<1>. QED BY <1>6, <1>7, Numbered

\* Until it is rebuilt, pipeline_steps is only created.
LEMMA OnlyCreated ==
  ASSUME NEW n \in 0..7, NEW s \in Ran(n), s.table = "pipeline_steps"
  PROVE n = 7 /\ s.op = "create"
<1>1. PICK m \in 1..n : \E j \in DOMAIN MIGRATIONS[m] : s = MIGRATIONS[m][j]
  BY RanPick
<1>. QED BY <1>1, AllPlain DEF Plain

-----------------------------------------------------------------------------
(* The migrations: what they leave of a database.                          *)

\* What statement s of a migration leaves: its table and columns are there.
Has(d, s) ==
  /\ s.op \in {"create", "add", "rename"} => HasTable(d, s.table)
  /\ s.op \in {"add", "rename"} => s.cols \subseteq d.tables[s.table]

Schema(d) ==
  /\ d = [tables |-> d.tables, indexes |-> d.indexes, rows |-> d.rows,
          copy |-> d.copy, done |-> d.done]
  /\ d.done \in 0..36

\* A database has all that its migrations leave (Full), or all but the table
\* that 008 is rebuilding (Good).
Full(d) == \A s \in Ran(d.done) : Has(d, s)
Good(d) == \A s \in Ran(d.done) : Has(d, s) \/ (d.done = 7 /\ s.table = "pipeline_steps")

\* The rebuilt table is back.
Restored(d) == HasTable(d, "pipeline_steps") /\ {"scope"} \subseteq d.tables["pipeline_steps"]

\* What is left of a migration after its first k statements.
Rest(M, k) == SubSeq(M, k + 1, Len(M))

\* Where the migration under way is: what it has executed is there.
Partly(m, rest, d) ==
  \/ /\ m # 8
     /\ \E k \in 0..Len(MIGRATIONS[m]) :
          rest = Rest(MIGRATIONS[m], k) /\ \A i \in 1..k : Has(d, MIGRATIONS[m][i])
  \/ /\ m = 8
     /\ \/ \E k \in 0..4 : rest = Rest(pipelineScope, k) /\ (k = 4 => Restored(d))
        \/ rest = << Create("pipeline_steps", {"scope"}) >> /\ ~HasTable(d, "pipeline_steps")

Migrating(r) == phase[r] \in {"next", "step"}

\* The types of the variables of the migrations.
MigrationTypes ==
  /\ dialect \in Dialects
  /\ Schema(db) /\ Schema(saved)
  /\ lock.by \in Replicas \cup {"nobody", "gone"} /\ lock.seen \in BOOLEAN
  /\ lock = [by |-> lock.by, seen |-> lock.seen]
  /\ phase \in [Replicas -> {"down", "listed", "next", "step", "done"}]
  /\ left = [r \in Replicas |-> left[r]]
  /\ release \in [Replicas -> Releases]

\* One replica migrates at a time, and what the others see is not ahead of it.
LockHeld ==
  /\ \A r \in Replicas : Migrating(r) => lock.by = r
  /\ lock.by = "gone" => lock.seen
  /\ lock.by = "nobody" => ~lock.seen
  /\ dialect = "transactional" => ~lock.seen
  /\ lock.by # "nobody" => saved.done <= db.done

\* Where DDL is transactional the others never see the rebuild.
Whole ==
  /\ Good(db) /\ Good(saved)
  /\ dialect = "transactional" => Full(Visible)
  /\ dialect = "transactional" => \A r \in Replicas : phase[r] = "next" => Full(db)

\* A migration under way has done its part, and who is through has its release.
Progress ==
  \A r \in Replicas :
    /\ phase[r] = "step" => db.done < 36 /\ Partly(db.done + 1, left[r], db)
    /\ phase[r] = "done" => release[r] <= Visible.done

SchemaInv == MigrationTypes /\ LockHeld /\ Whole /\ Progress

-----------------------------------------------------------------------------
\* A plain statement takes nothing away, and its effect is there after it.
LEMMA PlainEffect ==
  ASSUME NEW d, Schema(d), NEW s, s.op \in {"create", "add", "index", "clearGlobal"},
         s.op = "add" => HasTable(d, s.table)
  PROVE /\ Schema(Execute(d, s)) /\ Execute(d, s).done = d.done
        /\ \A x : Has(d, x) => Has(Execute(d, s), x)
        /\ Has(Execute(d, s), s)
        /\ s.op = "create" /\ ~HasTable(d, s.table) => s.cols \subseteq Execute(d, s).tables[s.table]
<1>. DEFINE e == Execute(d, s)
<1>1. CASE ~Alters(d, s)
  <2>1. e = d
    BY <1>1 DEF Execute
  <2>2. Has(d, s) /\ ~(s.op = "create" /\ ~HasTable(d, s.table))
    BY <1>1 DEF Alters, Has
  <2>. QED BY <2>1, <2>2
<1>2. CASE Alters(d, s) /\ s.op = "create"
  <2>1. e = [d EXCEPT !.tables = WithTable(d, s.table, s.cols)] /\ ~HasTable(d, s.table)
    BY <1>2 DEF Execute, Applied, Alters
  <2>2. /\ e = [tables |-> WithTable(d, s.table, s.cols), indexes |-> d.indexes, rows |-> d.rows,
                copy |-> d.copy, done |-> d.done]
    BY <2>1 DEF Schema
  <2>3. /\ DOMAIN e.tables = DOMAIN d.tables \cup {s.table}
        /\ \A t \in DOMAIN d.tables : e.tables[t] = d.tables[t]
        /\ e.tables[s.table] = s.cols
    BY <2>1, <2>2 DEF WithTable, HasTable
  <2>. QED BY <1>2, <2>2, <2>3 DEF Schema, Has, HasTable
<1>3. CASE Alters(d, s) /\ s.op = "add"
  <2>1. e = [d EXCEPT !.tables[s.table] = @ \cup s.cols] /\ HasTable(d, s.table)
    BY <1>3 DEF Execute, Applied, Alters
  <2>2. /\ e = [tables |-> [d.tables EXCEPT ![s.table] = @ \cup s.cols], indexes |-> d.indexes,
                rows |-> d.rows, copy |-> d.copy, done |-> d.done]
    BY <2>1 DEF Schema
  <2>3. /\ DOMAIN e.tables = DOMAIN d.tables
        /\ \A t \in DOMAIN d.tables : d.tables[t] \subseteq e.tables[t]
        /\ s.cols \subseteq e.tables[s.table]
    BY <2>1, <2>2 DEF HasTable
  <2>. QED BY <1>3, <2>1, <2>2, <2>3 DEF Schema, Has, HasTable
<1>4. CASE Alters(d, s) /\ s.op \in {"index", "clearGlobal"}
  <2>1. PICK i, w : e = [tables |-> d.tables, indexes |-> i, rows |-> w, copy |-> d.copy, done |-> d.done]
    <3>1. CASE s.op = "index"
      <4>1. e = [d EXCEPT !.indexes = @ \cup s.cols]
        BY <1>4, <3>1 DEF Execute, Applied
      <4>2. e = [tables |-> d.tables, indexes |-> d.indexes \cup s.cols, rows |-> d.rows,
                 copy |-> d.copy, done |-> d.done]
        BY <4>1 DEF Schema
      <4>. QED BY <4>2
    <3>2. CASE s.op = "clearGlobal"
      <4>1. e = [d EXCEPT !.rows = @ \ {"global"}]
        BY <1>4, <3>2 DEF Execute, Applied
      <4>2. e = [tables |-> d.tables, indexes |-> d.indexes, rows |-> d.rows \ {"global"},
                 copy |-> d.copy, done |-> d.done]
        BY <4>1 DEF Schema
      <4>. QED BY <4>2
    <3>. QED BY <1>4, <3>1, <3>2
  <2>. QED BY <1>4, <2>1 DEF Schema, Has, HasTable
<1>. QED BY <1>1, <1>2, <1>3, <1>4

\* A step of the rebuild touches no other table, and the last one restores it.
LEMMA RebuildEffect ==
  ASSUME NEW d, Schema(d),
         NEW op \in {"createNew", "copyRows", "dropOld", "rename"}
  PROVE LET e == Execute(d, Rebuild(op)) IN
        /\ Schema(e) /\ e.done = d.done
        /\ \A x : x.table # "pipeline_steps" /\ Has(d, x) => Has(e, x)
        /\ op = "rename" => Restored(e)
<1>. DEFINE s == Rebuild(op)
            e == Execute(d, s)
<1>1. s.op = op /\ s.table = "pipeline_steps" /\ s.cols = {"scope"}
  BY DEF Rebuild
<1>2. e = Applied(d, s)
  BY <1>1 DEF Execute, Alters
<1>3. CASE op = "createNew"
  <2>1. e = [d EXCEPT !.copy = {}]
    BY <1>1, <1>2, <1>3 DEF Applied
  <2>2. e = [tables |-> d.tables, indexes |-> d.indexes, rows |-> d.rows, copy |-> {}, done |-> d.done]
    BY <2>1 DEF Schema
  <2>. QED BY <1>3, <2>2 DEF Schema, Has, HasTable
<1>4. CASE op = "copyRows"
  <2>1. e = [d EXCEPT !.copy = d.rows]
    BY <1>1, <1>2, <1>4 DEF Applied
  <2>2. e = [tables |-> d.tables, indexes |-> d.indexes, rows |-> d.rows, copy |-> d.rows, done |-> d.done]
    BY <2>1 DEF Schema
  <2>. QED BY <1>4, <2>2 DEF Schema, Has, HasTable
<1>5. CASE op = "dropOld"
  <2>. DEFINE kept == [x \in DOMAIN d.tables \ {s.table} |-> d.tables[x]]
  <2>1. e = [d EXCEPT !.rows = {}, !.tables = kept]
    BY <1>1, <1>2, <1>5 DEF Applied
  <2>2. e = [tables |-> kept, indexes |-> d.indexes, rows |-> {}, copy |-> d.copy, done |-> d.done]
    BY <2>1 DEF Schema
  <2>3. /\ e.tables = kept
        /\ \A t \in DOMAIN d.tables \ {"pipeline_steps"} : t \in DOMAIN kept /\ kept[t] = d.tables[t]
    BY <1>1, <2>2
  <2>. QED BY <1>5, <2>2, <2>3 DEF Schema, Has, HasTable
<1>6. CASE op = "rename"
  <2>. DEFINE new == WithTable(d, s.table, s.cols)
  <2>1. e = [d EXCEPT !.rows = d.copy, !.copy = {}, !.tables = new]
    BY <1>1, <1>2, <1>6 DEF Applied
  <2>2. e = [tables |-> new, indexes |-> d.indexes, rows |-> d.copy, copy |-> {}, done |-> d.done]
    BY <2>1 DEF Schema
  <2>3. /\ e.tables = new
        /\ \A t \in DOMAIN d.tables \ {"pipeline_steps"} : t \in DOMAIN new /\ new[t] = d.tables[t]
        /\ "pipeline_steps" \in DOMAIN new /\ new["pipeline_steps"] = {"scope"}
    BY <1>1, <2>2 DEF WithTable
  <2>. QED BY <1>6, <2>2, <2>3 DEF Schema, Has, HasTable, Restored
<1>. QED BY <1>3, <1>4, <1>5, <1>6

\* What is left of a migration loses its first statement.
LEMMA RestStep ==
  ASSUME NEW M, Listed(M), NEW k \in 0..Len(M)
  PROVE /\ Rest(M, 0) = M
        /\ k < Len(M) => /\ Rest(M, k) # << >>
                         /\ Head(Rest(M, k)) = M[k + 1]
                         /\ Tail(Rest(M, k)) = Rest(M, k + 1)
                         /\ k + 1 \in DOMAIN M
        /\ k = Len(M) => Rest(M, k) = << >>
BY DEF Rest, Listed

LEMMA RestOfScope ==
  ASSUME NEW k \in 0..4
  PROVE /\ Rest(pipelineScope, 0) = pipelineScope
        /\ k # 4 => /\ Rest(pipelineScope, k) # << >>
                    /\ Head(Rest(pipelineScope, k)) = pipelineScope[k + 1]
                    /\ Tail(Rest(pipelineScope, k)) = Rest(pipelineScope, k + 1)
        /\ k = 4 => Rest(pipelineScope, k) = << >>
<1>1. Listed(pipelineScope) /\ Len(pipelineScope) = 4 /\ k \in 0..Len(pipelineScope)
  BY PlainScope
<1>2. /\ Rest(pipelineScope, 0) = pipelineScope
      /\ k < Len(pipelineScope) => /\ Rest(pipelineScope, k) # << >>
                                   /\ Head(Rest(pipelineScope, k)) = pipelineScope[k + 1]
                                   /\ Tail(Rest(pipelineScope, k)) = Rest(pipelineScope, k + 1)
      /\ k = Len(pipelineScope) => Rest(pipelineScope, k) = << >>
  BY <1>1, RestStep, Zenon
<1>3. k # 4 => k < Len(pipelineScope)
  BY <1>1
<1>. QED BY <1>1, <1>2, <1>3, Zenon

LEMMA Before == \A n \in 0..36 : n < 36 => n + 1 \in 1..36 /\ n = (n + 1) - 1 /\ n \in Nat
OBVIOUS

\* A migration begins with nothing done.
LEMMA Begun ==
  ASSUME NEW d, Schema(d), d.done < 36
  PROVE Partly(d.done + 1, Up(d.done + 1, d), d)
<1>. DEFINE m == d.done + 1
<1>0. m \in 1..36
  BY DEF Schema
<1>1. CASE m # 8
  <2>1. Listed(MIGRATIONS[m])
    BY <1>0, <1>1, AllPlain DEF Plain
  <2>2. Len(MIGRATIONS[m]) \in Nat /\ Rest(MIGRATIONS[m], 0) = MIGRATIONS[m]
    BY <2>1, RestStep DEF Listed
  <2>3. Up(m, d) = Rest(MIGRATIONS[m], 0)
    BY <1>1, <2>2 DEF Up
  <2>4. 0 \in 0..Len(MIGRATIONS[m])
    BY <2>2
  <2>. QED BY <1>1, <2>3, <2>4 DEF Partly
<1>2. CASE m = 8
  <2>1. CASE ~HasTable(d, "pipeline_steps")
    <3>1. Up(m, d) = << Create("pipeline_steps", {"scope"}) >>
      BY <1>2, <2>1 DEF Up
    <3>. QED BY <1>2, <2>1, <3>1 DEF Partly
  <2>2. CASE HasTable(d, "pipeline_steps")
    <3>1. Up(m, d) = pipelineScope
      BY <1>2, <2>2, Numbered DEF Up
    <3>2. Rest(pipelineScope, 0) = pipelineScope
      BY RestOfScope
    <3>3. Rest(pipelineScope, 0) = Up(m, d) /\ 0 \in 0..4 /\ 0 # 4
      BY <3>1, <3>2
    <3>. QED BY <1>2, <3>3 DEF Partly
  <2>. QED BY <2>1, <2>2
<1>. QED BY <1>1, <1>2

\* Each statement of a migration brings it one further.
LEMMA Advanced ==
  ASSUME NEW d, Schema(d), Good(d), d.done < 36,
         NEW rest, rest # << >>, Partly(d.done + 1, rest, d)
  PROVE LET e == Execute(d, Head(rest)) IN
        /\ Schema(e) /\ e.done = d.done
        /\ Good(e)
        /\ Partly(d.done + 1, Tail(rest), e)
<1>. DEFINE m == d.done + 1
            e == Execute(d, Head(rest))
<1>d. d.done \in 0..36
  BY DEF Schema
<1>0. m \in 1..36 /\ d.done = m - 1
  BY <1>d, Before
<1>1. CASE m # 8
  <2>. DEFINE M == MIGRATIONS[m]
  <2>1. PICK k \in 0..Len(M) : rest = Rest(M, k) /\ \A i \in 1..k : Has(d, M[i])
    BY <1>1 DEF Partly
  <2>2. Plain(m, M) /\ Listed(M)
    BY <1>0, <1>1, AllPlain DEF Plain
  <2>3. /\ Len(M) \in Nat /\ k < Len(M) /\ k + 1 \in DOMAIN M
        /\ Head(rest) = M[k + 1] /\ Tail(rest) = Rest(M, k + 1)
    <3>1. Len(M) \in Nat
      BY <2>2 DEF Listed
    <3>. QED BY <2>1, <2>2, <3>1, RestStep
  <2>. DEFINE s == M[k + 1]
  <2>4. s.op \in {"create", "add", "index", "clearGlobal"}
    BY <2>2, <2>3 DEF Plain
  <2>5. s.op = "add" => HasTable(d, s.table)
    <3>. SUFFICES ASSUME s.op = "add" PROVE HasTable(d, s.table)
      OBVIOUS
    <3>1. CASE \E x \in Ran(m - 1) : x.op = "create" /\ x.table = s.table /\ x.table # "pipeline_steps"
      BY <3>1, <1>0 DEF Good, Has
    <3>2. CASE \E i \in 1..k : i \in DOMAIN M /\ M[i].op = "create" /\ M[i].table = s.table
      BY <3>2, <2>1 DEF Has
    <3>3. (k + 1) - 1 = k
      OBVIOUS
    <3>4. m \in 1..36 \ {8}
      BY <1>0, <1>1
    <3>5. \/ \E x \in Ran(m - 1) : x.op = "create" /\ x.table = s.table /\ x.table # "pipeline_steps"
          \/ \E i \in 1..((k + 1) - 1) : i \in DOMAIN M /\ M[i].op = "create" /\ M[i].table = s.table
      BY <3>4, <2>3, CreatedBefore
    <3>. QED BY <3>1, <3>2, <3>3, <3>5
  <2>6. /\ Schema(e) /\ e.done = d.done
        /\ \A x : Has(d, x) => Has(e, x)
        /\ Has(e, s)
    BY <2>3, <2>4, <2>5, PlainEffect
  <2>7. Good(e)
    BY <2>6 DEF Good
  <2>8. Partly(m, Tail(rest), e)
    <3>1. k + 1 \in 0..Len(M)
      BY <2>3
    <3>2. \A i \in 1..(k + 1) : Has(e, M[i])
      BY <2>1, <2>6
    <3>. QED BY <1>1, <2>3, <3>1, <3>2 DEF Partly
  <2>. QED BY <2>6, <2>7, <2>8
<1>2. CASE m = 8 /\ \E k \in 0..4 : rest = Rest(pipelineScope, k)
  <2>1. PICK k \in 0..4 : rest = Rest(pipelineScope, k)
    BY <1>2
  <2>2. k # 4 /\ Head(rest) = pipelineScope[k + 1] /\ Tail(rest) = Rest(pipelineScope, k + 1)
    BY <2>1, RestOfScope
  <2>3. PICK op \in {"createNew", "copyRows", "dropOld", "rename"} :
          Head(rest) = Rebuild(op) /\ (k + 1 = 4 => op = "rename")
    BY <2>2, PlainScope
  <2>4. /\ Schema(e) /\ e.done = d.done
        /\ \A x : x.table # "pipeline_steps" /\ Has(d, x) => Has(e, x)
        /\ op = "rename" => Restored(e)
    BY <2>3, RebuildEffect
  <2>5. Good(e)
    BY <1>0, <1>2, <2>4 DEF Good
  <2>6. Partly(m, Tail(rest), e)
    <3>1. k + 1 \in 0..4 /\ (k + 1 = 4 => Restored(e))
      BY <2>2, <2>3, <2>4
    <3>. QED BY <1>2, <2>2, <3>1 DEF Partly
  <2>. QED BY <2>4, <2>5, <2>6
<1>3. CASE m = 8 /\ rest = << Create("pipeline_steps", {"scope"}) >> /\ ~HasTable(d, "pipeline_steps")
  <2>. DEFINE s == Create("pipeline_steps", {"scope"})
  <2>1. Head(rest) = s /\ Tail(rest) = << >>
    BY <1>3
  <2>2. s.op = "create" /\ s.table = "pipeline_steps" /\ s.cols = {"scope"}
    BY DEF Create
  <2>3. /\ Schema(e) /\ e.done = d.done
        /\ \A x : Has(d, x) => Has(e, x)
        /\ Has(e, s)
        /\ s.cols \subseteq e.tables[s.table]
    BY <1>3, <2>1, <2>2, PlainEffect
  <2>4. Good(e)
    BY <2>3 DEF Good
  <2>5. Restored(e)
    BY <2>2, <2>3 DEF Has, Restored
  <2>6. Rest(pipelineScope, 4) = << >>
    BY RestOfScope
  <2>7. Partly(m, Tail(rest), e)
    <3>1. Tail(rest) = Rest(pipelineScope, 4)
      BY <2>1, <2>6, Zenon
    <3>2. 4 \in 0..4
      OBVIOUS
    <3>. QED BY <1>3, <3>1, <3>2, <2>5 DEF Partly
  <2>. QED BY <2>3, <2>4, <2>7
<1>. QED BY <1>1, <1>2, <1>3 DEF Partly

\* A migration of which nothing is left has left what it should.
LEMMA Completed ==
  ASSUME NEW d, Schema(d), Good(d), d.done < 36, Partly(d.done + 1, << >>, d)
  PROVE LET e == [d EXCEPT !.done = @ + 1] IN
        Schema(e) /\ e.done = d.done + 1 /\ Full(e)
<1>. DEFINE m == d.done + 1
            e == [d EXCEPT !.done = @ + 1]
<1>d. d.done \in 0..36
  BY DEF Schema
<1>0. m \in 1..36 /\ d.done \in Nat /\ m - 1 = d.done
  BY <1>d, Before
<1>1. e = [tables |-> d.tables, indexes |-> d.indexes, rows |-> d.rows, copy |-> d.copy, done |-> m]
  BY DEF Schema
<1>2. Schema(e) /\ e.done = m /\ e.tables = d.tables
  BY <1>0, <1>1 DEF Schema
<1>3. \A x : Has(d, x) => Has(e, x)
  BY <1>2 DEF Has, HasTable
<1>4. Ran(m) = Ran(d.done) \cup Range(MIGRATIONS[m])
  BY <1>0, RanOnce
<1>5. CASE m # 8
  <2>. DEFINE M == MIGRATIONS[m]
  <2>1. PICK k \in 0..Len(M) : << >> = Rest(M, k) /\ \A i \in 1..k : Has(d, M[i])
    BY <1>5 DEF Partly
  <2>a. Listed(M)
    BY <1>0, <1>5, AllPlain DEF Plain
  <2>2. Listed(M) /\ Len(M) \in Nat /\ DOMAIN M = 1..Len(M)
    BY <2>a DEF Listed
  <2>3. k = Len(M)
    BY <2>1, <2>2, RestStep
  <2>4. \A s \in Range(M) : Has(d, s)
    BY <2>1, <2>2, <2>3 DEF Range
  <2>5. \A s \in Ran(d.done) : Has(d, s)
    BY <1>0, <1>5 DEF Good
  <2>. QED BY <1>2, <1>3, <1>4, <2>4, <2>5 DEF Full
<1>6. CASE m = 8
  <2>1. Restored(d)
    <3>1. PICK k \in 0..4 : << >> = Rest(pipelineScope, k) /\ (k = 4 => Restored(d))
      BY <1>6 DEF Partly
    <3>. QED BY <3>1, RestOfScope
  <2>2. \A s \in Range(MIGRATIONS[8]) : Has(d, s)
    <3>1. DOMAIN pipelineScope = 1..4
      BY PlainScope DEF Listed
    <3>2. \A s \in Range(pipelineScope) : \E op \in {"createNew", "copyRows", "dropOld", "rename"} : s = Rebuild(op)
      BY <3>1, PlainScope DEF Range
    <3>3. \A op \in {"createNew", "copyRows", "dropOld", "rename"} : Has(d, Rebuild(op))
      BY <2>1 DEF Rebuild, Has, Restored
    <3>. QED BY <3>2, <3>3, Numbered
  <2>3. \A s \in Ran(d.done) : Has(d, s)
    <3>. SUFFICES ASSUME NEW s \in Ran(d.done), ~Has(d, s) PROVE FALSE
      OBVIOUS
    <3>1. s.table = "pipeline_steps"
      BY DEF Good
    <3>2. s.op = "create"
      BY <1>0, <1>6, <3>1, OnlyCreated
    <3>. QED BY <2>1, <3>1, <3>2 DEF Has, Restored
  <2>. QED BY <1>2, <1>3, <1>4, <1>6, <2>2, <2>3 DEF Full
<1>. QED BY <1>2, <1>5, <1>6

LEMMA FullGood == ASSUME NEW d, Full(d) PROVE Good(d)
BY DEF Full, Good

-----------------------------------------------------------------------------
\* What a column is added to, or what is renamed, was created.
LEMMA CreatedToo ==
  ASSUME NEW n \in 0..36, NEW s \in Ran(n), s.op \in {"add", "rename"}
  PROVE \E x \in Ran(n) : x.op = "create" /\ x.table = s.table
<1>1. PICK m \in 1..n : \E j \in DOMAIN MIGRATIONS[m] : s = MIGRATIONS[m][j]
  BY RanPick
<1>2. PICK j \in DOMAIN MIGRATIONS[m] : s = MIGRATIONS[m][j]
  BY <1>1
<1>3. CASE m = 8
  <2>1. s.table = "pipeline_steps"
    <3>1. DOMAIN pipelineScope = 1..4
      BY PlainScope DEF Listed
    <3>. QED BY <1>2, <1>3, <3>1, Numbered, PlainScope DEF Rebuild
  <2>2. /\ 1 \in DOMAIN MIGRATIONS[7] /\ MIGRATIONS[7][1].op = "create"
        /\ MIGRATIONS[7][1].table = "pipeline_steps"
    BY Numbered DEF pipelineSteps, Table, Create
  <2>3. 7 \in 1..n
    BY <1>3
  <2>. QED BY <2>1, <2>2, <2>3, RanMember
<1>4. CASE m # 8
  <2>1. m \in 1..36 \ {8} /\ s.op = "add"
    BY <1>2, <1>4, AllPlain DEF Plain
  <2>2. CASE \E x \in Ran(m - 1) : x.op = "create" /\ x.table = s.table
    <3>1. Ran(m - 1) \subseteq Ran(n)
      BY DEF Ran
    <3>. QED BY <2>2, <3>1
  <2>3. CASE \E i \in DOMAIN MIGRATIONS[m] :
               MIGRATIONS[m][i].op = "create" /\ MIGRATIONS[m][i].table = s.table
    BY <2>3, RanMember
  <2>4. \/ \E x \in Ran(m - 1) : x.op = "create" /\ x.table = s.table /\ x.table # "pipeline_steps"
        \/ \E i \in 1..(j - 1) : /\ i \in DOMAIN MIGRATIONS[m]
                                /\ MIGRATIONS[m][i].op = "create"
                                /\ MIGRATIONS[m][i].table = s.table
    BY <1>2, <2>1, CreatedBefore
  <2>. QED BY <2>2, <2>3, <2>4
<1>. QED BY <1>3, <1>4

\* The tables the first n migrations leave, and their columns.
Leavers(n, t) == { s \in Ran(n) : s.table = t /\ s.op \in {"create", "add", "rename"} }

LEMMA MigratedTables ==
  ASSUME NEW n \in 0..36
  PROVE /\ Migrated[n] = [tables |-> Migrated[n].tables, indexes |-> Migrated[n].indexes,
                         rows |-> {}, copy |-> {}, done |-> n]
        /\ DOMAIN Migrated[n].tables = { s.table : s \in { x \in Ran(n) : x.op = "create" } }
        /\ \A t \in DOMAIN Migrated[n].tables :
             Migrated[n].tables[t] = UNION { s.cols : s \in Leavers(n, t) }
<1>. DEFINE tables == [t \in { s.table : s \in { x \in Ran(n) : x.op = "create" } } |->
                         UNION { s.cols : s \in Leavers(n, t) }]
            indexes == UNION { s.cols : s \in { x \in Ran(n) : x.op = "index" } }
<1>1. n \in 0..Len(MIGRATIONS)
  BY Numbered
<1>2. Migrated[n] = [Empty EXCEPT !.tables = tables, !.indexes = indexes, !.done = n]
  BY <1>1, Zenon DEF Migrated, Ran, Leavers
<1>3. Migrated[n] = [tables |-> tables, indexes |-> indexes, rows |-> {}, copy |-> {}, done |-> n]
  <2>. HIDE DEF tables, indexes
  <2>. QED BY <1>2 DEF Empty
<1>4. Migrated[n].tables = tables /\ Migrated[n].indexes = indexes
  <2>. HIDE DEF tables, indexes
  <2>. QED BY <1>3
<1>5. Migrated[n] = [tables |-> Migrated[n].tables, indexes |-> Migrated[n].indexes,
                   rows |-> {}, copy |-> {}, done |-> n]
  BY <1>3, <1>4, Zenon
<1>6. DOMAIN tables = { s.table : s \in { x \in Ran(n) : x.op = "create" } }
  BY Zenon
<1>7. \A t \in DOMAIN tables : tables[t] = UNION { s.cols : s \in Leavers(n, t) }
  BY Zenon
<1>. QED
  <2>. HIDE DEF tables, indexes
  <2>. QED BY <1>4, <1>5, <1>6, <1>7, Zenon

LEMMA MigratedFull ==
  ASSUME NEW n \in 0..36, NEW d, d.done = n, d.tables = Migrated[n].tables
  PROVE Full(d)
<1>. SUFFICES ASSUME NEW s \in Ran(n) PROVE Has(d, s)
  BY DEF Full
<1>1. ASSUME s.op \in {"create", "add", "rename"} PROVE HasTable(d, s.table)
  <2>1. PICK x \in Ran(n) : x.op = "create" /\ x.table = s.table
    BY <1>1, CreatedToo
  <2>2. x.table \in { y.table : y \in { z \in Ran(n) : z.op = "create" } }
    BY <2>1, Zenon
  <2>. QED BY <2>1, <2>2, MigratedTables, Zenon DEF HasTable
<1>2. ASSUME s.op \in {"add", "rename"} PROVE s.cols \subseteq d.tables[s.table]
  <2>1. s \in Leavers(n, s.table)
    BY <1>2 DEF Leavers
  <2>2. s.table \in DOMAIN Migrated[n].tables
    BY <1>1, <1>2 DEF HasTable
  <2>. QED BY <2>1, <2>2, MigratedTables
<1>. QED BY <1>1, <1>2 DEF Has

LEMMA SchemaInit == MInit => SchemaInv
<1>. SUFFICES ASSUME MInit PROVE SchemaInv
  OBVIOUS
<1>. USE DEF MInit
<1>1. PICK b \in Databases : db = Database(b)
  OBVIOUS
<1>2. Schema(db) /\ Full(db)
  <2>1. CASE b.legacy
    <3>1. db = [Empty EXCEPT !.tables = [t \in DOMAIN Migrated[1].tables |-> {}]]
      BY <1>1, <2>1 DEF Database, Legacy
    <3>2. db = [tables |-> [t \in DOMAIN Migrated[1].tables |-> {}], indexes |-> {}, rows |-> {},
                copy |-> {}, done |-> 0]
      BY <3>1 DEF Empty
    <3>3. Schema(db) /\ db.done = 0
      BY <3>2 DEF Schema
    <3>. QED BY <3>3, RanOnce DEF Full
  <2>2. CASE ~b.legacy
    <3>1. b.done \in 0..36
      BY <2>2, MigrationConstants, Numbered
    <3>2. db = [Migrated[b.done] EXCEPT !.rows = b.rows]
      BY <1>1, <2>2 DEF Database
    <3>. DEFINE n == b.done
    <3>3. db = [tables |-> Migrated[n].tables, indexes |-> Migrated[n].indexes, rows |-> b.rows,
                copy |-> {}, done |-> n]
      <4>1. Migrated[n] = [tables |-> Migrated[n].tables, indexes |-> Migrated[n].indexes,
                           rows |-> {}, copy |-> {}, done |-> n]
        BY <3>1, MigratedTables, Zenon
      <4>2. PICK d : d = Migrated[n]
        OBVIOUS
      <4>3. PICK t, i : t = Migrated[n].tables /\ i = Migrated[n].indexes
        OBVIOUS
      <4>4. d = [tables |-> t, indexes |-> i, rows |-> {}, copy |-> {}, done |-> n]
        BY <4>1, <4>2, <4>3, Zenon
      <4>5. db = [d EXCEPT !.rows = b.rows]
        BY <3>2, <4>2, Zenon
      <4>6. db = [tables |-> t, indexes |-> i, rows |-> b.rows, copy |-> {}, done |-> n]
        BY <4>4, <4>5
      <4>. QED BY <4>3, <4>6, Zenon
    <3>4. Schema(db) /\ db.done = n /\ db.tables = Migrated[n].tables
      BY <3>1, <3>3 DEF Schema
    <3>. QED BY <3>1, <3>4, MigratedFull
  <2>. QED BY <2>1, <2>2
<1>3. MigrationTypes
  BY <1>2 DEF MigrationTypes
<1>4. LockHeld
  BY MigrationConstants DEF LockHeld, Migrating
<1>5. Whole
  BY <1>2, FullGood DEF Whole, Visible
<1>6. Progress
  BY DEF Progress
<1>. QED BY <1>3, <1>4, <1>5, <1>6 DEF SchemaInv

-----------------------------------------------------------------------------
\* Steps that only stop replicas or send them to wait for the lock.
LEMMA RestingStep ==
  ASSUME SchemaInv, UNCHANGED <<dialect, db, saved, lock, left>>,
         phase' \in [Replicas -> {"down", "listed", "next", "step", "done"}],
         release' \in [Replicas -> Releases],
         \A q \in Replicas : phase'[q] = phase[q] \/ phase'[q] \in {"down", "listed"},
         \A q \in Replicas : release'[q] = release[q] \/ phase'[q] = "down"
  PROVE SchemaInv'
<1>. USE DEF SchemaInv
<1>1. MigrationTypes'
  BY DEF MigrationTypes, Schema
<1>2. LockHeld'
  BY DEF LockHeld, Migrating
<1>3. Whole'
  BY DEF Whole, Good, Full, Visible
<1>4. Progress'
  BY DEF Progress, Visible
<1>. QED BY <1>1, <1>2, <1>3, <1>4

LEMMA ReplicaNames == "nobody" \notin Replicas /\ "gone" \notin Replicas
BY MigrationConstants

LEMMA Ordered ==
  \A a, b, c \in 0..36 :
    a <= a /\ a <= a + 1 /\ (a <= b => a <= b + 1) /\ (a <= b /\ b <= c => a <= c)
OBVIOUS

LEMMA Numbers ==
  ASSUME MigrationTypes
  PROVE /\ Schema(db) /\ Schema(saved)
        /\ db.done \in 0..36 /\ saved.done \in 0..36 /\ Visible.done \in 0..36
        /\ \A q \in Replicas : release[q] \in 0..36
<1>1. \A d : Schema(d) => d.done \in 0..36
  BY DEF Schema
<1>2. Releases \subseteq 0..36
  BY MigrationConstants, Numbered
<1>. QED BY <1>1, <1>2 DEF MigrationTypes, Visible

\* Who migrates holds the lock, so nobody else does.
LEMMA Alone ==
  ASSUME LockHeld, NEW r \in Replicas, Migrating(r)
  PROVE lock.by = r /\ lock.by # "nobody" /\ lock.by # "gone"
        /\ \A q \in Replicas \ {r} : ~Migrating(q)
BY ReplicaNames DEF LockHeld

LEMMA TakeLockStep ==
  ASSUME SchemaInv, NEW r \in Replicas, TakeLock(r)
  PROVE SchemaInv'
<1>. USE ReplicaNames DEF SchemaInv
<1>1. /\ phase[r] = "listed" /\ lock.by = "nobody" /\ lock' = [by |-> r, seen |-> FALSE]
      /\ saved' = db /\ phase' = [phase EXCEPT ![r] = "next"]
      /\ UNCHANGED <<dialect, db, left, release>>
  BY DEF TakeLock, Enter
<1>2. Visible = db /\ Visible' = db
  BY <1>1 DEF Visible
<1>3. MigrationTypes'
  BY <1>1 DEF MigrationTypes, Schema
<1>4. LockHeld'
  <2>1. saved'.done <= db'.done
    BY <1>1, Numbers
  <2>. QED BY <1>1, <2>1 DEF LockHeld, Migrating, MigrationTypes
<1>5. Whole'
  BY <1>1, <1>2 DEF Whole, Good, Full, MigrationTypes
<1>6. Progress'
  BY <1>1, <1>2 DEF Progress, MigrationTypes
<1>. QED BY <1>3, <1>4, <1>5, <1>6

LEMMA NextMigrationStep ==
  ASSUME SchemaInv, NEW r \in Replicas, NextMigration(r)
  PROVE SchemaInv'
<1>. USE ReplicaNames DEF SchemaInv
<1>1. /\ phase[r] = "next" /\ db.done < release[r]
      /\ left' = [left EXCEPT ![r] = Up(db.done + 1, db)]
      /\ phase' = [phase EXCEPT ![r] = "step"]
      /\ UNCHANGED <<dialect, db, saved, lock, release>>
  BY DEF NextMigration, Enter
<1>2. Visible' = Visible
  BY <1>1 DEF Visible
<1>3. MigrationTypes'
  BY <1>1 DEF MigrationTypes, Schema
<1>4. LockHeld'
  BY <1>1 DEF LockHeld, Migrating, MigrationTypes
<1>5. Whole'
  BY <1>1, <1>2 DEF Whole, Good, Full, MigrationTypes
<1>6. db.done < 36 /\ Partly(db.done + 1, Up(db.done + 1, db), db)
  <2>1. Schema(db) /\ db.done \in 0..36 /\ release[r] \in 0..36
    BY Numbers
  <2>2. db.done < 36
    BY <1>1, <2>1
  <2>. QED BY <2>1, <2>2, Begun
<1>7. Progress'
  <2>1. left'[r] = Up(db.done + 1, db)
    BY <1>1 DEF MigrationTypes
  <2>2. \A q \in Replicas \ {r} : left'[q] = left[q] /\ phase'[q] = phase[q]
    BY <1>1 DEF MigrationTypes
  <2>3. phase'[r] = "step"
    BY <1>1 DEF MigrationTypes
  <2>. QED BY <1>1, <1>2, <1>6, <2>1, <2>2, <2>3 DEF Progress
<1>. QED BY <1>3, <1>4, <1>5, <1>7

LEMMA RecordStep ==
  ASSUME SchemaInv, NEW r \in Replicas, Record(r)
  PROVE SchemaInv'
<1>. USE ReplicaNames DEF SchemaInv
<1>1. /\ phase[r] = "step" /\ left[r] = << >>
      /\ db' = [db EXCEPT !.done = @ + 1]
      /\ phase' = [phase EXCEPT ![r] = "next"]
      /\ UNCHANGED <<dialect, saved, lock, left, release>>
  BY DEF Record, Enter
<1>2. Schema(db') /\ db'.done = db.done + 1 /\ Full(db')
  <2>1. Schema(db) /\ Good(db) /\ db.done < 36 /\ Partly(db.done + 1, << >>, db)
    BY <1>1 DEF MigrationTypes, Whole, Progress
  <2>. QED BY <1>1, <2>1, Completed
<1>3. /\ lock.by = r /\ lock.by # "nobody" /\ lock.by # "gone"
      /\ \A q \in Replicas \ {r} : ~Migrating(q)
  BY <1>1, Alone DEF Migrating
<1>4. MigrationTypes'
  BY <1>1, <1>2 DEF MigrationTypes, Schema
<1>5. LockHeld'
  <2>1. saved'.done <= db'.done
    <3>1. saved.done <= db.done /\ saved' = saved
      BY <1>1, <1>3 DEF LockHeld
    <3>2. db'.done = db.done + 1 /\ db.done \in 0..36 /\ saved.done \in 0..36
      BY <1>2, Numbers
    <3>. QED BY <3>1, <3>2, Ordered, Zenon
  <2>. QED BY <1>1, <1>3, <2>1 DEF LockHeld, Migrating, MigrationTypes
<1>6. Whole'
  BY <1>1, <1>2, FullGood DEF Whole, Visible, LockHeld, Full
<1>7. Progress'
  <2>1. \A q \in Replicas : phase'[q] # "step"
    BY <1>1, <1>3 DEF Migrating, MigrationTypes
  <2>2. Visible.done <= Visible'.done
    <3>1. Visible = IF lock.seen THEN db ELSE saved
      BY <1>3 DEF Visible
    <3>2. Visible' = IF lock.seen THEN db' ELSE saved
      BY <1>1, <1>3 DEF Visible
    <3>3. db'.done = db.done + 1 /\ db.done \in 0..36 /\ saved.done \in 0..36
      BY <1>2, Numbers
    <3>. QED BY <3>1, <3>2, <3>3, Ordered, Zenon
  <2>3. ASSUME NEW q \in Replicas, phase'[q] = "done"
        PROVE release'[q] <= Visible'.done
    <3>1. release[q] <= Visible.done
      BY <1>1, <2>3 DEF Progress, MigrationTypes
    <3>2. Visible'.done \in 0..36
      BY <1>1, <1>4, Numbers DEF Visible, MigrationTypes, Schema
    <3>3. release[q] \in 0..36 /\ Visible.done \in 0..36 /\ release' = release
      BY <1>1, Numbers
    <3>. QED BY <2>2, <3>1, <3>2, <3>3, Ordered, Zenon
  <2>. QED BY <2>1, <2>3 DEF Progress
<1>. QED BY <1>4, <1>5, <1>6, <1>7

LEMMA FinishStep ==
  ASSUME SchemaInv, NEW r \in Replicas, Finish(r)
  PROVE SchemaInv'
<1>. USE ReplicaNames DEF SchemaInv
<1>1. /\ phase[r] = "next" /\ db.done >= release[r]
      /\ lock' = [by |-> "nobody", seen |-> FALSE]
      /\ saved' = db /\ phase' = [phase EXCEPT ![r] = "done"]
      /\ UNCHANGED <<dialect, db, left, release>>
  BY DEF Finish, Enter, Free
<1>2. /\ lock.by = r /\ lock.by # "nobody" /\ lock.by # "gone"
      /\ \A q \in Replicas \ {r} : ~Migrating(q)
  BY <1>1, Alone DEF Migrating
<1>3. Visible' = db /\ Visible.done <= db.done
  BY <1>1, <1>2, Numbers DEF Visible, LockHeld
<1>4. MigrationTypes'
  BY <1>1 DEF MigrationTypes, Schema
<1>5. LockHeld'
  BY <1>1, <1>2 DEF LockHeld, Migrating, MigrationTypes
<1>6. Whole'
  BY <1>1, <1>2, <1>3 DEF Whole, Good, Full, MigrationTypes
<1>7. Progress'
  <2>1. \A q \in Replicas : phase'[q] = "step" => phase[q] = "step"
    BY <1>1 DEF MigrationTypes
  <2>2. \A q \in Replicas : phase'[q] = "done" => release'[q] <= db.done
    <3>. SUFFICES ASSUME NEW q \in Replicas, phase'[q] = "done"
                  PROVE release[q] <= db.done
      BY <1>1
    <3>1. CASE q = r
      BY <1>1, <3>1, Numbers
    <3>2. CASE q # r
      <4>1. release[q] <= Visible.done
        BY <1>1, <3>2 DEF Progress, MigrationTypes
      <4>2. release[q] \in 0..36 /\ Visible.done \in 0..36 /\ db.done \in 0..36
        BY Numbers
      <4>. QED BY <1>3, <4>1, <4>2, Ordered, Zenon
    <3>. QED BY <3>1, <3>2
  <2>. QED BY <1>1, <1>3, <2>1, <2>2 DEF Progress
<1>. QED BY <1>4, <1>5, <1>6, <1>7

\* The batch ends and what the others saw stays.
LEMMA GiveUpStep ==
  ASSUME SchemaInv, NEW r \in Replicas, Migrating(r), GiveUp,
         lock' \in { [by |-> "nobody", seen |-> FALSE], [by |-> "gone", seen |-> TRUE] },
         lock'.seen => lock.seen,
         phase' = [phase EXCEPT ![r] = "down"], left' = [left EXCEPT ![r] = << >>],
         UNCHANGED <<dialect, release>>
  PROVE SchemaInv'
<1>. USE ReplicaNames DEF SchemaInv
<1>1. /\ lock.by = r /\ lock.by # "nobody" /\ lock.by # "gone"
      /\ \A q \in Replicas \ {r} : ~Migrating(q)
  BY Alone
<1>2. db' = Visible /\ saved' = Visible /\ Visible \in {db, saved}
  BY DEF GiveUp, Visible
<1>3. Visible' = Visible
  BY <1>2 DEF Visible
<1>4. \A q \in Replicas : phase'[q] \notin {"next", "step"}
  BY <1>1 DEF Migrating, MigrationTypes
<1>5. MigrationTypes'
  <2>1. Schema(db') /\ Schema(saved')
    BY <1>2, Numbers
  <2>2. /\ lock'.by \in {"nobody", "gone"} /\ lock'.seen \in BOOLEAN
        /\ lock' = [by |-> lock'.by, seen |-> lock'.seen]
    <3>1. CASE lock' = [by |-> "nobody", seen |-> FALSE]
      BY <3>1
    <3>2. CASE lock' = [by |-> "gone", seen |-> TRUE]
      BY <3>2
    <3>. QED BY <3>1, <3>2, Zenon
  <2>3. /\ phase' \in [Replicas -> {"down", "listed", "next", "step", "done"}]
        /\ left' = [q \in Replicas |-> left'[q]]
    BY DEF MigrationTypes
  <2>. QED BY <2>1, <2>2, <2>3 DEF MigrationTypes, Schema
<1>6. LockHeld'
  <2>1. saved'.done <= db'.done
    BY <1>2, Numbers, Ordered, Zenon
  <2>2. /\ lock'.by = "gone" => lock'.seen
        /\ lock'.by = "nobody" => ~lock'.seen
    OBVIOUS
  <2>. QED BY <1>4, <2>1, <2>2 DEF LockHeld, Migrating
<1>7. Whole'
  BY <1>2, <1>3, <1>4 DEF Whole, Good, Full
<1>8. Progress'
  BY <1>3, <1>4 DEF Progress, MigrationTypes
<1>. QED BY <1>5, <1>6, <1>7, <1>8

LEMMA StatementStep ==
  ASSUME SchemaInv, NEW r \in Replicas, Statement(r)
  PROVE SchemaInv'
<1>. USE ReplicaNames DEF SchemaInv
<1>. DEFINE s == Head(left[r])
<1>1. phase[r] = "step" /\ left[r] # << >> /\ UNCHANGED <<dialect, release>>
  BY DEF Statement
<1>2. CASE Refused(db, s)
  <2>1. /\ GiveUp /\ lock' = [by |-> "nobody", seen |-> FALSE]
        /\ phase' = [phase EXCEPT ![r] = "down"] /\ left' = [left EXCEPT ![r] = << >>]
    BY <1>2 DEF Statement, Free, Enter
  <2>2. lock'.seen = FALSE
    BY <2>1
  <2>. QED BY <1>1, <2>1, <2>2, GiveUpStep DEF Migrating
<1>3. CASE ~Refused(db, s)
  <2>1. /\ db' = Execute(db, s)
        /\ lock' = [lock EXCEPT !.seen = @ \/ (dialect = "autocommit" /\ IsDDL(db, s))]
        /\ left' = [left EXCEPT ![r] = Tail(@)]
        /\ UNCHANGED <<saved, phase>>
    BY <1>3 DEF Statement
  <2>2. /\ Schema(db') /\ db'.done = db.done /\ Good(db')
        /\ Partly(db.done + 1, Tail(left[r]), db')
    <3>1. Schema(db) /\ Good(db) /\ db.done < 36 /\ Partly(db.done + 1, left[r], db)
      BY <1>1 DEF MigrationTypes, Whole, Progress
    <3>. QED BY <1>1, <2>1, <3>1, Advanced
  <2>3. PICK seen \in BOOLEAN : /\ lock' = [by |-> lock.by, seen |-> seen]
                                /\ lock.seen => seen
                                /\ dialect = "transactional" => seen = lock.seen
    <3>. DEFINE seen == lock.seen \/ (dialect = "autocommit" /\ IsDDL(db, s))
    <3>1. lock' = [by |-> lock.by, seen |-> seen]
      BY <2>1 DEF MigrationTypes
    <3>2. seen \in BOOLEAN
      OBVIOUS
    <3>3. (lock.seen => seen) /\ (dialect = "transactional" => seen = lock.seen)
      BY DEF MigrationTypes
    <3>. QED BY <3>1, <3>2, <3>3, Zenon
  <2>4. /\ lock.by = r /\ lock.by # "nobody" /\ lock.by # "gone"
        /\ \A q \in Replicas \ {r} : ~Migrating(q)
    BY <1>1, Alone DEF Migrating
  <2>5. lock'.by = lock.by /\ lock'.seen = seen
    BY <2>3
  <2>6. /\ Visible.done <= Visible'.done
        /\ dialect = "transactional" => Visible' = Visible
    <3>1. saved.done <= db.done
      BY <2>4 DEF LockHeld
    <3>2. Visible = IF lock.seen THEN db ELSE saved
      BY <2>4 DEF Visible
    <3>3. Visible' = IF seen THEN db' ELSE saved
      BY <2>1, <2>4, <2>5 DEF Visible
    <3>4. dialect = "transactional" => ~lock.seen /\ ~seen
      BY <2>3 DEF LockHeld
    <3>. QED BY <2>2, <2>3, <3>1, <3>2, <3>3, <3>4, Numbers
  <2>7. MigrationTypes'
    <3>1. left' = [q \in Replicas |-> left'[q]]
      BY <2>1 DEF MigrationTypes
    <3>2. lock' = [by |-> lock'.by, seen |-> lock'.seen] /\ lock'.seen \in BOOLEAN
      BY <2>3, <2>5
    <3>. QED BY <1>1, <2>1, <2>2, <2>5, <3>1, <3>2 DEF MigrationTypes, Schema
  <2>8. LockHeld'
    <3>1. dialect' = "transactional" => ~lock'.seen
      BY <1>1, <2>3, <2>5 DEF LockHeld
    <3>. QED BY <1>1, <2>1, <2>2, <2>4, <2>5, <3>1 DEF LockHeld, Migrating
  <2>9. Whole'
    <3>1. dialect' = "transactional" => Full(Visible')
      BY <1>1, <2>6 DEF Whole
    <3>2. \A q \in Replicas : phase'[q] # "next"
      BY <1>1, <2>1, <2>4 DEF Migrating
    <3>. QED BY <2>1, <2>2, <3>1, <3>2 DEF Whole, Good, Full
  <2>10. Progress'
    <3>1. \A q \in Replicas : phase'[q] = "step" => q = r
      BY <2>1, <2>4 DEF Migrating
    <3>2. left'[r] = Tail(left[r])
      BY <2>1 DEF MigrationTypes
    <3>3. db'.done < 36 /\ Partly(db'.done + 1, left'[r], db')
      BY <1>1, <2>2, <3>2 DEF Progress
    <3>4. ASSUME NEW q \in Replicas, phase'[q] = "done"
          PROVE release'[q] <= Visible'.done
      <4>1. release[q] <= Visible.done
        BY <2>1, <3>4 DEF Progress
      <4>2. release[q] \in 0..36 /\ Visible.done \in 0..36 /\ Visible'.done \in 0..36
        <5>1. saved'.done \in 0..36 /\ db'.done \in 0..36
          BY <2>1, <2>2, Numbers
        <5>. QED BY <5>1, Numbers DEF Visible
      <4>3. Visible.done <= Visible'.done /\ release' = release
        BY <1>1, <2>6
      <4>. QED BY <4>1, <4>2, <4>3, Ordered, Zenon
    <3>. QED BY <3>1, <3>3, <3>4 DEF Progress
  <2>. QED BY <2>7, <2>8, <2>9, <2>10
<1>. QED BY <1>2, <1>3

LEMMA DieStep ==
  ASSUME SchemaInv, NEW r \in Replicas, Die(r)
  PROVE SchemaInv'
<1>1. /\ Migrating(r) /\ GiveUp
      /\ lock' = [by |-> IF lock.seen THEN "gone" ELSE "nobody", seen |-> lock.seen]
      /\ phase' = [phase EXCEPT ![r] = "down"] /\ left' = [left EXCEPT ![r] = << >>]
      /\ UNCHANGED <<dialect, release>>
  BY DEF Die, Migrating, Enter
<1>2. lock.seen \in BOOLEAN
  BY DEF SchemaInv, MigrationTypes
<1>3. CASE lock.seen
  <2>1. lock' = [by |-> "gone", seen |-> TRUE]
    BY <1>1, <1>2, <1>3
  <2>. QED BY <1>1, <1>3, <2>1, GiveUpStep
<1>4. CASE ~lock.seen
  <2>1. lock' = [by |-> "nobody", seen |-> FALSE]
    BY <1>1, <1>2, <1>4
  <2>2. lock'.seen = FALSE
    BY <2>1
  <2>. QED BY <1>1, <2>1, <2>2, GiveUpStep
<1>. QED BY <1>3, <1>4

LEMMA UnlockStep ==
  ASSUME SchemaInv, Unlock
  PROVE SchemaInv'
<1>. USE ReplicaNames DEF SchemaInv
<1>1. /\ lock.by = "gone" /\ lock' = [by |-> "nobody", seen |-> FALSE]
      /\ UNCHANGED <<dialect, db, saved, phase, left, release>>
  BY DEF Unlock, Free
<1>2. Visible = db /\ Visible' = db
  BY <1>1 DEF Visible, LockHeld
<1>3. MigrationTypes'
  BY <1>1 DEF MigrationTypes, Schema
<1>4. LockHeld'
  BY <1>1 DEF LockHeld, Migrating
<1>5. Whole'
  BY <1>1, <1>2 DEF Whole, Good, Full
<1>6. Progress'
  BY <1>1, <1>2 DEF Progress
<1>. QED BY <1>3, <1>4, <1>5, <1>6

\* A boot that fails, a job that ends or a replica that stops is down again.
LEMMA DownStep ==
  ASSUME SchemaInv, NEW r \in Replicas, NEW p \in {"down", phase[r]},
         phase' = [phase EXCEPT ![r] = p],
         UNCHANGED <<dialect, db, saved, lock, left, release>>
  PROVE SchemaInv'
<1>1. /\ phase \in [Replicas -> {"down", "listed", "next", "step", "done"}]
      /\ release \in [Replicas -> Releases]
  BY DEF SchemaInv, MigrationTypes
<1>2. phase' \in [Replicas -> {"down", "listed", "next", "step", "done"}]
  BY <1>1
<1>3. \A q \in Replicas : phase'[q] = phase[q] \/ phase'[q] \in {"down", "listed"}
  BY <1>1
<1>. QED BY <1>1, <1>2, <1>3, RestingStep

LEMMA MigrateInv ==
  ASSUME SchemaInv, NEW r \in Replicas, MigrateStep(r)
  PROVE SchemaInv'
<1>1. /\ phase \in [Replicas -> {"down", "listed", "next", "step", "done"}]
      /\ release \in [Replicas -> Releases]
  BY DEF SchemaInv, MigrationTypes
<1>2. CASE Launch(r)
  <2>1. /\ phase' = [phase EXCEPT ![r] = "listed"]
        /\ UNCHANGED <<dialect, db, saved, lock, left, release>>
    BY <1>2 DEF Launch, Enter
  <2>2. phase' \in [Replicas -> {"down", "listed", "next", "step", "done"}]
    BY <1>1, <2>1
  <2>3. \A q \in Replicas : phase'[q] = phase[q] \/ phase'[q] \in {"down", "listed"}
    BY <1>1, <2>1
  <2>. QED BY <1>1, <2>1, <2>2, <2>3, RestingStep
<1>3. CASE FindLocked(r)
  <2>1. /\ phase' = [phase EXCEPT ![r] = "down"]
        /\ UNCHANGED <<dialect, db, saved, lock, left, release>>
    BY <1>3 DEF FindLocked, Enter
  <2>. QED BY <2>1, DownStep
<1>. QED BY <1>2, <1>3, TakeLockStep, NextMigrationStep, StatementStep, RecordStep, FinishStep
         DEF MigrateStep

LEMMA SchemaStep == SchemaInv /\ [BootNext]_bootVars => SchemaInv'
<1>. SUFFICES ASSUME SchemaInv, [BootNext]_bootVars PROVE SchemaInv'
  OBVIOUS
<1>1. ASSUME NEW r \in Replicas, Migrate(r) PROVE SchemaInv'
  BY <1>1, MigrateInv DEF Migrate
<1>2. ASSUME NEW r \in Replicas, MigrationDies(r) PROVE SchemaInv'
  BY <1>2, DieStep DEF MigrationDies
<1>3. ASSUME NEW r \in Replicas, JobEnds(r) PROVE SchemaInv'
  <2>1. /\ phase' = [phase EXCEPT ![r] = "down"]
        /\ UNCHANGED <<dialect, db, saved, lock, left, release>>
    BY <1>3 DEF JobEnds, ExitJob, Enter
  <2>. QED BY <2>1, DownStep
<1>4. ASSUME NEW r \in Replicas, ResolveKeys(r) \/ Exit(r) PROVE SchemaInv'
  <2>1. Follow(r)
    BY <1>4 DEF ResolveKeys, Exit
  <2>2. PICK p \in {"down", phase[r]} : phase' = [phase EXCEPT ![r] = p]
    BY <2>1 DEF Follow
  <2>3. UNCHANGED <<dialect, db, saved, lock, left, release>>
    BY <2>1 DEF Follow
  <2>. QED BY <2>2, <2>3, DownStep
<1>5. CASE UNCHANGED mvars
  <2>1. /\ phase' = phase /\ release' = release
        /\ UNCHANGED <<dialect, db, saved, lock, left>>
    BY <1>5 DEF mvars
  <2>. QED BY <2>1, RestingStep DEF SchemaInv, MigrationTypes
<1>6. ASSUME NEW r \in Replicas, Store(r) PROVE SchemaInv'
  BY <1>5, <1>6 DEF Store
<1>7. CASE Redeploy
  BY <1>5, <1>7 DEF Redeploy
<1>8. CASE Operate
  <2>1. CASE Unlock
    BY <2>1, UnlockStep
  <2>2. ASSUME NEW r \in Replicas, Upgrade(r) PROVE SchemaInv'
    <3>1. /\ phase[r] = "down" /\ UNCHANGED <<dialect, db, saved, lock, phase, left>>
          /\ \E n \in Releases : release' = [release EXCEPT ![r] = n]
      BY <2>2 DEF Upgrade
    <3>2. /\ phase' \in [Replicas -> {"down", "listed", "next", "step", "done"}]
          /\ release' \in [Replicas -> Releases]
          /\ \A q \in Replicas : release'[q] = release[q] \/ phase'[q] = "down"
      BY <3>1 DEF SchemaInv, MigrationTypes
    <3>. QED BY <3>1, <3>2, RestingStep
  <2>. QED BY <1>8, <2>1, <2>2 DEF Operate
<1>9. CASE UNCHANGED bootVars
  BY <1>5, <1>9 DEF bootVars
<1>. QED BY <1>1, <1>2, <1>3, <1>4, <1>6, <1>7, <1>8, <1>9 DEF BootNext

\* What a migration has left, its successors, a crash or a rollback leave alone,
\* but for the table 008 rebuilds, and while that one is away nobody who needs
\* it serves (db/migrations.ts).
THEOREM SchemaInvariance == BootSpec => []SchemaInv
<1>1. BootInit => SchemaInv
  BY SchemaInit DEF BootInit
<1>. QED BY <1>1, SchemaStep, PTL DEF BootSpec

LEMMA NeedsOf ==
  ASSUME NEW n \in 0..36
  PROVE /\ DOMAIN Needs[n] \subseteq DOMAIN Migrated[n].tables
        /\ \A t \in DOMAIN Needs[n] : Needs[n][t] \subseteq Migrated[n].tables[t]
<1>. DEFINE used == DOMAIN createRepos \cap DOMAIN Migrated[n].tables
            cols(t) == createRepos[t] \cap Migrated[n].tables[t]
<1>1. n \in 0..Len(MIGRATIONS)
  BY Numbered
<1>2. Needs[n] = [t \in used |-> cols(t)]
  BY <1>1, Zenon DEF Needs
<1>3. DOMAIN Needs[n] = used /\ \A t \in used : Needs[n][t] = cols(t)
  <2>. HIDE DEF used, cols
  <2>. QED BY <1>2
<1>. QED BY <1>3

\* What the statements of a release leave is what it needs.
LEMMA Serving == SchemaInv => SchemaServes
<1>. SUFFICES ASSUME SchemaInv, NEW r \in Replicas, phase[r] = "done" PROVE Served(r)
  BY DEF SchemaServes
<1>. DEFINE n == release[r]
<1>1. n \in 0..36 /\ Visible.done \in 0..36 /\ n <= Visible.done
  BY Numbers DEF SchemaInv, Progress
<1>2. \A s \in Ran(n) : Has(Visible, s)
  <2>. SUFFICES ASSUME NEW s \in Ran(n), ~Has(Visible, s) PROVE FALSE
    OBVIOUS
  <2>1. s \in Ran(Visible.done)
    BY <1>1 DEF Ran
  <2>2. Visible.done = 7 /\ s.table = "pipeline_steps"
    BY <2>1 DEF SchemaInv, Whole, Visible, Good
  <2>3. n = 7
    BY <1>1, <2>2, OnlyCreated
  <2>4. dialect = "transactional"
    BY <2>3, MigrationConstants DEF SchemaInv, MigrationTypes
  <2>. QED BY <2>1, <2>4 DEF SchemaInv, Whole, Full
<1>3. ASSUME NEW t \in DOMAIN Migrated[n].tables PROVE HasTable(Visible, t)
  <2>1. PICK s \in Ran(n) : s.op = "create" /\ s.table = t
    <3>1. t \in { x.table : x \in { y \in Ran(n) : y.op = "create" } }
      BY <1>1, <1>3, MigratedTables, Zenon
    <3>. QED BY <3>1, Zenon
  <2>. QED BY <1>2, <2>1 DEF Has
<1>4. ASSUME NEW t \in DOMAIN Migrated[n].tables, NEW c \in Migrated[n].tables[t]
      PROVE c \in Visible.tables[t]
  <2>1. PICK s \in Leavers(n, t) : c \in s.cols
    <3>1. \A q \in DOMAIN Migrated[n].tables :
            Migrated[n].tables[q] = UNION { s.cols : s \in Leavers(n, q) }
      BY <1>1, MigratedTables, Zenon
    <3>2. c \in UNION { s.cols : s \in Leavers(n, t) }
      BY <1>4, <3>1, Zenon
    <3>. QED BY <3>2, Zenon
  <2>2. s \in Ran(n) /\ s.table = t /\ s.op \in {"create", "add", "rename"}
    BY DEF Leavers
  <2>3. PICK x \in Ran(n) : x.op \in {"add", "rename"} /\ x.table = t /\ c \in x.cols
    BY <1>1, <2>1, <2>2, AddedToo
  <2>. QED BY <1>2, <2>3 DEF Has
<1>5. /\ DOMAIN Needs[n] \subseteq DOMAIN Migrated[n].tables
      /\ \A t \in DOMAIN Needs[n] : Needs[n][t] \subseteq Migrated[n].tables[t]
  BY <1>1, NeedsOf
<1>. QED BY <1>3, <1>4, <1>5 DEF Served

\* SchemaServes: whoever is past its migrations finds what its release uses,
\* whatever other releases do to the database meanwhile (services.ts).
THEOREM SchemaKept == BootSpec => []SchemaServes
BY SchemaInvariance, Serving, PTL

\* A start takes the steps of the key set, so what they keep it keeps.
LEMMA BootTakesKeySteps == [BootNext]_bootVars => [KeyNext]_keyVars
<1>. SUFFICES ASSUME [BootNext]_bootVars PROVE [KeyNext]_keyVars
  OBVIOUS
<1>1. ASSUME NEW r \in Replicas, Migrate(r) \/ MigrationDies(r) \/ JobEnds(r)
      PROVE UNCHANGED keyVars
  BY <1>1 DEF Migrate, MigrationDies, JobEnds
<1>2. ASSUME NEW r \in Replicas, ResolveKeys(r) \/ Exit(r) \/ Store(r) PROVE KeyNext
  BY <1>2 DEF ResolveKeys, Exit, Store, KeyNext
<1>3. CASE Operate
  BY <1>3 DEF Operate
<1>4. CASE Redeploy
  BY <1>4 DEF Redeploy, KeyNext
<1>5. CASE UNCHANGED bootVars
  BY <1>5 DEF bootVars
<1>. QED BY <1>1, <1>2, <1>3, <1>4, <1>5 DEF BootNext

\* SecretsRecoverable: whatever races, dies or is rolled out while the gateway
\* starts, every stored secret stays readable (crypto.ts, key-manager.ts).
THEOREM SecretsSurvive == BootSpec => []SecretsRecoverable
<1>1. BootInit => KeyInv
  BY KeyInitInv DEF BootInit
<1>2. KeyInv /\ [BootNext]_bootVars => KeyInv'
  BY BootTakesKeySteps, KeyInvStep
<1>3. KeyInv => SecretsRecoverable
  BY DEF KeyInv
<1>. QED BY <1>1, <1>2, <1>3, PTL DEF BootSpec

-----------------------------------------------------------------------------
(* The authorization server.                                               *)

\* A new row gets an id of its own.
LEMMA FreshCode ==
  ASSUME NewCodes # {}
  PROVE  (CHOOSE x \in NewCodes : TRUE) \in NewCodes
  OBVIOUS

LEMMA FreshToken ==
  ASSUME NewTokens # {}
  PROVE  (CHOOSE x \in NewTokens : TRUE) \in NewTokens
  OBVIOUS

\* What a step writes into a request or a row is one.
LEMMA RequestType ==
  /\ Idle \in Request
  /\ \A r \in Request, at \in Pcs : [r EXCEPT !.pc = at] \in Request
  /\ \A at \in Pcs, p \in Pendings, u \in Users :
       [Idle EXCEPT !.pc = at, !.p = p, !.u = u] \in Request
  /\ \A at \in Pcs, u \in Users : [Idle EXCEPT !.pc = at, !.u = u] \in Request
  /\ \A at \in Pcs, c \in Codes : [Idle EXCEPT !.pc = at, !.c = c] \in Request
  /\ \A at \in Pcs, k \in Tokens, c \in Codes :
       [Idle EXCEPT !.pc = at, !.k = k, !.c = c] \in Request
  BY DEF Idle, Request, Pcs

LEMMA RowType ==
  /\ \A r \in CodeRow, st \in RowStates : [r EXCEPT !.st = st] \in CodeRow
  /\ \A r \in TokenRow, st \in RowStates : [r EXCEPT !.st = st] \in TokenRow
  /\ \A p \in Pendings, u \in Users : [st |-> "live", p |-> p, u |-> u] \in CodeRow
  /\ \A c \in Codes : [st |-> "live", c |-> c] \in TokenRow
  /\ NoCode \in CodeRow /\ NoToken \in TokenRow
  BY DEF CodeRow, TokenRow, RowStates, NoCode, NoToken

\* Where a request's step puts its request.
LEMMA RequestStep ==
  ASSUME TypeOK, NEW q \in Requests
  PROVE  /\ \A at \in Pcs : Goto(q, at) => req' \in [Requests -> Request]
         /\ Done(q) => req' \in [Requests -> Request]
         /\ \A r \in Request : req' = [req EXCEPT ![q] = r] => req' \in [Requests -> Request]
<1>1. req \in [Requests -> Request] /\ req[q] \in Request
  BY DEF TypeOK
<1>2. ASSUME NEW r \in Request, req' = [req EXCEPT ![q] = r]
      PROVE  req' \in [Requests -> Request]
  BY <1>1, <1>2
<1>3. ASSUME NEW at \in Pcs, Goto(q, at) PROVE req' \in [Requests -> Request]
  <2>1. req' = [req EXCEPT ![q] = [req[q] EXCEPT !.pc = at]]
    BY <1>1, <1>3, Zenon DEF Goto
  <2>. QED BY <2>1, <1>1, <1>2, RequestType
<1>4. ASSUME Done(q) PROVE req' \in [Requests -> Request]
  BY <1>2, <1>4, RequestType DEF Done
<1>. QED BY <1>2, <1>3, <1>4

\* What an update of a row's state leaves.
LEMMA RowStep ==
  ASSUME TypeOK, NEW st \in RowStates
  PROVE  /\ \A c \in Codes : [code EXCEPT ![c].st = st] \in [Codes -> CodeRow]
         /\ \A k \in Tokens : [token EXCEPT ![k].st = st] \in [Tokens -> TokenRow]
  BY DEF TypeOK, CodeRow, TokenRow

LEMMA InitIndInv == Init => IndInv
<1>. SUFFICES ASSUME Init PROVE IndInv
  OBVIOUS
<1>. USE OAuthConstants DEF Init
<1>1. TypeOK
  BY RequestType, RowType DEF TypeOK, RowStates
<1>2. Claims
  BY DEF Claims, Claim, Issued, Idle, NoToken
<1>3. OneBearer
  BY DEF OneBearer, Holding, There, Idle, NoToken
<1>. QED BY <1>1, <1>2, <1>3 DEF IndInv

-----------------------------------------------------------------------------
\* Every step keeps the types.
LEMMA TypeStep == IndInv /\ [Next]_vars => TypeOK'
<1>. SUFFICES ASSUME IndInv, [Next]_vars PROVE TypeOK'
  OBVIOUS
<1>0. TypeOK /\ Claims
  BY DEF IndInv
<1>a. clients + 1 \in Nat /\ faults + 1 \in Nat
  BY <1>0 DEF TypeOK
<1>. USE RequestType, RowType, RequestStep
<1>1. CASE StartAuthorize
  BY <1>0, <1>1 DEF StartAuthorize, TypeOK, RowStates
<1>2. CASE Expire
  <2>1. UNCHANGED <<account, decided, clients, req, faults>>
    BY <1>2 DEF Expire
  <2>2. CASE /\ UNCHANGED <<code, token>>
             /\ \E p \in Pendings : pending' = [pending EXCEPT ![p] = "expired"]
    BY <1>0, <2>1, <2>2 DEF TypeOK, RowStates
  <2>3. CASE /\ UNCHANGED <<pending, token>>
             /\ \E c \in Codes : code' = [code EXCEPT ![c].st = "expired"]
    <3>1. code' \in [Codes -> CodeRow]
      <4>1. PICK c \in Codes : code' = [code EXCEPT ![c].st = "expired"]
        BY <2>3
      <4>2. [code EXCEPT ![c].st = "expired"] \in [Codes -> CodeRow]
        BY <1>0, RowStep DEF RowStates
      <4>. QED BY <4>1, <4>2
    <3>. QED BY <1>0, <2>1, <2>3, <3>1 DEF TypeOK
  <2>4. CASE /\ UNCHANGED <<pending, code>>
             /\ \E k \in Tokens : token' = [token EXCEPT ![k].st = "expired"]
    <3>1. token' \in [Tokens -> TokenRow]
      <4>1. PICK k \in Tokens : token' = [token EXCEPT ![k].st = "expired"]
        BY <2>4
      <4>2. [token EXCEPT ![k].st = "expired"] \in [Tokens -> TokenRow]
        BY <1>0, RowStep DEF RowStates
      <4>. QED BY <4>1, <4>2
    <3>. QED BY <1>0, <2>1, <2>4, <3>1 DEF TypeOK
  <2>. QED BY <1>2, <2>2, <2>3, <2>4 DEF Expire
<1>3. CASE Gc
  BY <1>0, <1>3 DEF Gc, TypeOK, RowStates
<1>4. ASSUME NEW q \in Requests, RegisterCheck(q) \/ Register(q) PROVE TypeOK'
  BY <1>0, <1>a, <1>4 DEF RegisterCheck, Register, TypeOK, Pcs, rows
<1>5. ASSUME NEW q \in Requests, Consent(q) PROVE TypeOK'
  BY <1>0, <1>5 DEF Consent, TypeOK, Pcs, rows
<1>6. ASSUME NEW q \in Requests, ApproveDrop(q) \/ Deny(q) PROVE TypeOK'
  BY <1>0, <1>6 DEF ApproveDrop, Deny, DropPending, TypeOK, Pcs, RowStates, Claims, Claim, Issued
<1>7. ASSUME NEW q \in Requests, ApproveMint(q) PROVE TypeOK'
  BY <1>0, <1>7, FreshCode DEF ApproveMint, InsertCode, NewCodes, TypeOK, Claims, Claim, Issued
<1>8. ASSUME NEW q \in Requests, ReadCode(q) PROVE TypeOK'
  BY <1>0, <1>8 DEF ReadCode, TypeOK, Pcs, rows
<1>9. ASSUME NEW q \in Requests, ReadToken(q) PROVE TypeOK'
  <2>1. PICK k \in Tokens :
          /\ token[k].st \in There
          /\ req' = [req EXCEPT ![q] = [Idle EXCEPT !.pc = "claim", !.k = k,
                                                    !.c = token[k].c]]
    BY <1>9 DEF ReadToken
  <2>2. token[k].c \in Codes
    BY <1>0, <2>1 DEF Claims, Issued, There
  <2>3. UNCHANGED <<rows, faults>>
    BY <1>9 DEF ReadToken
  <2>. QED BY <1>0, <2>1, <2>2, <2>3 DEF TypeOK, Pcs, rows
<1>10. ASSUME NEW q \in Requests, TakeCode(q) PROVE TypeOK'
  BY <1>0, <1>10 DEF TakeCode, Verified, TypeOK, Pcs, RowStates
<1>11. ASSUME NEW q \in Requests, ClaimToken(q) PROVE TypeOK'
  BY <1>0, <1>11 DEF ClaimToken, Verified, TypeOK, Pcs, RowStates
<1>12. ASSUME NEW q \in Requests, CheckUser(q) PROVE TypeOK'
  BY <1>0, <1>12 DEF CheckUser, TypeOK, Pcs, rows
<1>13. ASSUME NEW q \in Requests, Issue(q) PROVE TypeOK'
  BY <1>0, <1>13, FreshToken DEF Issue, InsertToken, NewTokens, TypeOK, Claims, Claim, Issued
<1>14. ASSUME NEW q \in Requests, DeleteUser(q) PROVE TypeOK'
  BY <1>0, <1>14 DEF DeleteUser, TypeOK, Pcs
<1>15. ASSUME NEW q \in Requests, Revoke(q) PROVE TypeOK'
  BY <1>0, <1>15 DEF Revoke, TypeOK, RowStates
<1>16. ASSUME NEW q \in Requests, Fault(q) PROVE TypeOK'
  <2>1. faults' \in Nat /\ Done(q) /\ UNCHANGED <<account, decided>>
    BY <1>a, <1>16 DEF Fault
  <2>2. CASE UNCHANGED <<pending, code, token, clients>>
    BY <1>0, <2>1, <2>2 DEF TypeOK
  <2>3. CASE DropPending(req[q].p) /\ UNCHANGED <<code, token, clients>>
    BY <1>0, <2>1, <2>3 DEF DropPending, TypeOK, RowStates
  <2>4. CASE req[q].pc = "mint" /\ NewCodes # {} /\ InsertCode(q)
             /\ UNCHANGED <<pending, token, clients>>
    BY <1>0, <2>1, <2>4, FreshCode DEF InsertCode, NewCodes, TypeOK, Claims, Claim, Issued
  <2>5. CASE code' = [code EXCEPT ![req[q].c].st = "gone"]
             /\ UNCHANGED <<pending, token, clients>>
    BY <1>0, <2>1, <2>5 DEF TypeOK, RowStates
  <2>6. CASE token' = [token EXCEPT ![req[q].k].st = "gone"]
             /\ UNCHANGED <<pending, code, clients>>
    BY <1>0, <2>1, <2>6 DEF TypeOK, RowStates
  <2>7. CASE req[q].pc = "issue" /\ NewTokens # {} /\ InsertToken(q)
             /\ UNCHANGED <<pending, code, clients>>
    BY <1>0, <2>1, <2>7, FreshToken DEF InsertToken, NewTokens, TypeOK, Claims, Claim, Issued
  <2>8. CASE clients' = clients + 1 /\ UNCHANGED <<pending, code, token>>
    BY <1>0, <1>a, <2>1, <2>8 DEF TypeOK
  <2>. QED BY <1>16, <2>2, <2>3, <2>4, <2>5, <2>6, <2>7, <2>8 DEF Fault
<1>17. ASSUME NEW u \in Users, SetDisabled(u) PROVE TypeOK'
  BY <1>0, <1>17 DEF SetDisabled, TypeOK
<1>18. CASE UNCHANGED vars
  BY <1>0, <1>18 DEF vars, TypeOK
<1>. QED BY <1>1, <1>2, <1>3, <1>4, <1>5, <1>6, <1>7, <1>8, <1>9, <1>10, <1>11,
            <1>12, <1>13, <1>14, <1>15, <1>16, <1>17, <1>18 DEF Next

-----------------------------------------------------------------------------
\* A row that once was there never comes to life again.
Aged ==
  /\ \A c \in Codes : code[c].st # "absent" =>
       /\ code'[c].st # "absent"
       /\ code[c].st = "gone" => code'[c].st = "gone"
  /\ \A k \in Tokens : token[k].st # "absent" =>
       /\ token'[k].st # "absent" /\ token'[k].c = token[k].c
       /\ token'[k].st \in There => token[k].st \in There

LEMMA RowsOnlyAge ==
  ASSUME IndInv, [Next]_vars
  PROVE  Aged
<1>0. TypeOK /\ Claims
  BY DEF IndInv
<1>1. CASE UNCHANGED <<code, token>>
  BY <1>1 DEF Aged
<1>2. CASE Expire
  BY <1>0, <1>2 DEF Expire, TypeOK, CodeRow, TokenRow, There, Aged
<1>3. CASE Gc
  BY <1>0, <1>3 DEF Gc, TypeOK, CodeRow, TokenRow, There, Aged
<1>4. ASSUME NEW q \in Requests, NewCodes # {}, InsertCode(q), token' = token
      PROVE  Aged
  BY <1>0, <1>4, FreshCode DEF InsertCode, NewCodes, TypeOK, CodeRow, TokenRow, There, Aged
<1>5. ASSUME NEW q \in Requests, NewTokens # {}, InsertToken(q), code' = code
      PROVE  Aged
  BY <1>0, <1>5, FreshToken DEF InsertToken, NewTokens, TypeOK, CodeRow, TokenRow, There, Aged
<1>6. ASSUME NEW c \in Codes, code' = [code EXCEPT ![c].st = "gone"], token' = token
      PROVE  Aged
  BY <1>0, <1>6 DEF TypeOK, CodeRow, TokenRow, There, Aged
<1>7. ASSUME NEW k \in Tokens, token' = [token EXCEPT ![k].st = "gone"], code' = code
      PROVE  Aged
  BY <1>0, <1>7 DEF TypeOK, CodeRow, TokenRow, There, Aged
<1>8. ASSUME NEW q \in Requests, Revoke(q) PROVE Aged
  BY <1>0, <1>8 DEF Revoke, TypeOK, CodeRow, TokenRow, There, Aged
<1>9. ASSUME NEW q \in Requests, TakeCode(q) \/ ClaimToken(q) PROVE Aged
  BY <1>0, <1>6, <1>7, <1>9 DEF TakeCode, ClaimToken, Claims, Claim
<1>10. ASSUME NEW q \in Requests, ApproveMint(q) \/ Issue(q) PROVE Aged
  BY <1>4, <1>5, <1>10 DEF ApproveMint, Issue
<1>11. ASSUME NEW q \in Requests, Fault(q) PROVE Aged
  BY <1>0, <1>1, <1>4, <1>5, <1>6, <1>7, <1>11 DEF Fault, Claims, Claim
<1>12. CASE StartAuthorize \/ \E u \in Users : SetDisabled(u)
  BY <1>1, <1>12 DEF StartAuthorize, SetDisabled
<1>13. ASSUME NEW q \in Requests,
              \/ RegisterCheck(q) \/ Register(q) \/ Consent(q) \/ ApproveDrop(q)
              \/ Deny(q) \/ ReadCode(q) \/ ReadToken(q) \/ CheckUser(q) \/ DeleteUser(q)
       PROVE  UNCHANGED <<code, token>>
  BY <1>13 DEF RegisterCheck, Register, Consent, ApproveDrop, Deny, ReadCode, ReadToken,
               CheckUser, DeleteUser, rows
<1>. QED BY <1>1, <1>2, <1>3, <1>8, <1>9, <1>10, <1>11, <1>12, <1>13 DEF Next, vars

-----------------------------------------------------------------------------
\* What a request has claimed stays claimed while it goes on: only its own
\* step has to be looked at.
LEMMA OtherClaims ==
  ASSUME IndInv, Aged, NEW r \in Requests, req'[r] = req[r] \/ req'[r] = Idle
  PROVE  Claim(r)'
  BY DEF IndInv, Claims, Claim, Aged, Idle

LEMMA ClaimStep == IndInv /\ [Next]_vars => \A r \in Requests : Claim(r)'
<1>. SUFFICES ASSUME IndInv, [Next]_vars, NEW r \in Requests PROVE Claim(r)'
  OBVIOUS
<1>0. TypeOK /\ Claims /\ Claim(r) /\ Aged
  BY RowsOnlyAge DEF IndInv, Claims
<1>. USE OtherClaims
<1>1. CASE UNCHANGED req
  BY <1>0, <1>1
<1>2. ASSUME NEW q \in Requests, Done(q) PROVE Claim(r)'
  BY <1>0, <1>2 DEF Done, TypeOK
<1>3. CASE Next /\ ~UNCHANGED req /\ (\A q \in Requests : ~Done(q))
  <2>1. ASSUME NEW q \in Requests, RegisterCheck(q) PROVE Claim(r)'
    BY <1>0, <2>1 DEF RegisterCheck, Goto, TypeOK, Request, Claim
  <2>2. ASSUME NEW q \in Requests, Consent(q) PROVE Claim(r)'
    BY <1>0, <2>2 DEF Consent, Idle, TypeOK, Request, Claim
  <2>3. ASSUME NEW q \in Requests, ApproveDrop(q) PROVE Claim(r)'
    BY <1>0, <2>3 DEF ApproveDrop, Goto, TypeOK, Request, Claims, Claim
  <2>4. ASSUME NEW q \in Requests, ReadCode(q) PROVE Claim(r)'
    BY <1>0, <2>4 DEF ReadCode, Idle, There, rows, TypeOK, Request, Claim
  <2>5. ASSUME NEW q \in Requests, ReadToken(q) PROVE Claim(r)'
    BY <1>0, <2>5 DEF ReadToken, Idle, There, rows, TypeOK, Request, Claim
  <2>6. ASSUME NEW q \in Requests, TakeCode(q), ~Done(q) PROVE Claim(r)'
    BY <1>0, <2>6 DEF TakeCode, Verified, Goto, TypeOK, Request, CodeRow, Claims, Claim
  <2>7. ASSUME NEW q \in Requests, ClaimToken(q), ~Done(q) PROVE Claim(r)'
    BY <1>0, <2>7 DEF ClaimToken, Verified, Goto, TypeOK, Request, Claims, Claim, Issued
  <2>8. ASSUME NEW q \in Requests, CheckUser(q), ~Done(q) PROVE Claim(r)'
    BY <1>0, <2>8 DEF CheckUser, Goto, rows, TypeOK, Request, Claims, Claim
  <2>9. ASSUME NEW q \in Requests, DeleteUser(q) PROVE Claim(r)'
    BY <1>0, <2>9 DEF DeleteUser, Idle, TypeOK, Request, Claim
  <2>10. ASSUME NEW q \in Requests,
                Register(q) \/ ApproveMint(q) \/ Deny(q) \/ Issue(q) \/ Revoke(q) \/ Fault(q)
         PROVE  Done(q)
    BY <2>10 DEF Register, ApproveMint, Deny, Issue, Revoke, Fault
  <2>11. ASSUME StartAuthorize \/ Expire \/ Gc \/ \E u \in Users : SetDisabled(u)
         PROVE  UNCHANGED req
    BY <2>11 DEF StartAuthorize, Expire, Gc, SetDisabled
  <2>. QED BY <1>3, <2>1, <2>2, <2>3, <2>4, <2>5, <2>6, <2>7, <2>8, <2>9, <2>10, <2>11
           DEF Next
<1>. QED BY <1>1, <1>2, <1>3 DEF vars

\* The only step that brings a token to life.
Issuance(q) == /\ req[q].pc = "issue" /\ NewTokens # {}
               /\ InsertToken(q) /\ Done(q) /\ code' = code

LEMMA NewTokenStep ==
  ASSUME IndInv, [Next]_vars, NEW k \in Tokens, token[k].st = "absent"
  PROVE  token'[k].st = "absent" \/ \E q \in Requests : Issuance(q)
<1>0. TypeOK /\ Claims
  BY DEF IndInv
<1>1. CASE UNCHANGED token
  BY <1>1
<1>2. CASE Expire \/ Gc
  BY <1>0, <1>2 DEF Expire, Gc, TypeOK, TokenRow
<1>3. ASSUME NEW q \in Requests, ClaimToken(q) \/ Revoke(q)
      PROVE  token'[k].st = "absent"
  BY <1>0, <1>3 DEF ClaimToken, Revoke, There, TypeOK, TokenRow, Claims, Claim
<1>4. ASSUME NEW q \in Requests, Issue(q) PROVE Issuance(q)
  BY <1>4 DEF Issue, Issuance
<1>5. ASSUME NEW q \in Requests, Fault(q)
      PROVE  token'[k].st = "absent" \/ Issuance(q)
  BY <1>0, <1>5 DEF Fault, Issuance, TypeOK, TokenRow, Claims, Claim
<1>6. CASE StartAuthorize \/ \E u \in Users : SetDisabled(u)
  BY <1>1, <1>6 DEF StartAuthorize, SetDisabled
<1>7. ASSUME NEW q \in Requests,
             \/ RegisterCheck(q) \/ Register(q) \/ Consent(q) \/ ApproveDrop(q)
             \/ ApproveMint(q) \/ Deny(q) \/ ReadCode(q) \/ TakeCode(q) \/ ReadToken(q)
             \/ CheckUser(q) \/ DeleteUser(q)
      PROVE  UNCHANGED token
  BY <1>7 DEF RegisterCheck, Register, Consent, ApproveDrop, ApproveMint, Deny, ReadCode,
              TakeCode, ReadToken, CheckUser, DeleteUser, rows
<1>. QED BY <1>1, <1>2, <1>3, <1>4, <1>5, <1>6, <1>7 DEF Next, vars

\* A token comes of a code that is spent.
LEMMA IssuedStep == IndInv /\ [Next]_vars => \A k \in Tokens : Issued(k)'
<1>. SUFFICES ASSUME IndInv, [Next]_vars, NEW k \in Tokens PROVE Issued(k)'
  OBVIOUS
<1>0. TypeOK /\ Claims /\ Issued(k) /\ Aged
  BY RowsOnlyAge DEF IndInv, Claims
<1>1. CASE token[k].st # "absent"
  BY <1>0, <1>1 DEF Aged, Issued
<1>2. ASSUME NEW q \in Requests, Issuance(q) PROVE Issued(k)'
  BY <1>0, <1>2, FreshToken
     DEF Issuance, InsertToken, NewTokens, TypeOK, TokenRow, Claims, Claim, Issued
<1>. QED BY <1>1, <1>2, NewTokenStep DEF Issued

-----------------------------------------------------------------------------
\* Only who has won a row comes to hold what it is worth.
WinsCode(q, c) == TakeCode(q) /\ req[q].c = c /\ code[c].st \in There
WinsToken(q, c) ==
  /\ ClaimToken(q) /\ req[q].c = c /\ req[q].k \in Tokens
  /\ token[req[q].k].st \in There /\ token[req[q].k].c = c
  /\ token'[req[q].k].st = "gone"

LEMMA NewHolder ==
  ASSUME IndInv, [Next]_vars, NEW q \in Requests, NEW c \in Codes, Holding(q, c)'
  PROVE  \/ Holding(q, c)
         \/ (WinsCode(q, c) \/ WinsToken(q, c)) /\ \A r \in Requests : r # q => req'[r] = req[r]
<1>0. TypeOK /\ Claims
  BY DEF IndInv
<1>1. CASE req'[q] = req[q] \/ req'[q] = Idle
  BY <1>1 DEF Holding, Idle
<1>2. CASE Next /\ req'[q] # req[q] /\ req'[q] # Idle
  <2>1. PICK s \in Requests :
          \/ RegisterCheck(s) \/ Register(s)
          \/ Consent(s) \/ ApproveDrop(s) \/ ApproveMint(s) \/ Deny(s)
          \/ ReadCode(s) \/ TakeCode(s)
          \/ ReadToken(s) \/ ClaimToken(s)
          \/ CheckUser(s) \/ Issue(s)
          \/ DeleteUser(s) \/ Revoke(s)
          \/ Fault(s)
    BY <1>2 DEF Next, StartAuthorize, Expire, Gc, SetDisabled
  <2>2. CASE \/ Register(s) \/ ApproveMint(s) \/ Deny(s) \/ Issue(s) \/ Revoke(s)
             \/ Fault(s) \/ Done(s)
    <3>1. Done(s)
      BY <2>2 DEF Register, ApproveMint, Deny, Issue, Revoke, Fault
    <3>. QED BY <1>0, <1>2, <3>1 DEF Done, TypeOK
  <2>3. CASE \/ RegisterCheck(s) \/ Consent(s) \/ ApproveDrop(s) \/ ReadCode(s)
             \/ ReadToken(s) \/ DeleteUser(s)
    <3>1. CASE RegisterCheck(s) \/ ApproveDrop(s)
      BY <1>0, <1>2, <3>1 DEF RegisterCheck, ApproveDrop, Goto, Holding, TypeOK, Request
    <3>2. CASE Consent(s)
      BY <1>0, <1>2, <3>2 DEF Consent, Idle, Holding, TypeOK
    <3>3. CASE ReadCode(s)
      BY <1>0, <1>2, <3>3 DEF ReadCode, Idle, Holding, TypeOK
    <3>4. CASE ReadToken(s) \/ DeleteUser(s)
      BY <1>0, <1>2, <3>4 DEF ReadToken, DeleteUser, Idle, Holding, TypeOK
    <3>. QED BY <2>3, <3>1, <3>2, <3>3, <3>4
  <2>4. CASE CheckUser(s) /\ ~Done(s)
    <3>1. req[s].pc = "user" /\ Goto(s, "issue")
      BY <2>4 DEF CheckUser
    <3>. QED BY <1>0, <1>2, <3>1 DEF Goto, Holding, TypeOK, Request
  <2>5. CASE TakeCode(s) /\ ~Done(s)
    <3>1. req[s].pc = "take" /\ code[req[s].c].st \in There /\ Goto(s, "user")
      BY <2>5 DEF TakeCode, Verified, Wins
    <3>2. s = q
      BY <1>0, <1>2, <3>1 DEF Goto, TypeOK
    <3>3. req[q].c = c /\ \A r \in Requests : r # q => req'[r] = req[r]
      BY <1>0, <3>1, <3>2 DEF Goto, Holding, TypeOK, Request
    <3>. QED BY <2>5, <3>1, <3>2, <3>3 DEF WinsCode
  <2>6. CASE ClaimToken(s) /\ ~Done(s)
    <3>1. req[s].pc = "claim" /\ token[req[s].k].st \in There /\ Goto(s, "user")
      BY <2>6 DEF ClaimToken, Verified, Wins
    <3>2. s = q
      BY <1>0, <1>2, <3>1 DEF Goto, TypeOK
    <3>3. req[q].c = c /\ \A r \in Requests : r # q => req'[r] = req[r]
      BY <1>0, <3>1, <3>2 DEF Goto, Holding, TypeOK, Request
    <3>4. req[q].k \in Tokens /\ token[req[q].k].c = c
      BY <1>0, <3>1, <3>2, <3>3 DEF Claims, Claim
    <3>5. token'[req[q].k].st = "gone"
      BY <1>0, <2>6, <3>2, <3>4 DEF ClaimToken, TypeOK, TokenRow
    <3>. QED BY <2>6, <3>1, <3>2, <3>3, <3>4, <3>5 DEF WinsToken
  <2>. QED BY <2>1, <2>2, <2>3, <2>4, <2>5, <2>6
<1>. QED BY <1>1, <1>2 DEF vars

\* What is held is worth a code that is spent ...
LEMMA HoldsCode ==
  ASSUME IndInv, NEW q \in Requests, NEW c, Holding(q, c)
  PROVE  c \in Codes /\ code[c].st = "gone"
  BY DEF IndInv, Claims, Claim, Holding

\* ... so that nobody wins it again.
LEMMA HeldAlone ==
  ASSUME IndInv, NEW q \in Requests, NEW r \in Requests, NEW c \in Codes, Holding(q, c)
  PROVE  ~WinsCode(r, c) /\ ~WinsToken(r, c)
  BY HoldsCode DEF IndInv, OneBearer, WinsCode, WinsToken, There

\* A new token comes of a request that held what it is worth.
Issues(q, k) ==
  /\ Issuance(q) /\ Holding(q, token'[k].c)
  /\ \A l \in Tokens : l # k => token'[l] = token[l]
  /\ \A r \in Requests : r # q => req'[r] = req[r]
  /\ req'[q] = Idle

\* Before and after a step, what an approval is worth has one bearer.
LEMMA OneBearerStep == IndInv /\ [Next]_vars => OneBearer'
<1>. SUFFICES ASSUME IndInv, [Next]_vars PROVE OneBearer'
  OBVIOUS
<1>0. TypeOK /\ Claims /\ OneBearer /\ Aged
  BY RowsOnlyAge DEF IndInv
<1>1. ASSUME NEW k \in Tokens, token'[k].st \in There
      PROVE  \/ token[k].st \in There /\ token'[k].c = token[k].c
             \/ \E q \in Requests : Issues(q, k)
  <2>1. CASE token[k].st # "absent"
    BY <1>0, <1>1, <2>1 DEF Aged
  <2>2. CASE token[k].st = "absent"
    <3>1. PICK q \in Requests : Issuance(q)
      BY <1>1, <2>2, NewTokenStep DEF There
    <3>2. PICK x \in NewTokens : token' = [token EXCEPT ![x] = [st |-> "live", c |-> req[q].c]]
      BY <3>1, FreshToken DEF Issuance, InsertToken
    <3>3. x = k
      BY <1>0, <1>1, <2>2, <3>2 DEF NewTokens, There, TypeOK
    <3>4. token'[k].c = req[q].c /\ \A l \in Tokens : l # k => token'[l] = token[l]
      BY <1>0, <3>2, <3>3 DEF TypeOK
    <3>5. req'[q] = Idle /\ \A r \in Requests : r # q => req'[r] = req[r]
      BY <1>0, <3>1 DEF Issuance, Done, TypeOK
    <3>. QED BY <3>1, <3>4, <3>5 DEF Issues, Issuance, Holding
  <2>. QED BY <2>1, <2>2
<1>2. ASSUME NEW k \in Tokens, NEW l \in Tokens, token'[k].st \in There,
             token'[l].st \in There, token'[k].c = token'[l].c
      PROVE  k = l
  <2>1. CASE token[k].st \in There /\ token[l].st \in There
    BY <1>0, <1>1, <1>2, <2>1, RowsOnlyAge DEF OneBearer, Aged, There
  <2>2. ASSUME NEW m \in Tokens, NEW n \in Tokens, token[m].st \notin There,
               token'[m].st \in There, token'[n].st \in There, token'[m].c = token'[n].c
        PROVE  m = n
    <3>1. PICK q \in Requests : Issues(q, m)
      BY <1>1, <2>2
    <3>2. ASSUME n # m PROVE FALSE
      <4>1. token'[n] = token[n]
        BY <3>1, <3>2 DEF Issues
      <4>. QED BY <1>0, <2>2, <3>1, <4>1, HoldsCode DEF Issues, OneBearer
    <3>. QED BY <3>2
  <2>. QED BY <1>2, <2>1, <2>2
<1>3. ASSUME NEW q \in Requests, NEW c \in Codes, Holding(q, c)'
      PROVE  /\ \A r \in Requests : Holding(r, c)' => r = q
             /\ \A k \in Tokens : token'[k].st \in There => token'[k].c # c
  <2>0. \/ Holding(q, c)
        \/ (WinsCode(q, c) \/ WinsToken(q, c)) /\ \A r \in Requests : r # q => req'[r] = req[r]
    BY <1>3, NewHolder
  <2>1. ASSUME NEW r \in Requests, Holding(r, c)', r # q PROVE FALSE
    <3>1. \/ Holding(r, c)
          \/ (WinsCode(r, c) \/ WinsToken(r, c)) /\ req'[q] = req[q]
      BY <2>1, NewHolder
    <3>2. CASE Holding(q, c) /\ Holding(r, c)
      BY <1>0, <2>1, <3>2 DEF OneBearer
    <3>3. CASE Holding(r, c) /\ ~Holding(q, c)
      BY <1>0, <2>0, <3>3, HeldAlone
    <3>4. CASE Holding(q, c) /\ ~Holding(r, c)
      BY <1>0, <3>1, <3>4, HeldAlone
    <3>5. CASE ~Holding(q, c) /\ ~Holding(r, c)
      BY <1>3, <2>0, <2>1, <3>1, <3>5 DEF Holding
    <3>. QED BY <3>2, <3>3, <3>4, <3>5
  <2>2. ASSUME NEW k \in Tokens, token'[k].st \in There, token'[k].c = c PROVE FALSE
    <3>1. CASE token[k].st \in There /\ token[k].c = c
      <4>1. ~Holding(q, c)
        BY <1>0, <3>1 DEF OneBearer
      <4>2. ~WinsCode(q, c)
        BY <1>0, <3>1 DEF WinsCode, Claims, Issued, There
      <4>3. ~WinsToken(q, c)
        BY <1>0, <2>2, <3>1 DEF WinsToken, OneBearer, There
      <4>. QED BY <2>0, <4>1, <4>2, <4>3
    <3>2. ASSUME NEW s \in Requests, Issues(s, k) PROVE FALSE
      <4>1. Holding(s, c) /\ s # q /\ req'[q] = req[q]
        BY <1>3, <2>2, <3>2 DEF Issues, Holding, Idle
      <4>2. Holding(q, c)
        BY <1>3, <4>1 DEF Holding
      <4>. QED BY <1>0, <4>1, <4>2 DEF OneBearer
    <3>. QED BY <1>1, <2>2, <3>1, <3>2
  <2>. QED BY <2>1, <2>2
<1>. QED BY <1>2, <1>3 DEF OneBearer, Holding

LEMMA IndInvStep == IndInv /\ [Next]_vars => IndInv'
  BY TypeStep, ClaimStep, IssuedStep, OneBearerStep DEF IndInv, Claims

-----------------------------------------------------------------------------
\* In every reachable state a token comes of a spent code and a consent has
\* one bearer (oauth.service.ts:292-348).
THEOREM Invariance == Spec => []IndInv
<1>1. Init => IndInv
  BY InitIndInv
<1>2. IndInv /\ [Next]_vars => IndInv'
  BY IndInvStep
<1>. QED BY <1>1, <1>2, PTL DEF Spec

\* Codes and refresh tokens are single-use and rotation never forks: two
\* live things never descend from one code (oauth.service.ts:299, :314).
THEOREM NeverForks == Spec => []NoFork
<1>1. IndInv => NoFork
  <2>1. SUFFICES ASSUME IndInv, NEW c \in Codes, NEW x \in Bearers(c), NEW y \in Bearers(c)
                 PROVE  x = y
    BY DEF NoFork
  <2>2. ASSUME NEW q \in Requests, Holding(q, c)
        PROVE  code[c].st = "gone"
    BY <2>1, <2>2, HoldsCode
  <2>3. ASSUME NEW k \in Tokens, token[k].st \in There, token[k].c = c
        PROVE  code[c].st = "gone"
    BY <2>1, <2>3 DEF IndInv, Claims, Issued, There
  <2>4. CASE code[c].st \in There
    <3>1. \A z \in Bearers(c) : z = <<"code", c>>
      BY <2>2, <2>3, <2>4 DEF Bearers, There
    <3>. QED BY <3>1
  <2>5. CASE code[c].st \notin There
    <3>1. \A z \in Bearers(c) :
            \/ \E k \in Tokens : z = <<"token", k>> /\ token[k].st \in There /\ token[k].c = c
            \/ \E q \in Requests : z = <<"request", q>> /\ Holding(q, c)
      BY <2>5 DEF Bearers
    <3>. QED BY <2>1, <3>1 DEF IndInv, OneBearer
  <2>. QED BY <2>4, <2>5
<1>. QED BY <1>1, Invariance, PTL

-----------------------------------------------------------------------------
\* A step registers a client that was counted, counts for one, or neither.
LEMMA CountStep ==
  ASSUME IndInv, [Next]_vars
  PROVE  \/ clients' = clients /\ Counted' \subseteq Counted
         \/ \E q \in Requests : UnderCap /\ clients' = clients /\ Counted' \subseteq Counted \cup {q}
         \/ \E q \in Counted : clients' = clients + 1 /\ Counted' \subseteq Counted \ {q}
<1>. DEFINE Quiet == clients' = clients /\ Counted' \subseteq Counted
<1>0. TypeOK
  BY DEF IndInv
<1>1. ASSUME clients' = clients, UNCHANGED req PROVE Quiet
  BY <1>1 DEF Counted
<1>2. ASSUME NEW q \in Requests, Done(q)
      PROVE  Counted' = Counted \ {q}
  BY <1>0, <1>2 DEF Done, Counted, Idle, TypeOK
<1>3. ASSUME NEW q \in Requests, NEW r, req' = [req EXCEPT ![q] = r], r.pc # "register"
      PROVE  Counted' \subseteq Counted
  BY <1>0, <1>3 DEF Counted, TypeOK
<1>4. ASSUME NEW q \in Requests, NEW at, Goto(q, at), at # "register"
      PROVE  Counted' \subseteq Counted
  <2>1. \A r \in Requests : r # q => req'[r] = req[r]
    BY <1>0, <1>4 DEF Goto, TypeOK
  <2>2. req'[q].pc = at
    BY <1>0, <1>4 DEF Goto, TypeOK, Request
  <2>. QED BY <1>4, <2>1, <2>2 DEF Counted
<1>5. CASE \/ StartAuthorize \/ Expire \/ Gc \/ (\E u \in Users : SetDisabled(u))
           \/ UNCHANGED vars
  BY <1>1, <1>5 DEF StartAuthorize, Expire, Gc, SetDisabled, vars
<1>6. ASSUME NEW q \in Requests, RegisterCheck(q)
      PROVE  UnderCap /\ clients' = clients /\ Counted' \subseteq Counted \cup {q}
  BY <1>0, <1>6 DEF RegisterCheck, Goto, Counted, rows, TypeOK
<1>7. ASSUME NEW q \in Requests, Register(q)
      PROVE  q \in Counted /\ clients' = clients + 1 /\ Counted' \subseteq Counted \ {q}
  BY <1>2, <1>7 DEF Register, Counted
<1>8. ASSUME NEW q \in Requests, ApproveDrop(q) \/ TakeCode(q) \/ ClaimToken(q) \/ CheckUser(q)
      PROVE  Quiet
  <2>1. clients' = clients /\ (Done(q) \/ Goto(q, "mint") \/ Goto(q, "user") \/ Goto(q, "issue"))
    BY <1>8 DEF ApproveDrop, TakeCode, ClaimToken, CheckUser, Verified, rows
  <2>. QED BY <1>2, <1>4, <2>1
<1>9. ASSUME NEW q \in Requests,
             Consent(q) \/ ReadCode(q) \/ ReadToken(q) \/ DeleteUser(q)
      PROVE  Quiet
  <2>1. clients' = clients
    BY <1>9 DEF Consent, ReadCode, ReadToken, DeleteUser, rows
  <2>2. \E r \in [pc : Pcs \ {"register"}, p : Pendings \cup {None}, u : Users \cup {None},
                  c : UNION {Codes, {None}, {token[k].c : k \in Tokens}},
                  k : Tokens \cup {None}] : req' = [req EXCEPT ![q] = r]
    BY <1>9 DEF Consent, ReadCode, ReadToken, DeleteUser, Idle, Pcs
  <2>. QED BY <1>3, <2>1, <2>2
<1>10. ASSUME NEW q \in Requests,
              ApproveMint(q) \/ Deny(q) \/ Issue(q) \/ Revoke(q)
       PROVE  Quiet
  BY <1>2, <1>10 DEF ApproveMint, Deny, Issue, Revoke
<1>11. ASSUME NEW q \in Requests, Fault(q)
       PROVE  \/ Quiet
              \/ q \in Counted /\ clients' = clients + 1 /\ Counted' \subseteq Counted \ {q}
  BY <1>2, <1>11 DEF Fault, Counted
<1>. QED BY <1>5, <1>6, <1>7, <1>8, <1>9, <1>10, <1>11 DEF Next

\* Registration overshoots the cap by the requests that counted at the same
\* time, less one, and by no more (oauth.service.ts:156).
THEOREM CapNearlyHolds == Spec => []CapOvershoot
<1>0. IsFiniteSet(Requests) /\ MaxClients \in Nat \ {0} /\ Cardinality(Requests) \in Nat
  BY OAuthConstants, FS_CardinalityType
<1>1. Init => CapOvershoot
  <2>1. SUFFICES ASSUME Init PROVE CapOvershoot
    OBVIOUS
  <2>2. Counted = {} /\ clients = 0
    BY <2>1 DEF Init, Counted, Idle
  <2>3. Cardinality(Counted) = 0
    BY <2>2, FS_EmptySet
  <2>. QED BY <1>0, <2>2, <2>3 DEF CapOvershoot
<1>2. IndInv /\ CapOvershoot /\ [Next]_vars => CapOvershoot'
  <2>. SUFFICES ASSUME IndInv, CapOvershoot, [Next]_vars PROVE CapOvershoot'
    OBVIOUS
  <2>0. IsFiniteSet(Counted) /\ Cardinality(Counted) \in Nat /\ clients \in Nat
    BY <1>0, FS_Subset, FS_CardinalityType DEF Counted, IndInv, TypeOK
  <2>1. IsFiniteSet(Counted') /\ Cardinality(Counted') \in Nat
        /\ Cardinality(Counted') <= Cardinality(Requests)
    <3>1. Counted' \subseteq Requests
      BY DEF Counted
    <3>. QED BY <1>0, <3>1, FS_Subset, FS_CardinalityType
  <2>2. CASE clients' = clients /\ Counted' \subseteq Counted
    <3>1. Cardinality(Counted') <= Cardinality(Counted)
      BY <2>0, <2>2, FS_Subset
    <3>. QED BY <1>0, <2>0, <2>1, <2>2, <3>1 DEF CapOvershoot
  <2>3. CASE UnderCap /\ clients' = clients
    BY <1>0, <2>0, <2>1, <2>3 DEF CapOvershoot, UnderCap
  <2>4. ASSUME NEW q \in Counted, clients' = clients + 1, Counted' \subseteq Counted \ {q}
        PROVE  CapOvershoot'
    <3>1. IsFiniteSet(Counted \ {q}) /\ Cardinality(Counted \ {q}) = Cardinality(Counted) - 1
      BY <2>0, FS_RemoveElement
    <3>2. Cardinality(Counted') <= Cardinality(Counted \ {q})
      BY <2>4, <3>1, FS_Subset
    <3>. QED BY <1>0, <2>0, <2>1, <2>4, <3>1, <3>2 DEF CapOvershoot
  <2>. QED BY <2>2, <2>3, <2>4, CountStep
<1>. QED BY <1>1, <1>2, Invariance, PTL DEF Spec

-----------------------------------------------------------------------------
(* What outlasts a decision and a deletion.                                *)

\* A request takes up a consent only while it is pending, comes to mint by
\* dropping it, and comes to issue by asking for the account.
TakesUp(q) == pending[req'[q].p] = "live" /\ req'[q].pc \notin {"mint", "issue"}
Drops(q) ==
  /\ req'[q].p = req[q].p /\ req'[q].pc = "mint"
  /\ pending' = [pending EXCEPT ![req[q].p] = "gone"]
Checks(q) ==
  /\ req'[q].p = req[q].p /\ req'[q].c = req[q].c /\ req'[q].pc = "issue"
  /\ code' = code /\ account[code[req[q].c].u] = "active"
GoesOn(q) ==
  /\ req'[q].p \in {req[q].p, None}
  /\ req'[q].pc \notin {"mint", "issue"}

LEMMA RequestsMove ==
  ASSUME IndInv, [Next]_vars, NEW q \in Requests
  PROVE  req'[q] = req[q] \/ GoesOn(q) \/ TakesUp(q) \/ Drops(q) \/ Checks(q)
<1>0. req \in [Requests -> Request]
  BY DEF IndInv, TypeOK
<1>. DEFINE Moves == req'[q] = req[q] \/ GoesOn(q) \/ TakesUp(q) \/ Drops(q) \/ Checks(q)
<1>1. ASSUME NEW r \in Requests, Done(r) PROVE Moves
  BY <1>0, <1>1 DEF Done, Idle, GoesOn
<1>2. ASSUME NEW r \in Requests, NEW at \in Pcs, Goto(r, at)
      PROVE  /\ r # q => req'[q] = req[q]
             /\ r = q => /\ req'[q].pc = at
                         /\ req'[q].p = req[q].p /\ req'[q].c = req[q].c
  BY <1>0, <1>2 DEF Goto, Request
<1>3. ASSUME NEW r \in Requests, RegisterCheck(r) PROVE Moves
  BY <1>2, <1>3 DEF RegisterCheck, GoesOn, Pcs
<1>4. ASSUME NEW r \in Requests, ApproveDrop(r) PROVE Moves
  BY <1>2, <1>4 DEF ApproveDrop, DropPending, Drops, Pcs
<1>5. ASSUME NEW r \in Requests, TakeCode(r) \/ ClaimToken(r) PROVE Moves
  <2>1. Done(r) \/ Goto(r, "user")
    BY <1>5 DEF TakeCode, ClaimToken, Verified
  <2>. QED BY <1>1, <1>2, <2>1 DEF GoesOn, Pcs
<1>6. ASSUME NEW r \in Requests, CheckUser(r) PROVE Moves
  <2>1. CASE Done(r)
    BY <1>1, <2>1
  <2>2. CASE ~Done(r)
    <3>1. Goto(r, "issue") /\ code' = code /\ account[code[req[r].c].u] = "active"
      BY <1>6, <2>2 DEF CheckUser, MayHaveTokens, rows
    <3>. QED BY <1>2, <3>1 DEF Checks, Pcs
  <2>. QED BY <2>1, <2>2
<1>7. ASSUME NEW r \in Requests, Consent(r) PROVE Moves
  BY <1>0, <1>7 DEF Consent, Idle, TakesUp
<1>8. ASSUME NEW r \in Requests, ReadCode(r) \/ ReadToken(r) \/ DeleteUser(r) PROVE Moves
  BY <1>0, <1>8 DEF ReadCode, ReadToken, DeleteUser, Idle, GoesOn
<1>9. ASSUME NEW r \in Requests,
             Register(r) \/ ApproveMint(r) \/ Deny(r) \/ Issue(r) \/ Revoke(r) \/ Fault(r)
      PROVE  Done(r)
  BY <1>9 DEF Register, ApproveMint, Deny, Issue, Revoke, Fault
<1>10. CASE \/ StartAuthorize \/ Expire \/ Gc \/ \E u \in Users : SetDisabled(u)
            \/ UNCHANGED vars
  BY <1>10 DEF StartAuthorize, Expire, Gc, SetDisabled, vars
<1>. QED BY <1>1, <1>3, <1>4, <1>5, <1>6, <1>7, <1>8, <1>9, <1>10 DEF Next

\* A code is of its consent and its user for good.
Same(c) == code'[c].p = code[c].p /\ code'[c].u = code[c].u
Mints(q) == req[q].pc = "mint" /\ NewCodes # {} /\ InsertCode(q)

LEMMA CodesStay ==
  ASSUME IndInv, [Next]_vars
  PROVE  /\ (\A c \in Codes : Same(c)) \/ (\E q \in Requests : Mints(q))
         /\ \A c \in Codes : code[c].st # "absent" => Same(c)
<1>0. code \in [Codes -> CodeRow] /\ Claims
  BY DEF IndInv, TypeOK
<1>. DEFINE Stay == \A c \in Codes : Same(c)
<1>1. ASSUME NEW c \in Codes, code' = [code EXCEPT ![c].st = "gone"] PROVE Stay
  BY <1>0, <1>1 DEF CodeRow, Same
<1>2. ASSUME UNCHANGED code PROVE Stay
  BY <1>2 DEF Same
<1>3. ASSUME NEW q \in Requests, Mints(q)
      PROVE  \A c \in Codes : code[c].st # "absent" => Same(c)
  BY <1>0, <1>3, FreshCode DEF Mints, InsertCode, NewCodes, Same
<1>4. CASE Expire \/ Gc
  BY <1>0, <1>4 DEF Expire, Gc, CodeRow, Same
<1>5. ASSUME NEW q \in Requests, TakeCode(q) PROVE Stay
  BY <1>0, <1>1, <1>5 DEF TakeCode, Claims, Claim
<1>6. ASSUME NEW q \in Requests, ApproveMint(q) PROVE Mints(q)
  BY <1>6 DEF ApproveMint, Mints
<1>7. ASSUME NEW q \in Requests, Fault(q) PROVE Stay \/ Mints(q)
  <2>1. \/ UNCHANGED code
        \/ Mints(q)
        \/ req[q].pc = "take" /\ code' = [code EXCEPT ![req[q].c].st = "gone"]
    BY <1>7 DEF Fault, Mints
  <2>2. req[q].pc = "take" => req[q].c \in Codes
    BY <1>0 DEF Claims, Claim
  <2>. QED BY <1>1, <1>2, <2>1, <2>2
<1>8. ASSUME NEW q \in Requests,
             \/ RegisterCheck(q) \/ Register(q) \/ Consent(q) \/ ApproveDrop(q)
             \/ Deny(q) \/ ReadCode(q) \/ ReadToken(q) \/ ClaimToken(q) \/ CheckUser(q)
             \/ Issue(q) \/ DeleteUser(q) \/ Revoke(q)
      PROVE  UNCHANGED code
  BY <1>8 DEF RegisterCheck, Register, Consent, ApproveDrop, Deny, ReadCode, ReadToken,
    ClaimToken, CheckUser, Issue, DeleteUser, Revoke, rows
<1>9. CASE StartAuthorize \/ (\E u \in Users : SetDisabled(u)) \/ UNCHANGED vars
  BY <1>2, <1>9 DEF StartAuthorize, SetDisabled, vars
<1>. QED BY <1>2, <1>3, <1>4, <1>5, <1>6, <1>7, <1>8, <1>9 DEF Next

\* A consent that was answered, or whose code is being made, is off the table.
Answered ==
  /\ \A p \in decided : pending[p] = "gone"
  /\ \A q \in Requests : req[q].pc = "mint" => pending[req[q].p] = "gone"
  /\ \A c \in Codes : code[c].st = "absent" => code[c].p = None

LEMMA PendingStep ==
  ASSUME IndInv, [Next]_vars
  PROVE  /\ \A p \in Pendings : pending[p] = "gone" => pending'[p] = "gone"
         /\ \A p \in decided' \ decided :
              \/ \E q \in Requests : req[q].pc = "mint" /\ req[q].p = p
              \/ pending'[p] = "gone"
<1>0. pending \in [Pendings -> RowStates] /\ Claims
  BY DEF IndInv, TypeOK
<1>1. CASE StartAuthorize
  <2>1. (CHOOSE x \in Pendings : pending[x] = "absent") \in Pendings
        /\ pending[CHOOSE x \in Pendings : pending[x] = "absent"] = "absent"
    BY <1>1 DEF StartAuthorize
  <2>. QED BY <1>0, <1>1, <2>1 DEF StartAuthorize
<1>2. CASE Expire \/ Gc
  BY <1>0, <1>2 DEF Expire, Gc
<1>3. ASSUME NEW q \in Requests, ApproveDrop(q) \/ Deny(q) \/ Fault(q)
      PROVE  /\ \A p \in Pendings : pending[p] = "gone" => pending'[p] = "gone"
             /\ \A p \in decided' \ decided : pending'[p] = "gone"
  BY <1>0, <1>3 DEF ApproveDrop, Deny, Fault, DropPending, Claims, Claim
<1>4. ASSUME NEW q \in Requests, ApproveMint(q)
      PROVE  pending' = pending /\ decided' = decided \cup {req[q].p} /\ req[q].pc = "mint"
  BY <1>4 DEF ApproveMint
<1>5. ASSUME NEW q \in Requests,
             \/ RegisterCheck(q) \/ Register(q) \/ Consent(q) \/ ReadCode(q)
             \/ TakeCode(q) \/ ReadToken(q) \/ ClaimToken(q) \/ CheckUser(q)
             \/ Issue(q) \/ DeleteUser(q) \/ Revoke(q)
      PROVE  UNCHANGED <<pending, decided>>
  BY <1>5 DEF RegisterCheck, Register, Consent, ReadCode, TakeCode, ReadToken, ClaimToken,
    CheckUser, Issue, DeleteUser, Revoke, rows
<1>6. CASE (\E u \in Users : SetDisabled(u)) \/ UNCHANGED vars
  BY <1>6 DEF SetDisabled, vars
<1>. QED BY <1>1, <1>2, <1>3, <1>4, <1>5, <1>6 DEF Next, Expire, Gc

LEMMA AnsweredStep == IndInv /\ Answered /\ [Next]_vars => Answered'
<1>. SUFFICES ASSUME IndInv, Answered, [Next]_vars PROVE Answered'
  OBVIOUS
<1>0. TypeOK /\ Claims
  BY DEF IndInv
<1>1. \A p \in decided' : pending'[p] = "gone"
  BY <1>0, PendingStep DEF Answered, TypeOK, Claims, Claim
<1>2. ASSUME NEW q \in Requests, req'[q].pc = "mint" PROVE pending'[req'[q].p] = "gone"
  <2>1. CASE req'[q] = req[q]
    BY <1>0, <1>2, <2>1, PendingStep DEF Answered, Claims, Claim
  <2>2. CASE Drops(q)
    <3>1. req[q].p \in Pendings
      BY <1>2, <2>2, ClaimStep DEF Drops, Claim
    <3>. QED BY <1>0, <2>2, <3>1 DEF Drops, TypeOK
  <2>. QED BY <1>2, <2>1, <2>2, RequestsMove DEF GoesOn, TakesUp, Checks
<1>3. ASSUME NEW c \in Codes, code'[c].st = "absent" PROVE code'[c].p = None
  <2>1. code[c].st = "absent"
    BY <1>3, RowsOnlyAge DEF Aged
  <2>2. ASSUME NEW q \in Requests, Mints(q) PROVE code'[c] = code[c]
    BY <1>0, <1>3, <2>2, FreshCode DEF Mints, InsertCode, NewCodes, TypeOK
  <2>. QED BY <2>1, <2>2, CodesStay DEF Answered, Same
<1>. QED BY <1>1, <1>2, <1>3 DEF Answered

\* A consent that was answered, or whose code is being made, is off the table
\* for good, whoever has read it before (oauth.service.ts).
THEOREM AnsweredStays == Spec => []Answered
<1>1. Init => Answered
  BY DEF Init, Answered, NoCode, Idle
<1>. QED BY <1>1, AnsweredStep, Invariance, PTL DEF Spec

\* A consent is worth what came of it before its decision was answered.
Closed(p, some) == p \in decided /\ ~UnderDecision(p) /\ CodesOf(p) = some

LEMMA ClosedStep ==
  ASSUME IndInv, Answered, [Next]_vars, NEW p \in Pendings, NEW some, Closed(p, some)
  PROVE  Closed(p, some)'
<1>0. TypeOK /\ Claims /\ None \notin Pendings
  BY OAuthConstants DEF IndInv
<1>1. p \in decided'
  <2>1. decided \subseteq decided'
    BY DEF Next, StartAuthorize, Expire, Gc, SetDisabled, RegisterCheck, Register, Consent,
      ApproveDrop, ApproveMint, Deny, ReadCode, TakeCode, ReadToken, ClaimToken, CheckUser,
      Issue, DeleteUser, Revoke, Fault, rows, vars
  <2>. QED BY <2>1 DEF Closed
<1>2. ~UnderDecision(p)'
  <2>1. pending[p] = "gone"
    BY DEF Closed, Answered
  <2>. QED BY <1>0, <2>1, RequestsMove DEF Closed, UnderDecision, GoesOn, TakesUp, Drops, Checks
<1>3. CodesOf(p)' = CodesOf(p)
  <2>1. ASSUME NEW q \in Requests, Mints(q), NEW c \in Codes
        PROVE  code'[c].p = p <=> code[c].p = p
    <3>1. req[q].p # p
      BY DEF Closed, UnderDecision
    <3>2. CASE c = CHOOSE x \in NewCodes : TRUE
      <4>1. c \in NewCodes /\ code'[c].p = req[q].p
        BY <1>0, <2>1, <3>2, FreshCode DEF Mints, InsertCode, TypeOK
      <4>. QED BY <1>0, <3>1, <4>1 DEF NewCodes, Answered
    <3>3. CASE c # CHOOSE x \in NewCodes : TRUE
      BY <1>0, <2>1, <3>3 DEF Mints, InsertCode, TypeOK
    <3>. QED BY <3>2, <3>3
  <2>. QED BY <2>1, CodesStay DEF CodesOf, Same
<1>. QED BY <1>1, <1>2, <1>3 DEF Closed

\* Whatever was read before and arrives late, no more codes come of a consent
\* that was decided.
THEOREM DecisionsStand == Spec => DecisionIsFinal
<1>1. ASSUME NEW p \in Pendings, NEW some \in SUBSET Codes
      PROVE  Spec => [](p \in decided /\ ~UnderDecision(p) /\ CodesOf(p) = some
                          => [](CodesOf(p) = some))
  <2>1. IndInv /\ Answered /\ Closed(p, some) /\ [Next]_vars => Closed(p, some)'
    BY ClosedStep
  <2>2. p \in decided /\ ~UnderDecision(p) /\ CodesOf(p) = some => Closed(p, some)
    BY DEF Closed
  <2>3. Closed(p, some) => CodesOf(p) = some
    BY DEF Closed
  <2>. QED BY <2>1, <2>2, <2>3, Invariance, AnsweredStays, PTL DEF Spec
<1>. QED BY <1>1 DEF DecisionIsFinal

\* The account is deleted, and nobody is about to insert a token for it.
Buried(u) == account[u] = "gone" /\ ~Issuing(u)

LEMMA BuriedStep ==
  ASSUME IndInv, [Next]_vars, NEW u \in Users, Buried(u)
  PROVE  Buried(u)'
<1>0. TypeOK /\ Claims
  BY DEF IndInv
<1>1. account'[u] = "gone"
  <2>1. \A v \in Users : SetDisabled(v) => account'[u] = "gone"
    BY <1>0 DEF SetDisabled, Buried, TypeOK
  <2>2. \A q \in Requests : DeleteUser(q) => account'[u] = "gone"
    BY <1>0 DEF DeleteUser, Buried, TypeOK
  <2>3. \/ UNCHANGED account \/ (\E v \in Users : SetDisabled(v))
        \/ (\E q \in Requests : DeleteUser(q))
    BY DEF Next, StartAuthorize, Expire, Gc, RegisterCheck, Register, Consent,
      ApproveDrop, ApproveMint, Deny, ReadCode, TakeCode, ReadToken, ClaimToken, CheckUser,
      Issue, Revoke, Fault, rows, vars
  <2>. QED BY <2>1, <2>2, <2>3 DEF Buried
<1>2. ASSUME NEW q \in Requests, req'[q].pc = "issue" PROVE code'[req'[q].c].u # u
  <2>1. CASE req'[q] = req[q]
    <3>1. req[q].c \in Codes /\ code[req[q].c].st # "absent" /\ code[req[q].c].u # u
      BY <1>0, <1>2, <2>1 DEF Claims, Claim, Buried, Issuing
    <3>. QED BY <2>1, <3>1, CodesStay DEF Same
  <2>2. CASE Checks(q)
    BY <2>2 DEF Checks, Buried
  <2>. QED BY <1>2, <2>1, <2>2, RequestsMove DEF GoesOn, TakesUp, Drops
<1>. QED BY <1>1, <1>2 DEF Buried, Issuing

\* A deleted account gets no tokens, whatever of it was under way.
THEOREM DeletionStands == Spec => NothingAfterDeletion
<1>1. ASSUME NEW u \in Users
      PROVE  Spec => [](account[u] = "gone" /\ ~Issuing(u) => []~Issuing(u))
  <2>1. IndInv /\ Buried(u) /\ [Next]_vars => Buried(u)'
    BY BuriedStep
  <2>2. account[u] = "gone" /\ ~Issuing(u) => Buried(u)
    BY DEF Buried
  <2>3. Buried(u) => ~Issuing(u)
    BY DEF Buried
  <2>. QED BY <2>1, <2>2, <2>3, Invariance, PTL DEF Spec
<1>. QED BY <1>1 DEF NothingAfterDeletion
-----------------------------------------------------------------------------
(* The authorization server implements SingleUse.                          *)

\* The only step that brings a code to life.
Minting(q) == Mints(q) /\ Done(q) /\ token' = token

LEMMA NewCodeStep ==
  ASSUME IndInv, [Next]_vars, NEW c \in Codes, code[c].st = "absent"
  PROVE  code'[c].st = "absent" \/ \E q \in Requests : Minting(q)
<1>0. code \in [Codes -> CodeRow] /\ Claims
  BY DEF IndInv, TypeOK
<1>1. CASE UNCHANGED code
  BY <1>1
<1>2. CASE Expire \/ Gc
  BY <1>0, <1>2 DEF Expire, Gc, CodeRow
<1>3. ASSUME NEW q \in Requests, TakeCode(q) PROVE code'[c].st = "absent"
  BY <1>0, <1>3 DEF TakeCode, Claims, Claim
<1>4. ASSUME NEW q \in Requests, ApproveMint(q) PROVE Minting(q)
  BY <1>4 DEF ApproveMint, Mints, Minting
<1>5. ASSUME NEW q \in Requests, Fault(q) PROVE code'[c].st = "absent" \/ Minting(q)
  BY <1>0, <1>5 DEF Fault, Mints, Minting, Claims, Claim
<1>6. ASSUME NEW q \in Requests,
             \/ RegisterCheck(q) \/ Register(q) \/ Consent(q) \/ ApproveDrop(q)
             \/ Deny(q) \/ ReadCode(q) \/ ReadToken(q) \/ ClaimToken(q) \/ CheckUser(q)
             \/ Issue(q) \/ DeleteUser(q) \/ Revoke(q)
      PROVE  UNCHANGED code
  BY <1>6 DEF RegisterCheck, Register, Consent, ApproveDrop, Deny, ReadCode, ReadToken,
    ClaimToken, CheckUser, Issue, DeleteUser, Revoke, rows
<1>7. CASE StartAuthorize \/ (\E u \in Users : SetDisabled(u)) \/ UNCHANGED vars
  BY <1>1, <1>7 DEF StartAuthorize, SetDisabled, vars
<1>. QED BY <1>1, <1>2, <1>3, <1>4, <1>5, <1>6, <1>7 DEF Next

\* Where a step brings a bearer of one code and leaves the others theirs, it
\* is the only one.
LEMMA TakesOver ==
  ASSUME NoFork', NEW c \in Codes, NEW y \in Bearers(c)',
         \A d \in Codes \ {c} : Bearers(d)' = Bearers(d)
  PROVE  AllBearers' = [AllBearers EXCEPT ![c] = {y}]
<1>1. Bearers(c)' = {y}
  BY DEF NoFork
<1>. QED BY <1>1 DEF AllBearers

\* Where no step brings a bearer, some may be lost.
LEMMA OnlyLoses ==
  ASSUME NoFork, GivenOut' = GivenOut, \A c \in Codes : Bearers(c)' \subseteq Bearers(c)
  PROVE  Abstract!Lose({c \in Codes : Bearers(c)' = {}})
<1>1. ASSUME NEW c \in Codes PROVE Bearers(c)' = Bearers(c) \/ Bearers(c)' = {}
  BY DEF NoFork
<1>. QED BY <1>1 DEF Abstract!Lose, AllBearers

\* Who bears what a code is worth.
LEMMA Bears ==
  ASSUME NEW c \in Codes
  PROVE  /\ <<"code", c>> \in Bearers(c) <=> code[c].st \in There
         /\ \A k \in Tokens :
              <<"token", k>> \in Bearers(c) <=> token[k].st \in There /\ token[k].c = c
         /\ \A q \in Requests : <<"request", q>> \in Bearers(c) <=> Holding(q, c)
  BY DEF Bearers

LEMMA BearsNext ==
  ASSUME NEW c \in Codes
  PROVE  /\ <<"code", c>> \in Bearers(c)' <=> code'[c].st \in There
         /\ \A k \in Tokens :
              <<"token", k>> \in Bearers(c)' <=> token'[k].st \in There /\ token'[k].c = c
         /\ \A q \in Requests : <<"request", q>> \in Bearers(c)' <=> Holding(q, c)'
  BY DEF Bearers

\* Where its rows and the requests that hold it are the same, so are its bearers.
LEMMA SameBearers ==
  ASSUME NEW d \in Codes,
         code'[d].st \in There <=> code[d].st \in There,
         \A k \in Tokens : token'[k].st \in There /\ token'[k].c = d
                             <=> token[k].st \in There /\ token[k].c = d,
         \A q \in Requests : Holding(q, d)' <=> Holding(q, d)
  PROVE  Bearers(d)' = Bearers(d)
<1>1. {y \in {d} : code'[y].st \in There} = {y \in {d} : code[y].st \in There}
  OBVIOUS
<1>2. {y \in Tokens : token'[y].st \in There /\ token'[y].c = d}
        = {y \in Tokens : token[y].st \in There /\ token[y].c = d}
  OBVIOUS
<1>3. {y \in Requests : Holding(y, d)}' = {y \in Requests : Holding(y, d)}
  OBVIOUS
<1>. QED BY <1>1, <1>2, <1>3, Zenon DEF Bearers

LEMMA MintingRefines ==
  ASSUME IndInv, NoFork', NEW q \in Requests, Minting(q)
  PROVE  Abstract!SUNext
<1>0. TypeOK /\ Claims /\ OneBearer
  BY DEF IndInv
<1>1. PICK c \in NewCodes :
        code' = [code EXCEPT ![c] = [st |-> "live", p |-> req[q].p, u |-> req[q].u]]
  BY FreshCode DEF Minting, Mints, InsertCode
<1>2. c \in Codes /\ code[c].st = "absent"
  BY <1>1 DEF NewCodes
<1>3. /\ code'[c].st = "live"
      /\ \A d \in Codes \ {c} : code'[d] = code[d]
  BY <1>0, <1>1, <1>2 DEF TypeOK
<1>4. ASSUME NEW d \in Codes, NEW r \in Requests PROVE Holding(r, d)' <=> Holding(r, d)
  BY <1>0 DEF Minting, Mints, Done, Idle, Holding, TypeOK
<1>5. \A d \in Codes \ {c} : Bearers(d)' = Bearers(d)
  BY <1>3, <1>4, SameBearers DEF Minting
<1>6. <<"code", c>> \in Bearers(c)'
  BY <1>2, <1>3, BearsNext DEF There
<1>7. AllBearers' = [AllBearers EXCEPT ![c] = {<<"code", c>>}]
  BY <1>2, <1>5, <1>6, TakesOver
<1>8. GivenOut' = GivenOut \cup {c} /\ c \notin GivenOut
  BY <1>2, <1>3 DEF GivenOut
<1>9. Abstract!GiveCode(c)
  BY <1>7, <1>8 DEF Abstract!GiveCode
<1>. QED BY <1>2, <1>9 DEF Abstract!SUNext

LEMMA WinningRefines ==
  ASSUME IndInv, NoFork, NoFork', NEW q \in Requests, NEW c \in Codes, Holding(q, c)',
         WinsCode(q, c) \/ WinsToken(q, c),
         \A r \in Requests : r # q => req'[r] = req[r]
  PROVE  Abstract!SUNext
<1>0. TypeOK /\ Claims
  BY DEF IndInv
<1>1. req[q].pc \in {"take", "claim"} /\ req'[q].c = c
  BY DEF WinsCode, WinsToken, TakeCode, ClaimToken, Holding
<1>2. ASSUME NEW d \in Codes \ {c}, NEW r \in Requests PROVE Holding(r, d)' <=> Holding(r, d)
  BY <1>1 DEF Holding
<1>3. <<"request", q>> \in Bearers(c)'
  BY BearsNext
<1>4. CASE WinsCode(q, c)
  <2>1. code' = [code EXCEPT ![c].st = "gone"] /\ token' = token
    BY <1>4 DEF WinsCode, TakeCode
  <2>2. /\ \A d \in Codes : d # c => code'[d] = code[d]
        /\ code'[c].st = "gone"
    BY <1>0, <2>1 DEF TypeOK, CodeRow
  <2>3. \A d \in Codes \ {c} : Bearers(d)' = Bearers(d)
    BY <1>2, <2>1, <2>2, SameBearers
  <2>4. <<"code", c>> \in Bearers(c)
    BY <1>4, Bears DEF WinsCode
  <2>5. Bearers(c) = {<<"code", c>>}
    BY <2>4 DEF NoFork
  <2>6. GivenOut' = GivenOut
    BY <1>4, <2>2 DEF GivenOut, WinsCode, There
  <2>7. Abstract!Redeem(c, <<"code", c>>, q)
    BY <1>3, <2>3, <2>5, <2>6, TakesOver DEF Abstract!Redeem, AllBearers
  <2>. QED BY <2>7 DEF Abstract!SUNext
<1>5. CASE WinsToken(q, c)
  <2>. DEFINE k == req[q].k
  <2>1. /\ k \in Tokens /\ token[k].st \in There /\ token[k].c = c
        /\ token' = [token EXCEPT ![k].st = "gone"] /\ code' = code
    BY <1>5 DEF WinsToken, ClaimToken
  <2>2. /\ \A l \in Tokens : l # k => token'[l] = token[l]
        /\ token'[k].st = "gone"
    BY <1>0, <2>1 DEF TypeOK, TokenRow
  <2>3. ASSUME NEW d \in Codes \ {c}, NEW l \in Tokens
        PROVE  token'[l].st \in There /\ token'[l].c = d <=> token[l].st \in There /\ token[l].c = d
    BY <2>1, <2>2 DEF There
  <2>4. \A d \in Codes \ {c} : Bearers(d)' = Bearers(d)
    BY <1>2, <2>1, <2>3, SameBearers
  <2>5. <<"token", k>> \in Bearers(c)
    BY <2>1, Bears
  <2>6. Bearers(c) = {<<"token", k>>}
    BY <2>5 DEF NoFork
  <2>7. Abstract!Redeem(c, <<"token", k>>, q)
    BY <1>3, <2>1, <2>4, <2>6, TakesOver DEF Abstract!Redeem, AllBearers, GivenOut
  <2>. QED BY <2>1, <2>7 DEF Abstract!SUNext
<1>. QED BY <1>4, <1>5

LEMMA IssuanceRefines ==
  ASSUME IndInv, NoFork, NoFork', NEW q \in Requests, Issuance(q)
  PROVE  Abstract!SUNext
<1>0. TypeOK /\ Claims
  BY DEF IndInv
<1>1. PICK c \in Codes : req[q].c = c /\ Holding(q, c)
  BY <1>0 DEF Issuance, Claims, Claim, Holding
<1>2. PICK k \in NewTokens : token' = [token EXCEPT ![k] = [st |-> "live", c |-> c]]
  BY <1>1, FreshToken DEF Issuance, InsertToken
<1>3. k \in Tokens /\ token[k].st = "absent"
  BY <1>2 DEF NewTokens
<1>4. /\ token'[k].st = "live" /\ token'[k].c = c
      /\ \A l \in Tokens : l # k => token'[l] = token[l]
  BY <1>0, <1>2, <1>3 DEF TypeOK
<1>5. ASSUME NEW d \in Codes \ {c}, NEW r \in Requests PROVE Holding(r, d)' <=> Holding(r, d)
  <2>1. req' = [req EXCEPT ![q] = Idle]
    BY DEF Issuance, Done
  <2>. QED BY <1>0, <1>1, <2>1 DEF Idle, Holding, TypeOK
<1>6. ASSUME NEW d \in Codes \ {c}, NEW l \in Tokens
      PROVE  token'[l].st \in There /\ token'[l].c = d <=> token[l].st \in There /\ token[l].c = d
  BY <1>3, <1>4 DEF There
<1>7. \A d \in Codes \ {c} : Bearers(d)' = Bearers(d)
  BY <1>5, <1>6, SameBearers DEF Issuance
<1>8. <<"token", k>> \in Bearers(c)'
  BY <1>1, <1>3, <1>4, BearsNext DEF There
<1>9. <<"request", q>> \in Bearers(c)
  BY <1>1, Bears
<1>10. Bearers(c) = {<<"request", q>>}
  BY <1>1, <1>9 DEF NoFork
<1>11. Abstract!GiveToken(c, q, k)
  BY <1>1, <1>7, <1>8, <1>10, TakesOver DEF Abstract!GiveToken, AllBearers, Issuance, GivenOut
<1>. QED BY <1>1, <1>3, <1>11 DEF Abstract!SUNext

\* Any other step brings no bearer.
LEMMA OthersRefine ==
  ASSUME IndInv, NoFork, [Next]_vars,
         \A q \in Requests : ~Minting(q) /\ ~Issuance(q),
         \A q \in Requests, c \in Codes : Holding(q, c)' => Holding(q, c)
  PROVE  Abstract!SUNext
<1>0. TypeOK /\ Aged
  BY RowsOnlyAge DEF IndInv
<1>1. ASSUME NEW c \in Codes PROVE code'[c].st = "absent" <=> code[c].st = "absent"
  BY <1>0, NewCodeStep DEF Aged
<1>2. ASSUME NEW c \in Codes, code'[c].st \in There PROVE code[c].st \in There
  BY <1>0, <1>1, <1>2 DEF Aged, There, TypeOK, CodeRow, RowStates
<1>3. ASSUME NEW k \in Tokens, token'[k].st \in There
      PROVE  token[k].st \in There /\ token'[k].c = token[k].c
  BY <1>0, <1>3, NewTokenStep DEF Aged, There
<1>4. ASSUME NEW c \in Codes, NEW z \in Bearers(c)' PROVE z \in Bearers(c)
  <2>1. CASE z = <<"code", c>> /\ code'[c].st \in There
    BY <1>2, <2>1, Bears
  <2>2. ASSUME NEW k \in Tokens, z = <<"token", k>>, token'[k].st \in There, token'[k].c = c
        PROVE  z \in Bearers(c)
    BY <1>3, <2>2, Bears
  <2>3. ASSUME NEW q \in Requests, z = <<"request", q>>, Holding(q, c)'
        PROVE  z \in Bearers(c)
    BY <2>3, Bears
  <2>. QED BY <2>1, <2>2, <2>3 DEF Bearers
<1>5. GivenOut' = GivenOut
  BY <1>1 DEF GivenOut
<1>. QED BY <1>4, <1>5, OnlyLoses DEF Abstract!SUNext

LEMMA StepRefines == IndInv /\ NoFork /\ NoFork' /\ [Next]_vars => [Abstract!SUNext]_(Abstract!suVars)
<1>. SUFFICES ASSUME IndInv, NoFork, NoFork', [Next]_vars PROVE Abstract!SUNext
  OBVIOUS
<1>1. CASE \E q \in Requests : Minting(q)
  BY <1>1, MintingRefines
<1>2. CASE \E q \in Requests : Issuance(q)
  BY <1>2, IssuanceRefines
<1>3. ASSUME NEW q \in Requests, NEW c \in Codes, Holding(q, c)', ~Holding(q, c)
      PROVE  Abstract!SUNext
  BY <1>3, NewHolder, WinningRefines
<1>. QED BY <1>1, <1>2, <1>3, OthersRefine

\* For any number of users, codes, tokens, requests and failures, what a code
\* is worth passes from one bearer to the next, and what is lost never comes
\* back (oauth.service.ts:299, :314).
THEOREM SingleUseHolds == Spec => ImplementsSingleUse
<1>1. Init => Abstract!SUInit
  BY DEF Init, Abstract!SUInit, GivenOut, AllBearers, Bearers, Holding, There, Idle, NoCode, NoToken
<1>. QED BY <1>1, StepRefines, Invariance, NeverForks, PTL
         DEF Spec, ImplementsSingleUse, Abstract!SUSpec
=============================================================================
