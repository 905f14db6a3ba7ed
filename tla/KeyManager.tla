----------------------------- MODULE KeyManager -----------------------------
(***************************************************************************)
(* The at-rest key set (crypto/kms/key-manager.ts, crypto.ts): replicas    *)
(* boot with or without an external KMS, agree on one data encryption key  *)
(* through the app_keyring row, and encrypt and decrypt stored secrets.    *)
(*                                                                         *)
(* A ciphertext is known by the key that made it: the bootstrap key for    *)
(* enc:v1, a DEK for enc:v2.  A wrapped DEK is the provider that wrapped   *)
(* it and the DEK; another provider cannot unwrap it.                      *)
(***************************************************************************)

EXTENDS Deployment

CONSTANTS
  Providers,   \* the KMS providers (vault, azure)
  Deks,        \* what crypto.randomBytes may return
  Secrets,     \* stored secrets
  BootKey,     \* the key derived from the bootstrap secret
  NoKey,        \* no KMS configured; no row; nothing stored
  Changes      \* <<from, to>>: the changes of KRAVN_KMS_PROVIDER made

ASSUME KeyConstants ==
  /\ NoKey \notin Providers \cup Deks \cup [provider : Providers, dek : Deks]
  /\ BootKey \notin Deks \cup {NoKey}

VARIABLES
  config,      \* KRAVN_KMS_PROVIDER of the deployment
  env,         \* env[r]: the provider r was started with
  pc,          \* pc[r]: where the boot of r is
  dek,         \* dek[r]: the DEK r has generated or unwrapped
  wrapped,     \* wrapped[r]: the keyring row r has read
  keyring,     \* the app_keyring row
  value,       \* value[s]: the key secret s is encrypted with
  spent        \* the DEKs generated so far

keyVars == <<config, env, pc, dek, wrapped, keyring, value, spent>>

Wrapped == [provider : Providers, dek : Deks]
Booting == {"read", "wrap", "insert", "reread", "unwrap"}

KeyTypes ==
  /\ config \in Providers \cup {NoKey}
  /\ env \in [Replicas -> Providers \cup {NoKey}]
  /\ pc \in [Replicas -> Booting \cup {"down", "up"}]
  /\ dek \in [Replicas -> Deks \cup {NoKey}]
  /\ wrapped \in [Replicas -> Wrapped \cup {NoKey}]
  /\ keyring \in Wrapped \cup {NoKey}
  /\ value \in [Secrets -> Deks \cup {BootKey, NoKey}]
  /\ spent \subseteq Deks

KeyInit ==
  /\ config = NoKey
  /\ env = [r \in Replicas |-> NoKey]
  /\ pc = [r \in Replicas |-> "down"]
  /\ dek = [r \in Replicas |-> NoKey]
  /\ wrapped = [r \in Replicas |-> NoKey]
  /\ keyring = NoKey
  /\ value = [s \in Secrets |-> NoKey]
  /\ spent = {}

BootGoes(r, p) == pc' = [pc EXCEPT ![r] = p]

-----------------------------------------------------------------------------
(* Booting a replica.                                                      *)

Reconfigure ==
  /\ \E p \in Providers \cup {NoKey} : <<config, p>> \in Changes /\ config' = p
  /\ UNCHANGED <<env, pc, dek, wrapped, keyring, value, spent>>

Boot(r) ==
  /\ pc[r] = "down"
  /\ env' = [env EXCEPT ![r] = config]
  /\ BootGoes(r, IF config = NoKey THEN "up" ELSE "read")
  /\ UNCHANGED <<config, dek, wrapped, keyring, value, spent>>

\* The first look at the keyring: provision, unwrap, or refuse to boot.
ReadKeyring(r) ==
  /\ pc[r] = "read"
  /\ wrapped' = [wrapped EXCEPT ![r] = keyring]
  /\ BootGoes(r, IF keyring = NoKey THEN "wrap"
                 ELSE IF keyring.provider = env[r] THEN "unwrap"
                 ELSE "down")
  /\ UNCHANGED <<config, env, dek, keyring, value, spent>>

\* A fresh DEK, wrapped by the KMS.
Wrap(r) ==
  /\ pc[r] = "wrap"
  /\ \E d \in Deks \ spent :
       /\ dek' = [dek EXCEPT ![r] = d]
       /\ spent' = spent \cup {d}
  /\ BootGoes(r, "insert")
  /\ UNCHANGED <<config, env, wrapped, keyring, value>>

\* The primary key lets one insert through.
InsertRow(r) ==
  IF keyring = NoKey
  THEN keyring' = [provider |-> env[r], dek |-> dek[r]] /\ BootGoes(r, "up")
  ELSE UNCHANGED keyring /\ BootGoes(r, "reread")

Insert(r) ==
  /\ pc[r] = "insert"
  /\ InsertRow(r)
  /\ UNCHANGED <<config, env, dek, wrapped, value, spent>>

\* The insert fails towards the replica, applied or not.
InsertFault(r) ==
  /\ pc[r] = "insert"
  /\ BootGoes(r, "reread")
  /\ \/ UNCHANGED keyring
     \/ keyring = NoKey /\ keyring' = [provider |-> env[r], dek |-> dek[r]]
  /\ UNCHANGED <<config, env, dek, wrapped, value, spent>>

\* Mutant of AfterConflict: the replica goes on with the DEK it generated.
AfterConflictOwnDek(r) == IF keyring = NoKey THEN "down" ELSE "up"

\* "Re-read and unwrap the winning DEK so replicas agree"
AfterConflict(r) == IF keyring = NoKey THEN "down" ELSE "unwrap"

Reread(r) ==
  /\ pc[r] = "reread"
  /\ wrapped' = [wrapped EXCEPT ![r] = keyring]
  /\ BootGoes(r, AfterConflict(r))
  /\ UNCHANGED <<config, env, dek, keyring, value, spent>>

\* The KMS unwraps what it wrapped and rejects the rest.
Unwrap(r) ==
  /\ pc[r] = "unwrap"
  /\ IF wrapped[r].provider = env[r]
     THEN dek' = [dek EXCEPT ![r] = wrapped[r].dek] /\ BootGoes(r, "up")
     ELSE UNCHANGED dek /\ BootGoes(r, "down")
  /\ UNCHANGED <<config, env, wrapped, keyring, value, spent>>

\* A call to the KMS or the database fails the boot, or the process stops.
Stop(r) ==
  /\ pc[r] # "down"
  /\ BootGoes(r, "down")
  /\ dek' = [dek EXCEPT ![r] = NoKey]
  /\ wrapped' = [wrapped EXCEPT ![r] = NoKey]
  /\ UNCHANGED <<config, env, keyring, value, spent>>

-----------------------------------------------------------------------------
(* The Encryptor.                                                          *)

ActiveKey(r) == IF env[r] = NoKey THEN BootKey ELSE dek[r]
Readers(r) == {ActiveKey(r), BootKey}

\* decrypt throws unless the process holds the key.
CanRead(r, s) == value[s] = NoKey \/ value[s] \in Readers(r)

Save(r, s) ==
  /\ pc[r] = "up"
  /\ value' = [value EXCEPT ![s] = ActiveKey(r)]
  /\ UNCHANGED <<config, env, pc, dek, wrapped, keyring, spent>>

KeyNext ==
  \/ Reconfigure
  \/ \E r \in Replicas :
       \/ Boot(r)
       \/ ReadKeyring(r)
       \/ Wrap(r)
       \/ Insert(r)
       \/ InsertFault(r)
       \/ Reread(r)
       \/ Unwrap(r)
       \/ Stop(r)
       \/ \E s \in Secrets : Save(r, s)

KeySpec == KeyInit /\ [][KeyNext]_keyVars

-----------------------------------------------------------------------------
(* Properties.                                                             *)

UpWithKms(r) == pc[r] = "up" /\ env[r] # NoKey

\* All replicas that run under a KMS hold one DEK, the one in the keyring,
\* however their first boots raced (key-manager.ts:72).
ReplicasAgree ==
  \A r \in Replicas :
    UpWithKms(r) => keyring # NoKey /\ dek[r] = keyring.dek

\* No secret is lost: whatever key a stored secret was written with, the
\* keyring holds it or it is the bootstrap key, so every replica that runs
\* under the KMS reads it.
SecretsRecoverable ==
  /\ \A s \in Secrets :
       value[s] \in Deks => keyring # NoKey /\ value[s] = keyring.dek
  /\ \A r \in Replicas, s \in Secrets : UpWithKms(r) => CanRead(r, s)

\* Once there, the keyring row stays as it is: nothing makes the secrets
\* under its DEK unreadable.
KeyringIsForever == [][keyring # NoKey => keyring' = keyring]_keyVars

\* The inductive invariant: what a boot has read is what the row says, and
\* the row belongs to the provider of everybody who got through.
BootsFollowKeyring ==
  \A r \in Replicas :
    /\ pc[r] = "unwrap" => keyring # NoKey /\ wrapped[r] = keyring
    /\ UpWithKms(r) => keyring # NoKey /\ keyring.provider = env[r]
    /\ pc[r] = "insert" => dek[r] \in Deks
    /\ pc[r] \in Booting => env[r] # NoKey

KeyInv ==
  /\ KeyTypes
  /\ BootsFollowKeyring
  /\ ReplicasAgree
  /\ SecretsRecoverable
=============================================================================
