SPECIFICATION FairSpec
CONSTANTS
  vault = vault
  Replicas = {r1, r2}
  Releases = {33, 36}
  Databases <- AnyDatabase
  Dialects = {"transactional", "autocommit"}
  MaxCrashes = 1
  Providers = {vault}
  Deks = {d1, d2}
  Secrets = {s1}
  BootKey = BootKey
  NoKey = NoKey
  Changes <- Adoption
INVARIANTS
  SchemaServes
  SecretsRecoverable
PROPERTY
  EveryReplicaMigrates
