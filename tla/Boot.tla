-------------------------------- MODULE Boot --------------------------------
(***************************************************************************)
(* Starting the gateway (main.ts, services.ts): a replica brings the       *)
(* schema up to date (Migrations), resolves the key set (KeyManager) and   *)
(* serves; what it serves with uses both.                                  *)
(***************************************************************************)
EXTENDS Migrations, KeyManager

bootVars == <<mvars, keyVars>>

BootInit == MInit /\ KeyInit

BootTypeOK ==
  /\ phase \in [Replicas -> {"down", "listed", "next", "step", "done"}]
  /\ lock.by \in Replicas \cup {"nobody", "gone"} /\ lock.seen \in BOOLEAN
  /\ Visible.done \in 0..Len(MIGRATIONS)
  /\ KeyTypes

KeysUnresolved(r) == pc[r] = "down"

\* createServices migrates first; a replica that is up migrates no more.
Migrate(r) == KeysUnresolved(r) /\ MigrateStep(r) /\ UNCHANGED keyVars
MigrationDies(r) == Die(r) /\ UNCHANGED keyVars
JobEnds(r) == KeysUnresolved(r) /\ ExitJob(r) /\ UNCHANGED keyVars
Operate == (Unlock \/ \E r \in Replicas : Upgrade(r)) /\ UNCHANGED keyVars

\* A boot that fails takes the process with it.
Follow(r) ==
  /\ phase' = [phase EXCEPT ![r] = IF pc'[r] = "down" THEN "down" ELSE @]
  /\ UNCHANGED <<dialect, db, saved, lock, left, release, crashes>>

\* KeyManager.create comes after the migrations have returned.
ResolveKeys(r) ==
  /\ phase[r] = "done"
  /\ \/ Boot(r) \/ ReadKeyring(r) \/ Wrap(r) \/ Insert(r)
     \/ InsertFault(r) \/ Reread(r) \/ Unwrap(r)
  /\ Follow(r)

\* A replica that has got past its migrations stops.
Exit(r) ==
  /\ Stop(r)
  /\ Follow(r)

Store(r) == \E s \in Secrets : Save(r, s) /\ UNCHANGED mvars
Redeploy == Reconfigure /\ UNCHANGED mvars

BootNext ==
  \/ \E r \in Replicas :
       \/ Migrate(r) \/ MigrationDies(r) \/ JobEnds(r)
       \/ ResolveKeys(r) \/ Exit(r) \/ Store(r)
  \/ Operate
  \/ Redeploy

BootSpec == BootInit /\ [][BootNext]_bootVars

\* The start of a process goes on, the lock is granted in turn, and the
\* operator releases what a dead process left.
Fairness ==
  /\ \A r \in Replicas : WF_bootVars(Migrate(r)) /\ SF_bootVars(TakeLock(r) /\ UNCHANGED keyVars)
  /\ WF_bootVars(Unlock /\ UNCHANGED keyVars)

FairSpec == BootSpec /\ Fairness

-----------------------------------------------------------------------------
(* Properties.                                                             *)

\* Whoever is past the migrations finds every table and column its release
\* uses, also while a later release is being rolled out and migrates, dies
\* and migrates again.
SchemaServes == \A r \in Replicas : phase[r] = "done" => Served(r)

\* That secrets written by any replica stay readable is KeyManager's
\* SecretsRecoverable.

\* Runs that nothing interrupts get through on every database, and so do
\* interrupted ones where DDL is transactional; only a release older than
\* the database is left out.
Torn == dialect = "autocommit" /\ crashes > 0
EveryReplicaMigrates ==
  \A r \in Replicas :
    phase[r] = "down" ~> phase[r] = "done" \/ Visible.done > release[r] \/ Torn

=============================================================================
