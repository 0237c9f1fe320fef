------------------------------ MODULE Database ------------------------------
(***************************************************************************)
(* The database from its first migration on: the schema is migrated, the   *)
(* application listens, and then its tables are written and queried.  The  *)
(* schema is the same for every installation that listens (SchemaServed),  *)
(* so that the catalogue is looked at on a fresh one.                      *)
(***************************************************************************)
EXTENDS Migrations, Catalogue

DatabaseInit == MigrationInit /\ CatalogueInit

\* What migrations and reverts do with rows is in Migrations.
Migrate == writes = 0 /\ walk.pc = "idle" /\ MigrationNext /\ UNCHANGED catalogueVars

Serve == serving /\ executed = Names(ByTimestamp) /\ CatalogueNext /\ UNCHANGED migrationVars

DatabaseSpec == DatabaseInit /\ [][Migrate \/ Serve]_<<migrationVars, catalogueVars>>
=============================================================================
