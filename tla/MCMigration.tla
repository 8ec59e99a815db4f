---------------------------- MODULE MCMigration -----------------------------
EXTENDS Migration

(* The statements of 001_init, 002_quality_signals and 003_attachments.    *)
Sizes == <<8, 3, 2>>
=============================================================================
