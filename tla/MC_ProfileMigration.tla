------------------------- MODULE MC_ProfileMigration -------------------------
(* A small instance of ProfileMigration for TLC: a runtime and two roots. *)
EXTENDS ProfileMigration
=============================================================================
