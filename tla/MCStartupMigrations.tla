------------------------ MODULE MCStartupMigrations ------------------------
(* Instances of StartupMigrations for TLC. *)
EXTENDS StartupMigrations

\* Provisioned by any release, or not at all.
AnyOrigin == -1..4
=============================================================================
