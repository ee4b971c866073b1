---------------------------- MODULE MCMigrations ----------------------------
(***************************************************************************)
(* Instances of Migrations for TLC.                                        *)
(***************************************************************************)
EXTENDS Migrations

CONSTANTS a, b, internal, app

\* Two replicas of one application: internal migrations, then ./migrations.
Replicas == [p \in {a, b} |-> <<[table |-> internal, newest |-> 1],
                                [table |-> app, newest |-> 2]>>]
=============================================================================
