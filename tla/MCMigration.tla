----------------------------- MODULE MCMigration -----------------------------
\* An instance that moves on, or back, between three hosts.
EXTENDS Migration

CONSTANTS a, b, c

ThreeHosts == {a, b, c}
==============================================================================
