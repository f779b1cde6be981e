---------------------------- MODULE MCMigrations ----------------------------
(* The bot, the bootstrap script and a second run of it; three releases.    *)
EXTENDS Migrations

CONSTANTS bot, script, again

MCProcs == {bot, script, again}
MCSize == <<3, 1, 2>>
=============================================================================
