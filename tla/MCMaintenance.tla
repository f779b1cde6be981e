--------------------------- MODULE MCMaintenance ---------------------------
(* A window of one day and three days, so that archives expire while others *)
(* are kept; the disk is full with four files, the manual copy among them.  *)
EXTENDS Maintenance

CONSTANT snapshot

MCManual == {snapshot}
=============================================================================
