---------------------------- MODULE MCMigration ----------------------------
(* Two processors, as CONFIG_NR_CPUS says, of which one may go offline.    *)
EXTENDS Migration

CONSTANTS p1, p2
const_Cpus       == {1, 2}
const_Offlinable == {2}
const_Tasks      == {p1, p2}
const_Callers    == {p1, p2}
const_Forcible   == {p2}
const_Sleepers   == {p2}
=============================================================================
