----------------------------- MODULE MCForceRun -----------------------------
(* Two processors, each with a task and an interrupt level, and two pids.  *)
EXTENDS ForceRun

CONSTANTS c1, c2
const_Cpus == {c1, c2}
const_OneCpu == {c1}
const_Pids == {2, 3}
=============================================================================
